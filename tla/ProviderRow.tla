----------------------------- MODULE ProviderRow -----------------------------
(***************************************************************************)
(* The part of a Transaction document that decides who may move its money, *)
(* and the predicates of services/providerDispatchClaimService.js and      *)
(* utils/providerPendingOperation.js over it.                              *)
(*                                                                         *)
(* A row is                                                                *)
(*   status  the document's status                                         *)
(*   group   executorGroupId, NoGroup when unset                           *)
(*   op      an operatorId is recorded                                     *)
(*   mgr     managerGroupId names a group whose staff see the row          *)
(*   v       Mongoose's __v, bumped by the saves that assign proofImages   *)
(*   data    apiResultData:                                                *)
(*     att      the dispatch marker: providerDispatchAttemptId (with       *)
(*              providerDispatchStartedAt), 0 when absent                  *)
(*     result   providerDispatchResult                                     *)
(*     unres    providerResultUnresolved                                   *)
(*     ref      the provider reference: none, masked, or full              *)
(*     outcome  providerResolutionOutcome                                  *)
(*     effect   providerResolutionEffectStartedAt is set                   *)
(* Notes, receipts and names are left out.  So is waitingApiAutoCompletion: *)
(* no code under src/ sets it any more (only rows written by older builds  *)
(* carry it).                                                              *)
(***************************************************************************)
EXTENDS Naturals

CONSTANTS ApiGroups,      \* executor groups with isApiBot
          ManualGroups,   \* executor groups of human executors
          NoGroup

Groups == ApiGroups \cup ManualGroups

ASSUME GroupsAssumption == /\ ApiGroups \cap ManualGroups = {}
                           /\ NoGroup \notin Groups

Statuses == {"pending", "processing", "accepted", "completed",
             "rejected", "cancelled_by_admin"}

ApiResultData ==
    [att : Nat,
     result : {"none", "accepted", "rejected", "pending_reference"},
     unres : BOOLEAN,
     ref : {"none", "masked", "full"},
     outcome : {"none", "paid", "notpaid"},
     effect : BOOLEAN]

Row == [status : Statuses, group : Groups \cup {NoGroup}, op : BOOLEAN,
        mgr : BOOLEAN, v : Nat, data : ApiResultData]

NoData == [att |-> 0, result |-> "none", unres |-> FALSE, ref |-> "none",
           outcome |-> "none", effect |-> FALSE]

\* A customer's transfer as TransferService leaves it: debited, in the pool.
NewRow == [status |-> "pending", group |-> NoGroup, op |-> FALSE,
           mgr |-> FALSE, v |-> 0, data |-> NoData]

\* Single-field writes: the dispatch marker (0 clears it), the flag, the outcome
\* an administrator confirms, and that its effect has started.
WithAttempt(r, n) == [r EXCEPT !.data.att = n]
Flagged(r) == [r EXCEPT !.data.unres = TRUE]
WithOutcome(r, o) == [r EXCEPT !.data.outcome = o]
EffectStarted(r) == [r EXCEPT !.data.effect = TRUE]

------------------------------------------------------------------------------
HasDispatchMarker(r) == r.data.att # 0

HasDefinitiveProviderResult(r) ==
    \/ r.data.result \in {"accepted", "rejected"}
    \/ r.status = "completed" /\ r.data.ref # "none"

\* Mutant: the marker of a Payment that may be in flight is not recognised.
MarkerIgnored(r) == FALSE

NeedsUnresolvedHold(r) ==
    /\ HasDispatchMarker(r)
    /\ ~HasDefinitiveProviderResult(r)
    /\ ~r.data.unres

\* Mutant: only the flag holds the money.
HoldByFlagOnly(r) == r.data.unres

\* Do not refund, re-send or return the row to the assignable pool.
ProviderMoneyHold(r) ==
    /\ ~(r.status = "completed" /\ r.data.ref = "masked" /\ r.data.outcome # "notpaid")
    /\ ~(r.data.outcome = "notpaid" /\ r.status = "pending" /\ ~r.data.unres)
    /\ ~(r.data.outcome = "paid" /\ r.status = "completed")
    /\ \/ r.data.unres
       \/ NeedsUnresolvedHold(r)
       \/ r.data.result = "pending_reference"
       \/ r.data.outcome # "none"

\* Do not send another Payment.
AutomaticPaymentBlocked(r) ==
    \/ ProviderMoneyHold(r)
    \/ HasDispatchMarker(r) /\ r.data.result \in {"accepted", "pending_reference"}

\* What guardAutomaticProviderRedispatch reports as handled.
RedispatchHandled(r) == NeedsUnresolvedHold(r) \/ r.data.unres \/ AutomaticPaymentBlocked(r)

\* canReviewProviderOperation; stale says the marker is five minutes old.
CanReviewProviderOperation(r, stale) ==
    /\ r.status \in {"pending", "processing", "accepted"}
    /\ r.data.outcome = "none"
    /\ r.data.result # "rejected"
    /\ \/ r.data.unres
       \/ r.data.result = "pending_reference"
       \/ HasDispatchMarker(r) /\ stale
       \/ r.data.ref # "none"

\* notPaidEvidenceConflict; debited says the ledger holds an executor debit.
\* holdProviderAcceptedWithoutReference records referenceMasked = false, so a
\* pending_reference row does not conflict by itself.
NotPaidEvidenceConflict(r, debited) ==
    \/ r.data.effect
    \/ r.data.ref = "masked"
    \/ r.data.result = "accepted"
    \/ debited
==============================================================================
