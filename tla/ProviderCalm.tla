---------------------------- MODULE ProviderCalm ----------------------------
(***************************************************************************)
(* The provider dispatch while one actor at a time is on a row and the     *)
(* database answers truthfully: processes stop, jobs are redelivered after *)
(* a stop, writes fail and the provider refuses, but no two job runs on a  *)
(* row overlap, nobody acts on a row that is being worked on, reads do not *)
(* throw, and a write that throws took no effect.  The invariant below is  *)
(* inductive there; the runs of ProviderDispatch show which of the other   *)
(* behaviours break which property.                                        *)
(***************************************************************************)
EXTENDS ProviderDispatch

CalmEnv == {"reject", "writeError", "crash", "recrash"}

\* What holds of a row r, with its Payments p, manual payouts h, executor
\* debits d and refund f, between any two steps.
RowOK(r, p, h, d, f) ==
    /\ p + h <= 1
    /\ ~r.mgr
    /\ \A g \in Groups : d[g] # 0 => d[g] = 1 /\ p = 1 /\ r.group = g
    /\ p = 1 => r.data.att # 0
    /\ f # "no" <=> r.status \in {"rejected", "cancelled_by_admin"}
    /\ f = "open" => p + h = 0
    /\ h = 1 => r.data.att = 0 /\ r.status \in {"completed", "cancelled_by_admin"}
    /\ r.data.effect => r.data.outcome # "none"
    /\ r.data.result = "rejected" => r.data.outcome = "notpaid"
    /\ r.data.outcome = "notpaid" => p = 0
    /\ r.data.outcome = "paid" => p = 1
    /\ r.data.att = 0 =>
          /\ ~r.data.unres
          /\ r.data.ref = "none"
          /\ r.data.result \in {"none", "rejected"}
    /\ r.data.att # 0 =>
          /\ r.status \in {"processing", "completed", "cancelled_by_admin"}
          /\ r.status # "processing" => p = 1
          /\ r.status = "processing" => r.data.result \in {"none", "pending_reference"}
          /\ r.data.result = "pending_reference" /\ r.status = "processing" => r.data.unres
          /\ r.group \in ApiGroups
    /\ r.data.ref # "none" => p = 1 /\ r.data.result \in {"pending_reference", "accepted"}
    /\ r.status \in {"pending", "processing"} => ~r.op
    /\ r.status = "pending" => r.group = NoGroup
    /\ r.status = "processing" => r.group \in Groups
    /\ r.status = "accepted" => r.group \in ManualGroups
    /\ r.status = "completed" => p + h = 1
    /\ r.data.unres => r.status = "processing"

\* What holds of the record x of actor a, on a row r with Payments p and
\* executor debits d, while the actor is at each of its steps.
ActOK(a, x, r, p, d) ==
    LET fresh == x.doc = r /\ r.status = "processing" /\ r.group = x.grp
        clear == r.data.outcome = "none" /\ r.data.result = "none" /\ ~r.data.unres
    IN
    /\ x.pc \in {"guard", "read", "claim"} => x.grp \in ApiGroups
    /\ x.pc = "read" => ~RedispatchHandled(r)
    /\ x.pc = "claim" => fresh /\ clear /\ r.data.att = 0
    /\ x.pc \in {"pay", "release"} =>
          fresh /\ clear /\ r.data.att = x.att /\ x.att # 0 /\ p = 0
    /\ x.pc \in {"findDebit", "postDebit", "saveDone"} =>
          /\ fresh /\ p = 1
          /\ \/ a \in Workers /\ x.out = "masked" /\ clear
             \/ a \in Admins /\ x.out = "paid" /\ r.data.outcome = "paid"
    /\ x.pc = "postDebit" => \A g \in Groups : d[g] = 0
    /\ x.pc = "saveHold" => fresh /\ clear /\ p = 1 /\ x.out \in {"full", "none"}
    /\ x.pc \in {"saveRelease", "saveMismatch"} => fresh /\ clear /\ r.data.att = 0
    /\ x.pc = "exc" => r.status = "processing" /\ (r.data.att = 0 \/ NeedsUnresolvedHold(r))
    /\ x.pc = "excSave" => x.doc = r /\ r.status = "processing" /\ r.data.att = 0
    /\ x.pc = "markCas" =>
          r.status = "processing" /\ NeedsUnresolvedHold(r) /\ r.data.att = x.att
    /\ x.pc = "routeCas" => x.grp \in Groups
    /\ x.pc = "pullSave" =>
          x.doc = r /\ r.data.att = 0 /\ r.status \in {"processing", "accepted"}
    /\ x.pc = "resClaim" =>
          /\ x.doc = r /\ r.status = "processing" /\ r.data.att # 0
          /\ x.out \in {"paid", "notpaid"} /\ (x.out = "paid" <=> p = 1)
    /\ x.pc \in {"resEffect", "resRead"} =>
          /\ r.status = "processing" /\ r.data.att # 0
          /\ x.out \in {"paid", "notpaid"} /\ r.data.outcome = x.out
    /\ x.pc = "saveNotPaid" =>
          /\ x.doc = r /\ r.status = "processing" /\ r.data.att # 0
          /\ r.data.outcome = "notpaid"

RowsOK == \A t \in Tx : RowOK(row[t], paid[t], handed[t], debits[t], refunded[t])

ActorsOK ==
    \A a \in Actors :
        /\ act[a].pc = "idle" <=> act[a].tx = NoTx
        /\ act[a].pc # "idle" =>
              ActOK(a, act[a], row[act[a].tx], paid[act[a].tx], debits[act[a].tx])

\* One actor at a time is on a row.
Exclusive ==
    \A a, b \in Actors : act[a].tx = act[b].tx /\ act[a].tx # NoTx => a = b

\* The inductive invariant of the calm environment, on which the proofs of
\* ProviderDispatch_proofs rest: services/queueService.js, one job at a time.
CalmInv == TypeOK /\ Exclusive /\ RowsOK /\ ActorsOK

------------------------------------------------------------------------------
\* What the money does, seen from outside.
payouts == [t \in Tx |-> paid[t] + handed[t]]
reported == [t \in Tx |-> row[t].status = "completed"]

Promise == INSTANCE TransferPromise WITH charges <- debits, refund <- refunded

\* The dispatch through queueService, claim, resolution and reversal keeps the
\* promise made of a transfer's money.
KeepsPromise == Promise!Spec
==============================================================================
