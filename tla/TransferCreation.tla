--------------------------- MODULE TransferCreation ---------------------------
(***************************************************************************)
(* The creation of transfers from one wallet to one recipient, through the *)
(* three ways that exist: the merchants' API (routes/merchantApi.js), the  *)
(* client portal (controllers/clientTransactionController.js) and the      *)
(* mobile application (TransferService.ts).  Each protects itself against  *)
(* repeated requests in its own way, with idempotency keys, locks and a    *)
(* unique index, and all of them through transferCooldownService.js, which *)
(* refuses a second transfer to a recipient for some minutes.              *)
(*                                                                         *)
(* A request creates one transfer at most, so a transfer is named by its   *)
(* request.  It is paid from one wallet, or from two when the client is a  *)
(* sub-account and its master pays too.  Deployments are those of          *)
(* LockService: "single" has no MongoDB transactions either, and there     *)
(* the statements of a creation run one after the other.                   *)
(*                                                                         *)
(* Prices, the amounts of balances, limits and validations are left out: a *)
(* charge that the balance does not cover may happen at any time.  Reads   *)
(* that fail end their request before it has changed anything, and are     *)
(* not steps.                                                              *)
(***************************************************************************)
EXTENDS LockService, Naturals, FiniteSets

CONSTANTS Keys,      \* idempotency keys
          NoKey,     \* a request that has none
          PayLock,   \* the cooldown's lock for the wallet and the recipient
          Payload,   \* what is asked for: an amount, all else being the same
          Channels,  \* "merchant", "web", "app"
          MaxFaults  \* bound: loose + faults

ASSUME KeysAssumption ==
    Key = Keys \cup {PayLock} /\ PayLock \notin Keys /\ NoKey \notin Key
ASSUME PayloadAssumption == Payload # {}
ASSUME ChannelsAssumption == Channels \subseteq {"merchant", "web", "app"}
ASSUME FaultsAssumption == MaxFaults \in Nat

VARIABLES
    pc,       \* what each request does next
    ask,      \* what it asks for
    answer,   \* what it has told its client
    row,      \* the transfer it created; in flight: its commit is not over
    age,      \* of the transfer: 0 under two minutes, 1 under five, 2 older
    charged,  \* wallets it has charged, net
    loose,    \* locks that lapsed under their holder, were fallen through, or
              \* were released before the commit was over
    faults,   \* other faults
    payers    \* wallets that pay a transfer, chosen once

fixed == <<deployment, payers>>
vars == <<fixed, locks, pc, ask, answer, row, age, charged, loose, faults>>

Steps == {"idle", "lookup", "lockKey", "relook", "lockPay", "check", "commit",
          "debit", "save", "undo", "recover", "free", "done"}

\* ok: created; replay: the answer of the key's transfer; conflict: the key is
\* another request's; refused; busy: try again; unknown: an error, or nothing.
Answers == {"none", "ok", "replay", "conflict", "refused", "busy", "unknown"}

\* after: its key's transfer, of the same request, existed before it started.
Asking == [channel : Channels \cup {"none"}, key : Keys \cup {NoKey},
           payload : Payload, after : BOOLEAN]

TypeOK ==
    /\ LockTypeOK
    /\ pc \in [Req -> Steps]
    /\ ask \in [Req -> Asking]
    /\ answer \in [Req -> Answers]
    /\ row \in [Req -> {"none", "flight", "live", "closed"}]
    /\ age \in [Req -> 0..2]
    /\ charged \in [Req -> 0..2]
    /\ loose \in Nat /\ faults \in Nat
    /\ payers \in 1..2

Init ==
    /\ LockInit
    /\ pc = [r \in Req |-> "idle"]
    /\ ask = [r \in Req |-> [channel |-> "none", key |-> NoKey, after |-> FALSE,
                             payload |-> CHOOSE p \in Payload : TRUE]]
    /\ answer = [r \in Req |-> "none"]
    /\ row = [r \in Req |-> "none"]
    /\ age = [r \in Req |-> 0]
    /\ charged = [r \in Req |-> 0]
    /\ loose = 0 /\ faults = 0
    /\ payers \in 1..2

Transactions == deployment # "single"

Budget == loose + faults < MaxFaults
NoFault == UNCHANGED <<loose, faults>>
AFault == Budget /\ faults' = faults + 1 /\ UNCHANGED loose
ALoose == Budget /\ loose' = loose + 1 /\ UNCHANGED faults

Goto(r, step) == pc' = [pc EXCEPT ![r] = step]
Answer(r, a) == answer' = [answer EXCEPT ![r] = a]
AnswerAndFree(r, a) == Goto(r, "free") /\ Answer(r, a)

Keyed(r) == ask[r].key # NoKey
Merchant(r) == ask[r].channel = "merchant"

\* A merchant's key is hashed with its account and channel: it is another key
\* than the portal's and the application's, which is stored as it comes.
SameKey(q, o) == q.key = o.key /\ (q.channel = "merchant" <=> o.channel = "merchant")

\* The transfer stored under a key.
UnderKey(q) == {s \in Req : row[s] \in {"live", "closed"} /\ Keyed(s) /\ SameKey(q, ask[s])}

\* Fingerprints bind a key to the channel and to what was asked for.
SameRequest(q, o) == q.channel = o.channel /\ q.payload = o.payload

\* Mutant: the answer is not stored with the transfer.
NeverReplay(r) == "conflict"

ReplayOrConflict(r) ==
    IF \A s \in UnderKey(ask[r]) : SameRequest(ask[r], ask[s]) THEN "replay" ELSE "conflict"

\* With its key the portal and the merchants' API look for the transfer at
\* once; the application takes the key's lock first.
Start(r, c, k, p) ==
    LET q == [channel |-> c, key |-> k, payload |-> p, after |-> FALSE]
        old == {s \in UnderKey(q) : SameRequest(q, ask[s])}
    IN
    /\ pc[r] = "idle"
    /\ c = "app" => k # NoKey
    /\ c = "merchant" => payers = 1
    /\ ask' = [ask EXCEPT ![r] = [q EXCEPT !.after = k # NoKey /\ old # {}]]
    /\ Goto(r, CASE c = "app" -> "lockKey"
                 [] c # "app" /\ k # NoKey -> "lookup"
                 [] OTHER -> "lockPay")
    /\ UNCHANGED <<fixed, locks, answer, row, age, charged, loose, faults>>

Lookup(r) ==
    /\ pc[r] = "lookup"
    /\ IF UnderKey(ask[r]) # {}
       THEN AnswerAndFree(r, ReplayOrConflict(r))
       ELSE Goto(r, IF Merchant(r) THEN "lockPay" ELSE "lockKey") /\ UNCHANGED answer
    /\ UNCHANGED <<fixed, locks, ask, row, age, charged, loose, faults>>

\* The portal's lock falls through in production too, to a set other processes
\* do not see.
LockKey(r) ==
    /\ pc[r] = "lockKey"
    /\ \/ Acquire(r, ask[r].key) /\ NoFault
       \/ FallThrough(r, ask[r].key) /\ ALoose
       \/ /\ ask[r].channel = "web" /\ deployment = "production"
          /\ AFault /\ UNCHANGED locks
    /\ Goto(r, "relook")
    /\ UNCHANGED <<fixed, ask, answer, row, age, charged>>

Relook(r) ==
    /\ pc[r] = "relook"
    /\ IF UnderKey(ask[r]) # {}
       THEN AnswerAndFree(r, ReplayOrConflict(r))
       ELSE Goto(r, "lockPay") /\ UNCHANGED answer
    /\ UNCHANGED <<fixed, locks, ask, row, age, charged, loose, faults>>

LockPay(r) ==
    /\ pc[r] = "lockPay"
    /\ \/ Acquire(r, PayLock) /\ NoFault
       \/ FallThrough(r, PayLock) /\ ALoose
    /\ Goto(r, "check")
    /\ UNCHANGED <<fixed, ask, answer, row, age, charged>>

\* A refusal with status 429; the merchants' API looks for the key's transfer
\* before it gives it.
Turn(r, a) ==
    IF Merchant(r) /\ Keyed(r) THEN Goto(r, "recover") /\ Answer(r, a)
    ELSE AnswerAndFree(r, a)

\* The lock stayed another's for all the attempts.
LockBusy(r) ==
    /\ \/ pc[r] = "lockKey" /\ (redis[ask[r].key] # Free \/ ask[r].key \in memory)
       \/ pc[r] = "lockPay" /\ (redis[PayLock] # Free \/ PayLock \in memory)
    /\ Turn(r, "busy")
    /\ UNCHANGED <<fixed, locks, ask, row, age, charged, loose, faults>>

\* Mutant: only transfers of the same amount are looked for.
CooldownSameAmount(r) ==
    \E s \in Req : row[s] = "live" /\ age[s] < 2 /\ ask[s].payload = ask[r].payload

\* A transfer of five minutes and the same amount, or of two and any amount.
Cooling(r) ==
    \E s \in Req : /\ row[s] = "live"
                   /\ \/ age[s] = 0
                      \/ age[s] = 1 /\ ask[s].payload = ask[r].payload

Check(r) ==
    /\ pc[r] = "check"
    /\ IF Cooling(r) THEN Turn(r, "refused")
       ELSE Goto(r, IF Transactions \/ (Merchant(r) /\ Keyed(r)) THEN "commit" ELSE "debit")
            /\ UNCHANGED answer
    /\ UNCHANGED <<fixed, locks, ask, row, age, charged, loose, faults>>

\* Mutant: the index on the keys has not been built.
NeverTaken(r) == FALSE

\* The unique index on idempotencyKey.
KeyTaken(r) ==
    Keyed(r) /\ \E s \in Req : row[s] # "none" /\ Keyed(s) /\ SameKey(ask[r], ask[s])

Created(r) ==
    /\ row' = [row EXCEPT ![r] = "live"]
    /\ charged' = [charged EXCEPT ![r] = payers]

\* Mutant: an error of the commit is answered like a refusal.
FailAsRefused(r) == AnswerAndFree(r, "refused")

\* The merchants' API looks for the key's transfer when the error is one of
\* concurrency; any other error is answered as one.
Fail(r) ==
    /\ Answer(r, "unknown")
    /\ \/ Merchant(r) /\ Keyed(r) /\ Goto(r, "recover")
       \/ Goto(r, "free")

\* The MongoDB transaction: charges, transfer and ledger, all or nothing.  Without
\* transactions a merchant's request with a key is refused.
Commit(r) ==
    /\ pc[r] = "commit" /\ Transactions /\ ~KeyTaken(r)
    /\ Created(r) /\ AnswerAndFree(r, "ok")
    /\ UNCHANGED <<fixed, locks, ask, age, loose, faults>>

CommitRefused(r) ==
    /\ pc[r] = "commit"
    /\ AnswerAndFree(r, "refused")
    /\ UNCHANGED <<fixed, locks, ask, row, age, charged, loose, faults>>

\* Aborted: a write conflict, or the key is taken.
CommitFails(r) ==
    /\ pc[r] = "commit" /\ Transactions
    /\ Fail(r)
    /\ UNCHANGED <<fixed, locks, ask, row, age, charged, loose, faults>>

\* The acknowledgement is lost: the commit is over, or it goes on while the
\* request gives up, its locks included.
CommitUncertain(r) ==
    /\ pc[r] = "commit" /\ Transactions /\ ~KeyTaken(r)
    /\ \/ Created(r) /\ AFault
       \/ row' = [row EXCEPT ![r] = "flight"] /\ UNCHANGED charged /\ ALoose
    /\ Fail(r)
    /\ UNCHANGED <<fixed, locks, ask, age>>

\* The lookup after an error of the merchants' API.
Recover(r) ==
    /\ pc[r] = "recover"
    /\ IF UnderKey(ask[r]) # {} THEN AnswerAndFree(r, ReplayOrConflict(r))
       ELSE Goto(r, "free") /\ UNCHANGED answer
    /\ UNCHANGED <<fixed, locks, ask, row, age, charged, loose, faults>>

\* Without transactions: one wallet after the other ...
Debit(r) ==
    /\ pc[r] = "debit"
    /\ charged' = [charged EXCEPT ![r] = @ + 1]
    /\ Goto(r, IF charged[r] + 1 = payers THEN "save" ELSE "debit")
    /\ UNCHANGED <<fixed, locks, ask, answer, row, age, loose, faults>>

\* ... of which one may not suffice, or fail ...
DebitRefused(r) ==
    /\ pc[r] = "debit"
    /\ Goto(r, "undo") /\ (Answer(r, "refused") \/ Answer(r, "unknown"))
    /\ UNCHANGED <<fixed, locks, ask, row, age, charged, loose, faults>>

\* ... then ledger and transfer, which may fail: what was done is undone, except
\* by the merchants' API, which has no compensation.
Save(r) ==
    /\ pc[r] = "save"
    /\ \/ /\ ~KeyTaken(r)
          /\ row' = [row EXCEPT ![r] = "live"] /\ AnswerAndFree(r, "ok")
          /\ NoFault
       \/ /\ ~Merchant(r) /\ Goto(r, "undo") /\ Answer(r, "unknown")
          /\ UNCHANGED row /\ NoFault
       \/ /\ Merchant(r) /\ AnswerAndFree(r, "unknown")
          /\ UNCHANGED row /\ AFault
    /\ UNCHANGED <<fixed, locks, ask, age, charged>>

\* Mutant: only the last charge is compensated.
UndoLast(r) == charged' = [charged EXCEPT ![r] = IF @ = 0 THEN 0 ELSE @ - 1]

\* Mutant: both wallets are compensated whichever was charged.
UndoAll(r) == charged' = [charged EXCEPT ![r] = @ - payers]

UndoCharges(r) == charged' = [charged EXCEPT ![r] = 0]

\* A compensation that fails is logged and forgotten.
Undo(r) ==
    /\ pc[r] = "undo"
    /\ Goto(r, "free")
    /\ \/ UndoCharges(r) /\ NoFault
       \/ UNCHANGED charged /\ AFault
    /\ UNCHANGED <<fixed, locks, ask, answer, row, age>>

\* The locks are released whatever happened.
ReleaseLocks(r) ==
    /\ pc[r] = "free"
    /\ \/ \E k \in Key :
            /\ grip[r][k] # "none"
            /\ \/ Release(r, k) /\ NoFault
               \/ ReleaseFails(r, k) /\ AFault
            /\ UNCHANGED pc
       \/ /\ \A k \in Key : grip[r][k] = "none"
          /\ Goto(r, "done") /\ UNCHANGED locks /\ NoFault
    /\ UNCHANGED <<fixed, ask, answer, row, age, charged>>

------------------------------------------------------------------------------
(* The rest of the system, time, and faults *)

\* A rejected or cancelled transfer is refunded and holds nobody up.
Close(r) ==
    /\ row[r] = "live"
    /\ row' = [row EXCEPT ![r] = "closed"]
    /\ charged' = [charged EXCEPT ![r] = 0]
    /\ UNCHANGED <<fixed, locks, pc, ask, answer, age, loose, faults>>

\* The commit that went on ends.
Land(r) ==
    /\ row[r] = "flight"
    /\ Created(r) \/ (row' = [row EXCEPT ![r] = "none"] /\ UNCHANGED charged)
    /\ UNCHANGED <<fixed, locks, pc, ask, answer, age, loose, faults>>

\* Some minutes pass.  Requests that hold the cooldown's lock do not take that
\* long, its time to live being 45 seconds.
Age(r) ==
    /\ row[r] \in {"live", "closed"} /\ age[r] < 2
    /\ age' = [age EXCEPT ![r] = @ + 1]
    /\ UNCHANGED <<fixed, locks, pc, ask, answer, row, charged, loose, faults>>

LockLapses(r, k) ==
    /\ Lapse(r, k) /\ ALoose
    /\ UNCHANGED <<fixed, pc, ask, answer, row, age, charged>>

\* One process of several stops, or the only one there is.
Stop(r) ==
    LET S == IF deployment = "production" THEN {r} ELSE Req
        Gone == {s \in S : pc[s] \notin {"idle", "done"}} IN
    /\ pc[r] \notin {"idle", "done"}
    /\ Abandon(S)
    /\ pc' = [s \in Req |-> IF s \in Gone THEN "done" ELSE pc[s]]
    /\ answer' = [s \in Req |-> IF s \in Gone THEN "unknown" ELSE answer[s]]
    /\ AFault
    /\ UNCHANGED <<fixed, ask, row, age, charged>>

KeyLapses(k) ==
    /\ OrphanLapses(k)
    /\ UNCHANGED <<fixed, pc, ask, answer, row, age, charged, loose, faults>>

Next ==
    \/ \E r \in Req :
          \/ \E c \in Channels, k \in Keys \cup {NoKey}, p \in Payload : Start(r, c, k, p)
          \/ Lookup(r) \/ LockKey(r) \/ Relook(r) \/ LockPay(r) \/ LockBusy(r)
          \/ Check(r) \/ Commit(r) \/ CommitRefused(r) \/ CommitFails(r)
          \/ CommitUncertain(r) \/ Recover(r)
          \/ Debit(r) \/ DebitRefused(r) \/ Save(r) \/ Undo(r) \/ ReleaseLocks(r)
          \/ Close(r) \/ Land(r) \/ Age(r) \/ Stop(r)
          \/ \E k \in Key : LockLapses(r, k)
    \/ \E k \in Key : KeyLapses(k)

Spec == Init /\ [][Next]_vars

------------------------------------------------------------------------------
(* Properties *)

\* A key creates one transfer at most, whatever the deployment, the locks that
\* lapse, the processes that stop and the requests that race with it.
OneTransferPerKey ==
    \A r, s \in Req : row[r] # "none" /\ row[s] # "none" /\ Keyed(r)
                      /\ ask[s].key = ask[r].key /\ SameKey(ask[r], ask[s]) => r = s

\* The wallets are charged for a transfer that exists and is not closed, all of
\* them, and for nothing else: at every moment with MongoDB transactions, and
\* without them once no request is under way, unless one was stopped, failed to
\* compensate, or failed in the merchants' API.
ChargedForTransfers ==
    \A r \in Req :
        Transactions \/ (faults = 0 /\ pc[r] \in {"free", "done"}) =>
            charged[r] = IF row[r] = "live" THEN payers ELSE 0

\* The cooldown holds across the three channels: a second live transfer to the
\* recipient within two minutes, or of the same amount within five, needs a lock
\* that lapsed under its holder, was fallen through, or was released while its
\* holder's commit went on.
CooldownKept ==
    /\ Cardinality({r \in Req : row[r] = "live" /\ age[r] = 0}) <= 1 + loose
    /\ \A p \in Payload :
          Cardinality({r \in Req : row[r] = "live" /\ age[r] < 2 /\ ask[r].payload = p})
              <= 1 + loose

\* A client that is told no, or to try again, has caused no transfer.
RefusalsAreTrue ==
    \A r \in Req : answer[r] \in {"conflict", "refused", "busy"}
                   /\ pc[r] \in {"free", "done"} => row[r] = "none"

\* A request repeated with its key after its transfer exists is never charged
\* again, nor told that it was refused or that its key is another's.
RepeatsReplay ==
    \A r \in Req : ask[r].after => answer[r] \in {"none", "replay", "busy", "unknown"}
                                   /\ row[r] = "none"
==============================================================================
