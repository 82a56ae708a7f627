---------------------------- MODULE ExecutorTask ----------------------------
(***************************************************************************)
(* Transfers carried out by the employees of an executor group: accepted,  *)
(* routed, edited, cancelled, returned and completed through the web       *)
(* portal (services/executorTaskRoutingService.js,                         *)
(* executorTransactionMutationService.js, executorCompletionService.js)    *)
(* and through the mobile application (routes/mobileApi.js,                *)
(* services/mobileWebParityService.js), and what an administrator does to  *)
(* the same rows (routes/adminTransactions.js,                             *)
(* adminFinancialMutationService.js, ReversalService.ts).                  *)
(*                                                                         *)
(* The application's routes for completion, cancellation, edit and return  *)
(* read the task first and act later: on whatever it has become.  An act   *)
(* on a task that is no longer as it was read is counted in "late".        *)
(*                                                                         *)
(* MongoDB transactions exist in every deployment but "single", where the  *)
(* code runs the same statements one after the other.  A MongoDB           *)
(* transaction is one step: it reads and writes one snapshot, and of two   *)
(* that write one document the second is aborted.                          *)
(*                                                                         *)
(* The price is 1 per unit of amount, so an amount is also its cost, and   *)
(* "held" is the part of the customer's balance taken for a task: charges  *)
(* that the balance does not cover are refused, in the model at any time.  *)
(* The executor pool's balance, a cache recomputed from the rows, is not   *)
(* modelled.                                                               *)
(***************************************************************************)
EXTENDS LockService, Naturals, Integers, FiniteSets

CONSTANTS Task, Emp, NoTask, NoEmp,
          Amounts,     \* amounts a transfer may have
          Channels,    \* how employees reach the system: "web", "app"
          MaxFaults    \* bound: loose + late + faults

ASSUME KeyAssumption ==
    /\ Key = Emp \cup Task /\ Emp \cap Task = {}
    /\ NoTask \notin Task /\ NoEmp \notin Emp
ASSUME AmountsAssumption == Amounts \subseteq Nat \ {0}
ASSUME ChannelsAssumption == Channels \subseteq {"web", "app"}
ASSUME FaultsAssumption == MaxFaults \in Nat

VARIABLES
    status, owner, assigned,  \* status, operatorId, assignedExecutorId
    routed,    \* the row carries the group (executorGroupId)
    amount,    \* amount, and cost
    version,   \* Mongoose's __v, which a save that sets an array checks and
               \* raises: a completing save does, no other write here
    proof,     \* the proof of its completion: whose, and is it still on disk
    recorded,  \* its completion's effects are recorded in the outbox
    reversing, \* reversalLock
    held,      \* taken from the customer's balance for it, net
    req,       \* what each request is doing
    loose,     \* locks that lapsed under their holder or were fallen through
    late,      \* acts of the application on a task that had changed
    faults     \* other faults

rows == <<status, owner, assigned, routed, amount, version, proof, recorded,
          reversing>>
tallies == <<loose, late, faults>>
vars == <<deployment, locks, rows, held, req, tallies>>

Statuses == {"open", "accepted", "completed", "rejected", "cancelled"}
Reversible == {"open", "accepted", "completed"}
Steps == {"idle", "acceptCheck", "acceptClaim", "routeCheck", "routeClaim",
          "completeRead", "completeSave", "completeSync",
          "unlockEmp", "unlockTask",
          "editSave", "refund", "adminSave",
          "appCompleteSave", "appEditSave", "appReturnSave", "appReverse",
          "reverseRefund", "reverseFinish", "reverseUndo"}
\* target: the status a reversal gives
Request == [pc : Steps, emp : Emp \cup {NoEmp}, task : Task \cup {NoTask},
            seen : Amounts \cup {0}, ver : Nat, want : Amounts \cup {0},
            target : {"none", "rejected", "cancelled"}]
Idle == [pc |-> "idle", emp |-> NoEmp, task |-> NoTask, seen |-> 0, ver |-> 0,
         want |-> 0, target |-> "none"]

TypeOK ==
    /\ LockTypeOK
    /\ status \in [Task -> Statuses]
    /\ owner \in [Task -> Emp \cup {NoEmp}]
    /\ assigned \in [Task -> Emp \cup {NoEmp}]
    /\ routed \in [Task -> BOOLEAN]
    /\ amount \in [Task -> Amounts]
    /\ version \in [Task -> Nat]
    /\ proof \in [Task -> {"none", "web", "app", "deleted"}]
    /\ recorded \in [Task -> BOOLEAN]
    /\ reversing \in [Task -> BOOLEAN]
    /\ held \in [Task -> Int]
    /\ req \in [Req -> Request]
    /\ loose \in Nat /\ late \in Nat /\ faults \in Nat

\* A transfer is created routed to the group, its cost taken from the customer.
Init ==
    /\ LockInit
    /\ status = [t \in Task |-> "open"]
    /\ owner = [t \in Task |-> NoEmp] /\ assigned = [t \in Task |-> NoEmp]
    /\ routed = [t \in Task |-> TRUE]
    /\ amount \in [Task -> Amounts]
    /\ version = [t \in Task |-> 0]
    /\ proof = [t \in Task |-> "none"] /\ recorded = [t \in Task |-> FALSE]
    /\ reversing = [t \in Task |-> FALSE]
    /\ held = amount
    /\ req = [r \in Req |-> Idle]
    /\ loose = 0 /\ late = 0 /\ faults = 0

Transactions == deployment # "single"

NoFault == UNCHANGED tallies
Budget == loose + late + faults < MaxFaults
AFault == Budget /\ faults' = faults + 1 /\ UNCHANGED <<loose, late>>
ALoose == Budget /\ loose' = loose + 1 /\ UNCHANGED <<late, faults>>

Go(r, step) == req' = [req EXCEPT ![r].pc = step]
End(r) == req' = [req EXCEPT ![r] = Idle]

\* The row as a request must find it to act for its employee.
Mine(t, e) == status[t] = "accepted" /\ owner[t] = e

\* findOwnedAcceptedExecutorTask: either of the two fields names the employee.
Owned(t, e) == status[t] = "accepted" /\ e \in {owner[t], assigned[t]}

\* What a request read is no longer what is there.
Changed(r) == LET q == req[r] IN
    ~(Mine(q.task, q.emp) /\ amount[q.task] = q.seen)

\* An act of the application: late when the task has changed.
AppAct(r) ==
    /\ UNCHANGED <<loose, faults>>
    /\ IF Changed(r) THEN Budget /\ late' = late + 1 ELSE late' = late

Start(r, step, e, t) ==
    /\ req[r].pc = "idle"
    /\ req' = [req EXCEPT ![r] = [Idle EXCEPT !.pc = step, !.emp = e, !.task = t]]

\* A request that has read the task.
StartRead(r, step, e, t) ==
    /\ req[r].pc = "idle"
    /\ req' = [req EXCEPT ![r] = [Idle EXCEPT !.pc = step, !.emp = e, !.task = t,
                                              !.seen = amount[t], !.ver = version[t]]]

\* A request that needs a lock starts with its acquisition, if it gets it.
StartLocked(r, k, step, e, t) ==
    /\ Start(r, step, e, t)
    /\ \/ Acquire(r, k) /\ NoFault
       \/ FallThrough(r, k) /\ ALoose
    /\ UNCHANGED <<deployment, rows, held>>

\* The key a request has locked.
KeyOf(r) ==
    IF req[r].pc \in {"completeRead", "completeSave", "completeSync", "unlockTask"}
    THEN req[r].task ELSE req[r].emp

------------------------------------------------------------------------------
(* acceptExecutorTask and routeExecutorTask, web and application alike *)

Accept(r, e, t) == StartLocked(r, e, "acceptCheck", e, t)
Route(r, e, t) == StartLocked(r, e, "routeCheck", e, t)

\* Mutant: the employee's tasks are not looked at.
BusyNever(e) == FALSE

\* busyTaskFilter
Busy(e) == \E t \in Task : Mine(t, e)

\* Between the lock and the update: a task already accepted by the employee is
\* a replay, an employee with another accepted task is refused.
AcceptCheck(r) ==
    /\ req[r].pc = "acceptCheck"
    /\ Go(r, IF Owned(req[r].task, req[r].emp) \/ Busy(req[r].emp)
             THEN "unlockEmp" ELSE "acceptClaim")
    /\ UNCHANGED <<deployment, locks, rows, held, tallies>>

Claimable(t, e) == status[t] = "open" /\ routed[t] /\ assigned[t] \in {NoEmp, e}

AcceptClaim(r) == LET t == req[r].task  e == req[r].emp IN
    /\ req[r].pc = "acceptClaim"
    /\ Go(r, "unlockEmp")
    /\ IF Claimable(t, e)
       THEN /\ status' = [status EXCEPT ![t] = "accepted"]
            /\ owner' = [owner EXCEPT ![t] = e]
            /\ assigned' = [assigned EXCEPT ![t] = e]
       ELSE UNCHANGED <<status, owner, assigned>>
    /\ UNCHANGED <<deployment, locks, routed, amount, version, proof, recorded,
                   reversing, held, tallies>>

RouteCheck(r) ==
    /\ req[r].pc = "routeCheck"
    /\ Go(r, IF Busy(req[r].emp) THEN "unlockEmp" ELSE "routeClaim")
    /\ UNCHANGED <<deployment, locks, rows, held, tallies>>

RouteClaim(r) == LET t == req[r].task IN
    /\ req[r].pc = "routeClaim"
    /\ Go(r, "unlockEmp")
    /\ assigned' = IF status[t] = "open" /\ routed[t]
                   THEN [assigned EXCEPT ![t] = req[r].emp] ELSE assigned
    /\ UNCHANGED <<deployment, locks, status, owner, routed, amount, version,
                   proof, recorded, reversing, held, tallies>>

Unlock(r) ==
    /\ req[r].pc \in {"unlockEmp", "unlockTask"}
    /\ End(r)
    /\ \/ Release(r, KeyOf(r)) /\ NoFault
       \/ ReleaseFails(r, KeyOf(r)) /\ AFault
    /\ UNCHANGED <<deployment, rows, held>>

------------------------------------------------------------------------------
(* completeExecutorTask *)

Complete(r, e, t) ==
    "web" \in Channels /\ StartLocked(r, t, "completeRead", e, t)

\* The row is read outside the MongoDB transaction, and the proofs are written
\* to disk before it.
CompleteRead(r) == LET t == req[r].task IN
    /\ req[r].pc = "completeRead"
    /\ req' = IF Owned(t, req[r].emp)
              THEN [req EXCEPT ![r].pc = "completeSave", ![r].seen = amount[t],
                               ![r].ver = version[t]]
              ELSE [req EXCEPT ![r].pc = "unlockTask"]
    /\ UNCHANGED <<deployment, locks, rows, held, tallies>>

\* The row a completing save of channel c leaves.
SaveCompleted(t, c) ==
    /\ status' = [status EXCEPT ![t] = "completed"]
    /\ version' = [version EXCEPT ![t] = @ + 1]
    /\ proof' = [proof EXCEPT ![t] = c]
    /\ UNCHANGED <<owner, assigned, routed, amount, reversing>>

\* Mutant: the row is updated by its id alone.
SavedUnguarded(r) == TRUE

\* The save's filter: $where, and the version, for the proofs are arrays.
SaveMatches(r) ==
    Mine(req[r].task, req[r].emp) /\ version[req[r].task] = req[r].ver

\* With MongoDB transactions the row and the record of its effects are saved
\* together, and the answer to the commit may be lost.  A save that matches
\* nothing or fails has its proofs deleted: no row refers to them.
CompleteSave(r) == LET t == req[r].task IN
    /\ req[r].pc = "completeSave"
    /\ \/ /\ SaveMatches(r)
          /\ SaveCompleted(t, "web")
          /\ IF Transactions
             THEN recorded' = [recorded EXCEPT ![t] = TRUE] /\ Go(r, "unlockTask")
             ELSE UNCHANGED recorded /\ Go(r, "completeSync")
          /\ NoFault
       \/ ~SaveMatches(r) /\ Go(r, "unlockTask") /\ UNCHANGED rows /\ NoFault
       \/ Go(r, "unlockTask") /\ UNCHANGED rows /\ AFault
    /\ UNCHANGED <<deployment, locks, held>>

\* Mutant: the proofs are deleted although the commit may have taken effect.
CleanupAlways(t) == proof' = [proof EXCEPT ![t] = "deleted"]

\* An error labelled UnknownTransactionCommitResult keeps the proofs.
KeepProofs(t) == proof' = [proof EXCEPT ![t] = "web"]

CommitUncertain(r) == LET t == req[r].task IN
    /\ req[r].pc = "completeSave" /\ Transactions /\ SaveMatches(r)
    /\ status' = [status EXCEPT ![t] = "completed"]
    /\ version' = [version EXCEPT ![t] = @ + 1]
    /\ recorded' = [recorded EXCEPT ![t] = TRUE]
    /\ KeepProofs(t)
    /\ Go(r, "unlockTask") /\ AFault
    /\ UNCHANGED <<deployment, locks, owner, assigned, routed, amount, reversing, held>>

\* Without transactions: the sync and the record follow; if one fails the proofs
\* of the completed row are deleted.
CompleteSync(r) == LET t == req[r].task IN
    /\ req[r].pc = "completeSync"
    /\ Go(r, "unlockTask")
    /\ \/ /\ recorded' = [recorded EXCEPT ![t] = TRUE] /\ UNCHANGED proof
          /\ NoFault
       \/ /\ proof' = [proof EXCEPT ![t] = "deleted"] /\ UNCHANGED recorded
          /\ AFault
    /\ UNCHANGED <<deployment, locks, status, owner, assigned, routed, amount,
                   version, reversing, held>>

------------------------------------------------------------------------------
(* editExecutorAmount, cancelExecutorTask, returnExecutorTask *)

\* The customer pays or gets back the difference to the new amount a.
Reprice(t, from, a) == held' = [held EXCEPT ![t] = @ + a - from]

\* With a MongoDB transaction the difference and the row change together.
\* Without one the difference is charged first ...
Edit(r, e, t, a) ==
    /\ "web" \in Channels /\ req[r].pc = "idle" /\ Mine(t, e) /\ a # amount[t]
    /\ Reprice(t, amount[t], a)
    /\ IF Transactions
       THEN amount' = [amount EXCEPT ![t] = a] /\ UNCHANGED req
       ELSE /\ req' = [req EXCEPT ![r] = [Idle EXCEPT !.pc = "editSave", !.emp = e,
                           !.task = t, !.seen = amount[t], !.want = a]]
            /\ UNCHANGED amount
    /\ UNCHANGED <<deployment, locks, status, owner, assigned, routed, version,
                   proof, recorded, reversing, tallies>>

\* ... and kept when the save fails, for its $where has what was read, or on an
\* error: a fault, for the bound's sake, in both cases.
EditSave(r) == LET t == req[r].task IN
    /\ req[r].pc = "editSave"
    /\ End(r)
    /\ \/ ~Changed(r) /\ amount' = [amount EXCEPT ![t] = req[r].want] /\ NoFault
       \/ UNCHANGED amount /\ AFault
    /\ UNCHANGED <<deployment, locks, status, owner, assigned, routed, version,
                   proof, recorded, reversing, held>>

Cancel(r, e, t) ==
    /\ "web" \in Channels /\ req[r].pc = "idle" /\ Mine(t, e)
    /\ status' = [status EXCEPT ![t] = "rejected"]
    /\ IF Transactions
       THEN held' = [held EXCEPT ![t] = @ - amount[t]] /\ UNCHANGED req
       ELSE StartRead(r, "refund", e, t) /\ UNCHANGED held
    /\ UNCHANGED <<deployment, locks, owner, assigned, routed, amount, version,
                   proof, recorded, reversing, tallies>>

\* Without transactions the refund follows the rejection, or fails.
CancelRefund(r) ==
    /\ req[r].pc = "refund"
    /\ End(r)
    /\ \/ held' = [held EXCEPT ![req[r].task] = @ - req[r].seen] /\ NoFault
       \/ UNCHANGED held /\ AFault
    /\ UNCHANGED <<deployment, locks, rows>>

\* Mutant: the row is given a status of its own, which its schema lacks.
GiveBackReturned(t) ==
    /\ status' = [status EXCEPT ![t] = "returned"]
    /\ owner' = [owner EXCEPT ![t] = NoEmp]
    /\ assigned' = [assigned EXCEPT ![t] = NoEmp]
    /\ routed' = [routed EXCEPT ![t] = FALSE]
    /\ UNCHANGED <<amount, version, proof, recorded, reversing>>

\* Back to the administration: without group, owner or assignment.
GiveBack(t) ==
    /\ status' = [status EXCEPT ![t] = "open"]
    /\ owner' = [owner EXCEPT ![t] = NoEmp]
    /\ assigned' = [assigned EXCEPT ![t] = NoEmp]
    /\ routed' = [routed EXCEPT ![t] = FALSE]
    /\ UNCHANGED <<amount, version, proof, recorded, reversing>>

Return(e, t) ==
    /\ "web" \in Channels /\ Mine(t, e)
    /\ GiveBack(t)
    /\ UNCHANGED <<deployment, locks, held, req, tallies>>

------------------------------------------------------------------------------
(* The application: every route reads the task, then acts on it *)

AppReads(r, step, e, t) ==
    /\ "app" \in Channels /\ Owned(t, e) /\ StartRead(r, step, e, t)
    /\ UNCHANGED <<deployment, locks, rows, held, tallies>>

AppComplete(r, e, t) == AppReads(r, "appCompleteSave", e, t)
AppEdit(r, e, t, a) ==
    /\ "app" \in Channels /\ Mine(t, e) /\ a # amount[t] /\ req[r].pc = "idle"
    /\ req' = [req EXCEPT ![r] = [Idle EXCEPT !.pc = "appEditSave", !.emp = e,
                      !.task = t, !.seen = amount[t], !.want = a]]
    /\ UNCHANGED <<deployment, locks, rows, held, tallies>>
AppReturn(r, e, t) == Mine(t, e) /\ AppReads(r, "appReturnSave", e, t)
AppCancel(r, e, t) == AppReads(r, "appReverse", e, t)

\* tx.save() with no $where: only the version stands against a stale document.
AppCompleteSave(r) == LET t == req[r].task IN
    /\ req[r].pc = "appCompleteSave"
    /\ End(r)
    /\ \/ /\ version[t] = req[r].ver
          /\ AppAct(r) /\ SaveCompleted(t, "app") /\ UNCHANGED recorded
       \/ version[t] # req[r].ver /\ UNCHANGED rows /\ NoFault
       \/ UNCHANGED rows /\ AFault
    /\ UNCHANGED <<deployment, locks, held>>

\* The difference is computed from the document read, and charged and saved in
\* one MongoDB transaction; the route has no way without one.
AppEditSave(r) == LET t == req[r].task IN
    /\ req[r].pc = "appEditSave"
    /\ End(r)
    /\ \/ /\ Transactions /\ AppAct(r)
          /\ Reprice(t, req[r].seen, req[r].want)
          /\ amount' = [amount EXCEPT ![t] = req[r].want]
       \/ UNCHANGED <<held, amount>> /\ (AFault \/ (~Transactions /\ NoFault))
    /\ UNCHANGED <<deployment, locks, status, owner, assigned, routed, version,
                   proof, recorded, reversing>>

AppReturnSave(r) ==
    /\ req[r].pc = "appReturnSave"
    /\ End(r)
    /\ \/ AppAct(r) /\ GiveBack(req[r].task)
       \/ UNCHANGED rows /\ AFault
    /\ UNCHANGED <<deployment, locks, held>>

------------------------------------------------------------------------------
(* reverseTransaction, with a MongoDB transaction and without *)

\* Mutant: the status of the row is not looked at.
MayReverseAny(t) == TRUE

MayReverse(t) == status[t] \in Reversible

\* The whole refund and the new status st, in one MongoDB transaction.
Refund(t, st) ==
    /\ Transactions /\ MayReverse(t)
    /\ status' = [status EXCEPT ![t] = st]
    /\ held' = [held EXCEPT ![t] = @ - amount[t]]
    /\ UNCHANGED <<owner, assigned, routed, amount, version, proof, recorded,
                   reversing>>

\* Mutant: the fallback does not mind another reversal of the row.
ClaimAnyway(t) == MayReverse(t)

ReversalFree(t) == MayReverse(t) /\ ~reversing[t]

\* The fallback's claim of the row; the refund is of the cost it returns.
ClaimReversal(r, e, t, st) ==
    /\ ~Transactions /\ ReversalFree(t)
    /\ reversing' = [reversing EXCEPT ![t] = TRUE]
    /\ req' = [req EXCEPT ![r] = [Idle EXCEPT !.pc = "reverseRefund", !.emp = e,
                      !.task = t, !.seen = amount[t], !.target = st]]
    /\ UNCHANGED <<status, owner, assigned, routed, amount, version, proof,
                   recorded, held>>

AppReverse(r) == LET t == req[r].task IN
    /\ req[r].pc = "appReverse"
    /\ \/ Refund(t, "rejected") /\ End(r) /\ AppAct(r)
       \/ ClaimReversal(r, req[r].emp, t, "rejected") /\ AppAct(r)
       \/ /\ IF Transactions THEN ~MayReverse(t) ELSE ~ReversalFree(t)
          /\ End(r) /\ UNCHANGED <<rows, held>> /\ NoFault
    /\ UNCHANGED <<deployment, locks>>

AdminReverse(r, t) ==
    /\ req[r].pc = "idle"
    /\ \/ Refund(t, "cancelled") /\ UNCHANGED req
       \/ ClaimReversal(r, NoEmp, t, "cancelled")
    /\ UNCHANGED <<deployment, locks, tallies>>

\* Without a MongoDB transaction: the balance, then the row; on an error what was
\* done is compensated.
ReverseRefund(r) ==
    /\ req[r].pc = "reverseRefund"
    /\ \/ held' = [held EXCEPT ![req[r].task] = @ - req[r].seen]
          /\ Go(r, "reverseFinish") /\ NoFault
       \/ Go(r, "reverseUndo") /\ UNCHANGED held /\ AFault
    /\ UNCHANGED <<deployment, locks, rows>>

ReverseFinish(r) == LET t == req[r].task IN
    /\ req[r].pc = "reverseFinish"
    /\ \/ /\ status' = [status EXCEPT ![t] = req[r].target]
          /\ reversing' = [reversing EXCEPT ![t] = FALSE]
          /\ End(r) /\ UNCHANGED held /\ NoFault
       \/ /\ held' = [held EXCEPT ![t] = @ + req[r].seen]
          /\ Go(r, "reverseUndo") /\ UNCHANGED <<status, reversing>> /\ AFault
    /\ UNCHANGED <<deployment, locks, owner, assigned, routed, amount, version,
                   proof, recorded>>

ReverseUndo(r) ==
    /\ req[r].pc = "reverseUndo"
    /\ reversing' = [reversing EXCEPT ![req[r].task] = FALSE]
    /\ End(r)
    /\ UNCHANGED <<deployment, locks, status, owner, assigned, routed, amount,
                   version, proof, recorded, held, tallies>>

------------------------------------------------------------------------------
(* The administrator *)

\* assign-executor: to the group again, whatever owner the row still names.
AdminRoute(t) ==
    /\ status[t] = "open" /\ ~routed[t]
    /\ routed' = [routed EXCEPT ![t] = TRUE]
    /\ UNCHANGED <<deployment, locks, status, owner, assigned, amount, version,
                   proof, recorded, reversing, held, req, tallies>>

\* editTransactionAmount, and repriceTransaction: of a completed transfer too.
AdminEdit(r, t, a) ==
    /\ req[r].pc = "idle" /\ status[t] \in Reversible /\ a # amount[t]
    /\ Reprice(t, amount[t], a)
    /\ IF Transactions
       THEN amount' = [amount EXCEPT ![t] = a] /\ UNCHANGED req
       ELSE /\ req' = [req EXCEPT ![r] = [Idle EXCEPT !.pc = "adminSave",
                           !.task = t, !.seen = amount[t], !.want = a]]
            /\ UNCHANGED amount
    /\ UNCHANGED <<deployment, locks, status, owner, assigned, routed, version,
                   proof, recorded, reversing, tallies>>

\* Saved whatever the row has become; a changed amount is a fault, for the bound.
AdminSave(r) == LET t == req[r].task IN
    /\ req[r].pc = "adminSave"
    /\ End(r)
    /\ \/ /\ amount' = [amount EXCEPT ![t] = req[r].want]
          /\ IF amount[t] = req[r].seen THEN NoFault ELSE AFault
       \/ UNCHANGED amount /\ AFault
    /\ UNCHANGED <<deployment, locks, status, owner, assigned, routed, version,
                   proof, recorded, reversing, held>>

------------------------------------------------------------------------------
(* The environment *)

\* A lock's time to live passes while its holder is still at work.
LockLapses(r) ==
    /\ KeyOf(r) \in Key
    /\ Lapse(r, KeyOf(r)) /\ ALoose
    /\ UNCHANGED <<deployment, rows, held, req>>

\* One process of several stops, or the only one there is.
Stop(r) ==
    LET S == IF deployment = "production" THEN {r} ELSE Req IN
    /\ req[r].pc # "idle"
    /\ Abandon(S)
    /\ req' = [s \in Req |-> IF s \in S THEN Idle ELSE req[s]]
    /\ AFault
    /\ UNCHANGED <<deployment, rows, held>>

KeyLapses(k) == OrphanLapses(k) /\ UNCHANGED <<deployment, rows, held, req, tallies>>

Next ==
    \/ \E r \in Req, e \in Emp, t \in Task :
          \/ Accept(r, e, t) \/ Route(r, e, t) \/ Complete(r, e, t)
          \/ Cancel(r, e, t)
          \/ AppComplete(r, e, t) \/ AppReturn(r, e, t) \/ AppCancel(r, e, t)
          \/ \E a \in Amounts : Edit(r, e, t, a) \/ AppEdit(r, e, t, a)
    \/ \E e \in Emp, t \in Task : Return(e, t)
    \/ \E r \in Req :
          \/ AcceptCheck(r) \/ AcceptClaim(r) \/ RouteCheck(r) \/ RouteClaim(r)
          \/ Unlock(r)
          \/ CompleteRead(r) \/ CompleteSave(r) \/ CommitUncertain(r)
          \/ CompleteSync(r)
          \/ EditSave(r) \/ CancelRefund(r)
          \/ AppCompleteSave(r) \/ AppEditSave(r) \/ AppReturnSave(r)
          \/ AppReverse(r) \/ ReverseRefund(r) \/ ReverseFinish(r) \/ ReverseUndo(r)
          \/ AdminSave(r) \/ LockLapses(r) \/ Stop(r)
    \/ \E r \in Req, t \in Task :
          AdminReverse(r, t) \/ \E a \in Amounts : AdminEdit(r, t, a)
    \/ \E t \in Task : AdminRoute(t)
    \/ \E k \in Key : KeyLapses(k)

Spec == Init /\ [][Next]_vars

------------------------------------------------------------------------------
(* Properties *)

TasksOf(e) == {t \in Task : Mine(t, e)}

\* An employee works on one accepted task at a time: whatever requests race, a
\* second one needs a lock that lapsed under its holder, or one that was fallen
\* through where Redis is optional, and each of these lets in one more at most
\* (busy check and claim of acceptExecutorTask under the employee's lock).
OneActiveTask == \A e \in Emp : Cardinality(TasksOf(e)) <= 1 + loose

\* What the customer has paid for a task is its cost, or nothing once it has been
\* rejected or cancelled, through edits, cancellations, returns, completions and
\* reversals in any order: with MongoDB transactions, and unless the application
\* acted on a task that had changed (editExecutorAmount, cancelExecutorTask,
\* reverseTransaction, editTransactionAmount).
CustomerEven ==
    Transactions /\ late = 0 =>
        \A t \in Task : held[t] = IF status[t] \in Reversible THEN amount[t] ELSE 0

\* With MongoDB transactions a transfer completed on the web portal has its
\* effects recorded and its proofs on disk, whatever failed around the save, the
\* answer to its commit included (completeExecutorTask's cleanup).
CompletedIsWhole ==
    Transactions => \A t \in Task :
        proof[t] # "deleted"
        /\ (status[t] = "completed" /\ proof[t] = "web" => recorded[t])

\* A transfer is completed once: however often completion is asked for, on either
\* channel, a second one takes an act of the application on a changed task.
CompletedOnce == \A t \in Task : version[t] <= 1 + late

\* A row never has two reversals under way, and none once it has been reversed
\* (reversalLock of the fallback without MongoDB transactions).
Reversing(t) == {r \in Req : req[r].task = t
                             /\ req[r].pc \in {"reverseRefund", "reverseFinish", "reverseUndo"}}
OneReversal == \A t \in Task : Cardinality(Reversing(t)) <= 1

\* A rejected or cancelled transfer, whose customer has the money back, stays so:
\* with MongoDB transactions only a late act of the application reopens it.
ClosedStays ==
    [][\A t \in Task : Transactions /\ status[t] \notin Reversible /\ late' = late
                       => status'[t] = status[t]]_vars

\* A task is rejected only while it is accepted (409 INVALID_STATE of cancel-task).
RejectsAccepted ==
    [][\A t \in Task : status[t] # "rejected" /\ status'[t] = "rejected"
                       => status[t] = "accepted"]_vars
==============================================================================
