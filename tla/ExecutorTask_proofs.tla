------------------------- MODULE ExecutorTask_proofs -------------------------
(***************************************************************************)
(* Proofs about the tasks of executors, for any tasks, employees, amounts, *)
(* channels and bounds, and any finite number of requests, in each of the  *)
(* three deployments.                                                      *)
(***************************************************************************)
EXTENDS ExecutorTask, LockService_proofs

EmpSteps == {"acceptCheck", "acceptClaim", "routeCheck", "routeClaim", "unlockEmp"}
TaskSteps == {"completeRead", "completeSave", "completeSync", "unlockTask"}
ReverseSteps == {"reverseRefund", "reverseFinish", "reverseUndo"}
EditSteps == {"editSave", "appEditSave", "adminSave"}

\* Steps of the ways without MongoDB transactions.
Alone == {"completeSync", "editSave", "refund", "adminSave"} \cup ReverseSteps

\* What a request carries to the step it is at.
Fits(q) ==
    /\ q.pc = "idle" => q = Idle
    /\ q.pc # "idle" => q.task \in Task
    /\ q.pc \notin {"idle", "adminSave"} \cup ReverseSteps => q.emp \in Emp
    /\ q.pc \in EditSteps => q.want \in Amounts
    /\ q.pc \in ReverseSteps => q.target # "none"
    /\ q.pc \in Alone => ~Transactions

RowsTyped ==
    /\ status \in [Task -> Statuses]
    /\ owner \in [Task -> Emp \cup {NoEmp}]
    /\ assigned \in [Task -> Emp \cup {NoEmp}]
    /\ routed \in [Task -> BOOLEAN]
    /\ amount \in [Task -> Amounts]
    /\ version \in [Task -> Nat]
    /\ proof \in [Task -> {"none", "web", "app", "deleted"}]
    /\ recorded \in [Task -> BOOLEAN]
    /\ reversing \in [Task -> BOOLEAN]

TalliesTyped == loose \in Nat /\ late \in Nat /\ faults \in Nat

Requests == req \in [Req -> Request] /\ \A r \in Req : Fits(req[r])

TypeInv == TypeOK /\ \A r \in Req : Fits(req[r])

LEMMA TypeParts ==
    /\ TypeInv <=> LockTypeOK /\ RowsTyped /\ held \in [Task -> Int] /\ TalliesTyped /\ Requests
    /\ TypeInv' <=> LockTypeOK' /\ RowsTyped' /\ held' \in [Task -> Int] /\ TalliesTyped'
                    /\ Requests'
BY DEF TypeInv, TypeOK, RowsTyped, TalliesTyped, Requests

------------------------------------------------------------------------------
(* What steps do to a request *)

LEMMA IdleFits == Idle \in Request /\ Fits(Idle) /\ Idle.pc = "idle"
BY DEF Idle, Request, Fits, Steps, EditSteps, ReverseSteps, Alone

\* A request becomes q.
Becomes(r, q) == q \in Request /\ Fits(q) /\ req' = [req EXCEPT ![r] = q]

LEMMA BecomesDoes ==
    ASSUME Requests, NEW r \in Req, NEW q, Becomes(r, q), UNCHANGED deployment
    PROVE  Requests' /\ req'[r] = q /\ \A s \in Req \ {r} : req'[s] = req[s]
<1>1. req' \in [Req -> Request] /\ req'[r] = q /\ \A s \in Req \ {r} : req'[s] = req[s]
  BY DEF Requests, Becomes
<1>2. ASSUME NEW s \in Req  PROVE Fits(req[s])'
  <2>1. Fits(req'[s])
    BY <1>1 DEF Becomes, Requests
  <2>2. req'[s].pc \in Alone => ~(Transactions')
    BY <2>1 DEF Fits, Transactions
  <2> QED  BY <2>1, <2>2 DEF Fits
<1> QED  BY <1>1, <1>2 DEF Requests

LEMMA SameDoes ==
    ASSUME Requests, UNCHANGED <<req, deployment>>
    PROVE  Requests'
BY DEF Requests, Fits, Transactions

LEMMA EndDoes ==
    ASSUME Requests, NEW r \in Req, End(r)
    PROVE  Becomes(r, Idle)
BY IdleFits DEF End, Becomes

\* A request goes on to a step that needs nothing it does not carry.
LEMMA GoDoes ==
    ASSUME Requests, NEW r \in Req, NEW step \in Steps \ {"idle"}, Go(r, step),
           req[r].pc # "idle",
           step \notin {"adminSave"} \cup ReverseSteps => req[r].emp \in Emp,
           step \notin EditSteps, step \in ReverseSteps => req[r].target # "none",
           step \in Alone => ~Transactions
    PROVE  \E q : /\ Becomes(r, q) /\ q.pc = step /\ q.emp = req[r].emp /\ q.task = req[r].task
                  /\ q.seen = req[r].seen /\ q.ver = req[r].ver /\ q.target = req[r].target
<1> DEFINE q == [req[r] EXCEPT !.pc = step]
<1>1. req[r] \in Request /\ Fits(req[r])
  BY DEF Requests
<1>2. /\ q \in Request /\ q.pc = step /\ q.emp = req[r].emp /\ q.task = req[r].task
      /\ q.seen = req[r].seen /\ q.ver = req[r].ver /\ q.target = req[r].target
  BY <1>1 DEF Request
<1>3. Fits(q)
  BY <1>1, <1>2 DEF Fits
<1>4. req' = [req EXCEPT ![r] = q]
  BY DEF Go
<1> QED  BY <1>2, <1>3, <1>4 DEF Becomes

\* The steps that begin a request: which request it becomes.
LEMMA StartBecomes ==
    ASSUME TypeInv, NEW r \in Req, NEW step \in Steps \ {"idle"}, NEW e \in Emp, NEW t \in Task,
           step \notin EditSteps \cup ReverseSteps, step \in Alone => ~Transactions,
           Start(r, step, e, t)
    PROVE  \E q : Becomes(r, q) /\ q.pc = step /\ q.emp = e /\ q.task = t
<1> DEFINE q == [Idle EXCEPT !.pc = step, !.emp = e, !.task = t]
<1>1. q \in Request /\ q.pc = step /\ q.emp = e /\ q.task = t
  BY DEF Idle, Request
<1>2. req' = [req EXCEPT ![r] = q]
  BY DEF Start
<1> HIDE DEF q
<1>3. Fits(q)
  BY <1>1 DEF Fits
<1> QED  BY <1>1, <1>2, <1>3 DEF Becomes

LEMMA ReadBecomes ==
    ASSUME TypeInv, NEW r \in Req, NEW step \in Steps \ {"idle"}, NEW e \in Emp, NEW t \in Task,
           step \notin EditSteps \cup ReverseSteps, step \in Alone => ~Transactions,
           StartRead(r, step, e, t)
    PROVE  \E q : /\ Becomes(r, q) /\ q.pc = step /\ q.emp = e /\ q.task = t
                  /\ q.seen = amount[t] /\ q.ver = version[t]
<1> DEFINE q == [Idle EXCEPT !.pc = step, !.emp = e, !.task = t, !.seen = amount[t],
                             !.ver = version[t]]
<1>1. amount[t] \in Amounts /\ version[t] \in Nat
  BY DEF TypeInv, TypeOK
<1>2. /\ q \in Request /\ q.pc = step /\ q.emp = e /\ q.task = t
      /\ q.seen = amount[t] /\ q.ver = version[t]
  BY <1>1 DEF Idle, Request
<1>3. req' = [req EXCEPT ![r] = q]
  BY DEF StartRead
<1> HIDE DEF q
<1>4. Fits(q)
  BY <1>2 DEF Fits
<1> QED  BY <1>2, <1>3, <1>4 DEF Becomes

\* An employee's edit has read the row.
Edits(r, step, e, t, a) ==
    /\ step \in {"editSave", "appEditSave"} /\ a \in Amounts
    /\ req' = [req EXCEPT ![r] = [Idle EXCEPT !.pc = step, !.emp = e, !.task = t,
                                              !.seen = amount[t], !.want = a]]

LEMMA EditBecomes ==
    ASSUME TypeInv, NEW r \in Req, NEW step, NEW e \in Emp, NEW t \in Task, NEW a,
           step \in Alone => ~Transactions, Edits(r, step, e, t, a)
    PROVE  \E q : Becomes(r, q) /\ q.pc = step /\ q.task = t /\ q.seen = amount[t]
<1> DEFINE q == [Idle EXCEPT !.pc = step, !.emp = e, !.task = t, !.seen = amount[t], !.want = a]
<1>1. /\ amount[t] \in Amounts /\ step \in Steps \ {"idle"} /\ step \notin ReverseSteps
      /\ step # "adminSave" /\ a \in Amounts
  BY DEF TypeInv, TypeOK, Steps, ReverseSteps, Edits
<1>2. /\ q \in Request /\ q.pc = step /\ q.emp = e /\ q.task = t
      /\ q.seen = amount[t] /\ q.want = a
  BY <1>1 DEF Idle, Request
<1>3. req' = [req EXCEPT ![r] = q]
  BY DEF Edits
<1> HIDE DEF q
<1>4. Fits(q)
  BY <1>1, <1>2 DEF Fits
<1> QED  BY <1>2, <1>3, <1>4 DEF Becomes

LEMMA AdminBecomes ==
    ASSUME TypeInv, NEW r \in Req, NEW t \in Task, NEW a \in Amounts, ~Transactions,
           req' = [req EXCEPT ![r] = [Idle EXCEPT !.pc = "adminSave", !.task = t,
                                                  !.seen = amount[t], !.want = a]]
    PROVE  \E q : Becomes(r, q) /\ q.pc = "adminSave" /\ q.task = t /\ q.seen = amount[t]
<1> DEFINE q == [Idle EXCEPT !.pc = "adminSave", !.task = t, !.seen = amount[t], !.want = a]
<1>1. amount[t] \in Amounts
  BY DEF TypeInv, TypeOK
<1>2. q \in Request /\ q.pc = "adminSave" /\ q.task = t /\ q.seen = amount[t] /\ q.want = a
  BY <1>1 DEF Idle, Request, Steps
<1>3. req' = [req EXCEPT ![r] = q]
  OBVIOUS
<1> HIDE DEF q
<1>4. Fits(q)
  BY <1>2 DEF Fits, ReverseSteps
<1> QED  BY <1>2, <1>3, <1>4 DEF Becomes

LEMMA ClaimBecomes ==
    ASSUME TypeInv, NEW r \in Req, NEW e \in Emp \cup {NoEmp}, NEW t \in Task,
           NEW st \in {"rejected", "cancelled"}, ClaimReversal(r, e, t, st)
    PROVE  \E q : Becomes(r, q) /\ q.pc = "reverseRefund" /\ q.task = t
<1> DEFINE q == [Idle EXCEPT !.pc = "reverseRefund", !.emp = e, !.task = t, !.seen = amount[t],
                             !.target = st]
<1>1. amount[t] \in Amounts /\ ~Transactions
  BY DEF TypeInv, TypeOK, ClaimReversal
<1>2. q \in Request /\ q.pc = "reverseRefund" /\ q.task = t /\ q.target = st
  BY <1>1 DEF Idle, Request, Steps
<1>3. req' = [req EXCEPT ![r] = q]
  BY DEF ClaimReversal
<1> HIDE DEF q
<1>4. Fits(q)
  BY <1>1, <1>2 DEF Fits, ReverseSteps, EditSteps
<1> QED  BY <1>2, <1>3, <1>4 DEF Becomes

------------------------------------------------------------------------------
(* What steps do to the rows and the tallies *)

TalliesGrow == TalliesTyped' /\ loose <= loose' /\ late <= late' /\ faults <= faults'

LEMMA TalliesDo ==
    ASSUME TypeInv, NoFault \/ AFault \/ ALoose \/ \E r \in Req : AppAct(r)
    PROVE  /\ TalliesGrow
           /\ ALoose => loose' = loose + 1 /\ late' = late
           /\ NoFault \/ AFault => loose' = loose /\ late' = late
BY DEF TypeInv, TypeOK, NoFault, AFault, ALoose, AppAct, tallies, TalliesGrow, TalliesTyped

\* Of the rows only that of t changes, and what is taken for it.
RowOthers(t) ==
    \A u \in Task \ {t} :
        /\ status'[u] = status[u] /\ owner'[u] = owner[u] /\ amount'[u] = amount[u]
        /\ version'[u] = version[u] /\ proof'[u] = proof[u] /\ recorded'[u] = recorded[u]
        /\ reversing'[u] = reversing[u] /\ held'[u] = held[u]

RowStep(t) == RowsTyped' /\ held' \in [Task -> Int] /\ RowOthers(t)

LEMMA RowsSame ==
    ASSUME TypeInv, UNCHANGED <<rows, held>>
    PROVE  /\ RowsTyped' /\ held' \in [Task -> Int] /\ \A t \in Task : RowOthers(t)
           /\ UNCHANGED <<status, owner, assigned, routed, amount, version, proof, recorded,
                          reversing>>
BY TypeParts DEF rows, RowsTyped, RowOthers

LEMMA ClaimRow ==
    ASSUME TypeInv, NEW r \in Req, AcceptClaim(r)
    PROVE  /\ RowStep(req[r].task) /\ req[r].task \in Task /\ req[r].emp \in Emp
           /\ UNCHANGED <<amount, version, proof, recorded, reversing, held>>
           /\ \/ /\ status[req[r].task] = "open" /\ status'[req[r].task] = "accepted"
                 /\ owner'[req[r].task] = req[r].emp
              \/ UNCHANGED <<status, owner>>
<1>1. req[r].task \in Task /\ req[r].emp \in Emp /\ RowsTyped
  BY TypeParts DEF AcceptClaim, Requests, Fits, ReverseSteps
<1>2. /\ \/ /\ status[req[r].task] = "open"
            /\ status' = [status EXCEPT ![req[r].task] = "accepted"]
            /\ owner' = [owner EXCEPT ![req[r].task] = req[r].emp]
            /\ assigned' = [assigned EXCEPT ![req[r].task] = req[r].emp]
         \/ UNCHANGED <<status, owner, assigned>>
      /\ UNCHANGED <<routed, amount, version, proof, recorded, reversing, held>>
  BY DEF AcceptClaim, Claimable
<1> QED  BY <1>1, <1>2, TypeParts DEF RowStep, RowsTyped, RowOthers, Statuses

LEMMA RouteRow ==
    ASSUME TypeInv, NEW r \in Req, RouteClaim(r)
    PROVE  /\ RowStep(req[r].task) /\ req[r].task \in Task /\ req[r].emp \in Emp
           /\ UNCHANGED <<status, owner, amount, version, proof, recorded, reversing, held>>
<1>1. req[r].task \in Task /\ req[r].emp \in Emp /\ RowsTyped
  BY TypeParts DEF RouteClaim, Requests, Fits, ReverseSteps
<1>2. /\ assigned' \in {assigned, [assigned EXCEPT ![req[r].task] = req[r].emp]}
      /\ UNCHANGED <<status, owner, routed, amount, version, proof, recorded, reversing, held>>
  BY DEF RouteClaim
<1> QED  BY <1>1, <1>2, TypeParts DEF RowStep, RowsTyped, RowOthers

\* A row that a completing save of channel c leaves.
LEMMA CompletedRow ==
    ASSUME TypeInv, NEW t \in Task, NEW c \in {"web", "app"}, NEW b \in BOOLEAN,
           status' = [status EXCEPT ![t] = "completed"],
           version' = [version EXCEPT ![t] = @ + 1], proof' = [proof EXCEPT ![t] = c],
           recorded' = [recorded EXCEPT ![t] = b],
           UNCHANGED <<owner, assigned, routed, amount, reversing, held>>
    PROVE  /\ RowStep(t) /\ status'[t] = "completed" /\ version'[t] = version[t] + 1
           /\ proof'[t] = c /\ recorded'[t] = b
<1>1. /\ status' \in [Task -> Statuses] /\ status'[t] = "completed"
      /\ \A u \in Task \ {t} : status'[u] = status[u]
  BY TypeParts DEF RowsTyped, Statuses
<1>2. /\ version' \in [Task -> Nat] /\ version'[t] = version[t] + 1
      /\ \A u \in Task \ {t} : version'[u] = version[u]
  BY TypeParts DEF RowsTyped
<1>3. /\ proof' \in [Task -> {"none", "web", "app", "deleted"}] /\ proof'[t] = c
      /\ \A u \in Task \ {t} : proof'[u] = proof[u]
  BY TypeParts DEF RowsTyped
<1>4. /\ recorded' \in [Task -> BOOLEAN] /\ recorded'[t] = b
      /\ \A u \in Task \ {t} : recorded'[u] = recorded[u]
  BY TypeParts DEF RowsTyped
<1>5. RowsTyped' /\ held' \in [Task -> Int]
  BY <1>1, <1>2, <1>3, <1>4, TypeParts DEF RowsTyped
<1> QED  BY <1>1, <1>2, <1>3, <1>4, <1>5 DEF RowStep, RowOthers

\* A save that changes only the row's status and what is taken for it.
LEMMA StatusRow ==
    ASSUME TypeInv, NEW t \in Task, NEW st \in Statuses, NEW h \in Int,
           status' = [status EXCEPT ![t] = st], held' = [held EXCEPT ![t] = h],
           UNCHANGED <<owner, assigned, routed, amount, version, proof, recorded, reversing>>
    PROVE  RowStep(t) /\ status'[t] = st /\ held'[t] = h
BY TypeParts DEF RowStep, RowsTyped, RowOthers

\* One that changes only the amount and what is taken for it.
LEMMA AmountRow ==
    ASSUME TypeInv, NEW t \in Task, NEW a \in Amounts, NEW h \in Int,
           amount' = [amount EXCEPT ![t] = a], held' = [held EXCEPT ![t] = h],
           UNCHANGED <<status, owner, assigned, routed, version, proof, recorded, reversing>>
    PROVE  RowStep(t) /\ amount'[t] = a /\ held'[t] = h
BY TypeParts DEF RowStep, RowsTyped, RowOthers

LEMMA GiveBackRow ==
    ASSUME TypeInv, NEW t \in Task, GiveBack(t), UNCHANGED held
    PROVE  /\ RowStep(t) /\ status'[t] = "open" /\ owner'[t] = NoEmp
           /\ UNCHANGED <<amount, version, proof, recorded, reversing, held>>
<1>1. /\ status' \in [Task -> Statuses] /\ status'[t] = "open"
      /\ \A u \in Task \ {t} : status'[u] = status[u]
  BY TypeParts DEF GiveBack, RowsTyped, Statuses
<1>2. /\ owner' \in [Task -> Emp \cup {NoEmp}] /\ owner'[t] = NoEmp
      /\ \A u \in Task \ {t} : owner'[u] = owner[u]
  BY TypeParts DEF GiveBack, RowsTyped
<1>3. assigned' \in [Task -> Emp \cup {NoEmp}] /\ routed' \in [Task -> BOOLEAN]
  BY TypeParts DEF GiveBack, RowsTyped
<1>4. UNCHANGED <<amount, version, proof, recorded, reversing, held>>
  BY DEF GiveBack
<1>5. RowsTyped' /\ held' \in [Task -> Int]
  BY <1>1, <1>2, <1>3, <1>4, TypeParts DEF RowsTyped
<1> QED  BY <1>1, <1>2, <1>4, <1>5 DEF RowStep, RowOthers

\* Amounts and what is taken are numbers.
LEMMA Costs ==
    ASSUME TypeInv, NEW t \in Task
    PROVE  /\ amount[t] \in Amounts /\ amount[t] \in Nat /\ held[t] \in Int
           /\ \A a \in Amounts : a \in Nat
BY AmountsAssumption, TypeParts DEF RowsTyped

------------------------------------------------------------------------------
(* The ways in which a row can change *)

\* The step respects that the row is accepted, or is late.
OnTime(t) == status[t] = "accepted" \/ late' = late + 1

Claimed(t) ==
    /\ status[t] = "open" /\ status'[t] = "accepted"
    /\ \E r \in Req : AcceptClaim(r) /\ req[r].task = t /\ owner'[t] = req[r].emp
    /\ version'[t] = version[t] /\ proof'[t] = proof[t] /\ recorded'[t] = recorded[t]
    /\ amount'[t] = amount[t] /\ held'[t] = held[t]

Completed(t) ==
    /\ OnTime(t) /\ status'[t] = "completed"
    /\ version'[t] = version[t] + 1 /\ proof'[t] \in {"web", "app"}
    /\ Transactions /\ proof'[t] = "web" => recorded'[t]
    /\ amount'[t] = amount[t] /\ held'[t] = held[t]

GivenBack(t) ==
    /\ OnTime(t) /\ status'[t] = "open" /\ owner'[t] = NoEmp
    /\ version'[t] = version[t] /\ proof'[t] = proof[t] /\ recorded'[t] = recorded[t]
    /\ amount'[t] = amount[t] /\ held'[t] = held[t]

Closed(t) ==
    /\ status'[t] \in {"rejected", "cancelled"}
    /\ Transactions => status[t] \in Reversible /\ held'[t] = held[t] - amount[t]
    /\ version'[t] = version[t] /\ proof'[t] = proof[t] /\ recorded'[t] = recorded[t]
    /\ amount'[t] = amount[t]

Kept(t) ==
    /\ status'[t] = status[t] /\ owner'[t] = owner[t] /\ version'[t] = version[t]
    /\ Transactions =>
          /\ proof'[t] = proof[t] /\ recorded'[t] = recorded[t]
          /\ \/ amount'[t] = amount[t] /\ held'[t] = held[t]
             \/ late' = late + 1
             \/ status[t] \in Reversible /\ held'[t] - amount'[t] = held[t] - amount[t]

RowMove(t) == Claimed(t) \/ Completed(t) \/ GivenBack(t) \/ Closed(t) \/ Kept(t)

Sound == TypeInv' /\ UNCHANGED deployment /\ TalliesGrow /\ \A t \in Task : RowMove(t)

LEMMA OtherRows ==
    ASSUME TypeInv, NEW t \in Task, RowStep(t), RowMove(t)
    PROVE  \A u \in Task : RowMove(u)
BY DEF RowStep, RowOthers, RowMove, Kept

\* The parts of a sound step.
LEMMA SoundStep ==
    ASSUME TypeInv, UNCHANGED deployment, LockTypeOK', TalliesGrow, Requests',
           NEW t \in Task, RowStep(t), RowMove(t)
    PROVE  Sound
<1>1. TypeInv'
  BY TypeParts DEF RowStep, TalliesGrow
<1> QED  BY <1>1, OtherRows DEF Sound

LEMMA SoundQuiet ==
    ASSUME TypeInv, UNCHANGED <<deployment, rows, held>>, LockTypeOK', TalliesGrow, Requests'
    PROVE  Sound
<1>1. RowsTyped' /\ held' \in [Task -> Int]
      /\ UNCHANGED <<status, owner, assigned, routed, amount, version, proof, recorded, reversing>>
  BY RowsSame
<1>2. TypeInv'
  BY <1>1, TypeParts DEF TalliesGrow
<1>3. \A t \in Task : RowMove(t)
  BY <1>1 DEF RowMove, Kept
<1> QED  BY <1>2, <1>3 DEF Sound

LEMMA LocksSame ==
    ASSUME TypeInv, UNCHANGED <<deployment, locks>>
    PROVE  LockTypeOK'
BY DEF TypeInv, TypeOK, LockTypeOK, locks

LEMMA ReqKnown ==
    ASSUME TypeInv, NEW r \in Req
    PROVE  /\ req[r] \in Request /\ Fits(req[r]) /\ Requests /\ LockTypeOK
           /\ req[r].pc \in Steps /\ req[r].task \in Task \cup {NoTask}
           /\ req[r].pc # "idle" => req[r].task \in Task
           /\ req[r].pc \in EmpSteps \cup TaskSteps => req[r].emp \in Emp /\ KeyOf(r) \in Key
           /\ KeyOf(r) = IF req[r].pc \in TaskSteps THEN req[r].task ELSE req[r].emp
<1>1. req[r] \in Request /\ Fits(req[r]) /\ Requests /\ LockTypeOK
  BY TypeParts DEF Requests
<1>2. /\ req[r].pc \in Steps /\ req[r].task \in Task \cup {NoTask}
      /\ req[r].pc # "idle" => req[r].task \in Task
      /\ req[r].pc \in EmpSteps \cup TaskSteps => req[r].emp \in Emp
  BY <1>1 DEF Request, Fits, EmpSteps, TaskSteps, ReverseSteps
<1>3. KeyOf(r) = IF req[r].pc \in TaskSteps THEN req[r].task ELSE req[r].emp
  BY DEF KeyOf, TaskSteps
<1>4. req[r].pc \in EmpSteps \cup TaskSteps => KeyOf(r) \in Key
  BY <1>2, <1>3, KeyAssumption DEF TaskSteps
<1> QED  BY <1>1, <1>2, <1>3, <1>4

------------------------------------------------------------------------------
(* The actions, one by one *)

\* Of the requests only r's changes; it keeps its employee and its task.
Alters(r) == \A s \in Req \ {r} : req'[s] = req[s]
Keeping(r) == req'[r].emp = req[r].emp /\ req'[r].task = req[r].task

LEMMA GoAlters ==
    ASSUME TypeInv, NEW r \in Req, NEW step \in Steps \ {"idle"}, Go(r, step),
           UNCHANGED deployment, req[r].pc # "idle",
           step \notin {"adminSave"} \cup ReverseSteps => req[r].emp \in Emp,
           step \notin EditSteps, step \in ReverseSteps => req[r].target # "none",
           step \in Alone => ~Transactions
    PROVE  Requests' /\ Alters(r) /\ Keeping(r) /\ req'[r].pc = step
<1>1. PICK q : /\ Becomes(r, q) /\ q.pc = step /\ q.emp = req[r].emp /\ q.task = req[r].task
  BY GoDoes, ReqKnown
<1> QED  BY <1>1, BecomesDoes, ReqKnown DEF Alters, Keeping

LEMMA EndAlters ==
    ASSUME TypeInv, NEW r \in Req, End(r), UNCHANGED deployment
    PROVE  Requests' /\ Alters(r) /\ req'[r].pc = "idle"
BY EndDoes, BecomesDoes, ReqKnown, IdleFits DEF Alters

LEMMA StartLockedSound ==
    ASSUME TypeInv, NEW r \in Req, NEW k \in Key, NEW e \in Emp, NEW t \in Task,
           NEW step \in {"acceptCheck", "routeCheck", "completeRead"},
           StartLocked(r, k, step, e, t)
    PROVE  /\ Sound /\ Alters(r) /\ Gripped(r, k) /\ UNCHANGED <<rows, held, late>>
           /\ req[r].pc = "idle" /\ req'[r].pc = step /\ req'[r].emp = e /\ req'[r].task = t
           /\ Acquire(r, k) \/ (FallThrough(r, k) /\ loose' = loose + 1)
<1>1. /\ req[r].pc = "idle" /\ UNCHANGED <<deployment, rows, held>> /\ Start(r, step, e, t)
      /\ \/ Acquire(r, k) /\ NoFault
         \/ FallThrough(r, k) /\ ALoose
  BY DEF StartLocked, Start
<1>2. step \in Steps \ {"idle"} /\ step \notin EditSteps \cup ReverseSteps /\ step \notin Alone
  BY DEF Steps, EditSteps, ReverseSteps, Alone
<1>3. PICK q : Becomes(r, q) /\ q.pc = step /\ q.emp = e /\ q.task = t
  BY <1>1, <1>2, StartBecomes
<1>4. Requests' /\ req'[r] = q /\ Alters(r)
  BY <1>1, <1>3, BecomesDoes, ReqKnown DEF Alters
<1>5. /\ TalliesGrow /\ late' = late
      /\ Acquire(r, k) \/ (FallThrough(r, k) /\ loose' = loose + 1)
  BY <1>1, TalliesDo
<1>6. Gripped(r, k) /\ LockTypeOK'
  BY <1>1, ReqKnown, AcquireDoes DEF Gripped
<1> QED  BY <1>1, <1>3, <1>4, <1>5, <1>6, SoundQuiet

\* The checks between a lock and an update.
LEMMA ChecksSound ==
    ASSUME TypeInv, NEW r \in Req, AcceptCheck(r) \/ RouteCheck(r) \/ CompleteRead(r)
    PROVE  /\ Sound /\ Alters(r) /\ Keeping(r) /\ UNCHANGED <<rows, held, locks, tallies>>
           /\ \/ /\ AcceptCheck(r) /\ req[r].pc = "acceptCheck"
                 /\ req'[r].pc \in {"unlockEmp", "acceptClaim"}
                 /\ req'[r].pc = "acceptClaim" => ~Busy(req[r].emp)
              \/ /\ RouteCheck(r) /\ req[r].pc = "routeCheck"
                 /\ req'[r].pc \in {"unlockEmp", "routeClaim"}
              \/ /\ CompleteRead(r) /\ req[r].pc = "completeRead"
                 /\ req'[r].pc \in {"unlockTask", "completeSave"}
<1>1. UNCHANGED <<deployment, locks, rows, held, tallies>>
  BY DEF AcceptCheck, RouteCheck, CompleteRead
<1>2. LockTypeOK' /\ TalliesGrow
  BY <1>1, LocksSame, TalliesDo DEF NoFault
<1>3. ASSUME Requests'  PROVE Sound
  BY <1>1, <1>2, <1>3, SoundQuiet
<1>4. CASE AcceptCheck(r)
  <2>1. PICK step \in {"unlockEmp", "acceptClaim"} :
            Go(r, step) /\ (step = "acceptClaim" => ~Busy(req[r].emp))
    BY <1>4 DEF AcceptCheck
  <2>2. req[r].pc = "acceptCheck" /\ req[r].emp \in Emp /\ step \in Steps \ {"idle"}
        /\ step \notin EditSteps \cup ReverseSteps \cup Alone
    BY <1>4, ReqKnown DEF AcceptCheck, EmpSteps, Steps, EditSteps, ReverseSteps, Alone
  <2>3. Requests' /\ Alters(r) /\ Keeping(r) /\ req'[r].pc = step
    BY <1>1, <2>1, <2>2, GoAlters
  <2> QED  BY <1>1, <1>3, <1>4, <2>1, <2>2, <2>3
<1>5. CASE RouteCheck(r)
  <2>1. PICK step \in {"unlockEmp", "routeClaim"} : Go(r, step)
    BY <1>5 DEF RouteCheck
  <2>2. req[r].pc = "routeCheck" /\ req[r].emp \in Emp /\ step \in Steps \ {"idle"}
        /\ step \notin EditSteps \cup ReverseSteps \cup Alone
    BY <1>5, ReqKnown DEF RouteCheck, EmpSteps, Steps, EditSteps, ReverseSteps, Alone
  <2>3. Requests' /\ Alters(r) /\ Keeping(r) /\ req'[r].pc = step
    BY <1>1, <2>1, <2>2, GoAlters
  <2> QED  BY <1>1, <1>3, <1>5, <2>1, <2>2, <2>3
<1>6. CASE CompleteRead(r)
  <2> DEFINE q == [req[r] EXCEPT !.pc = "completeSave", !.seen = amount[req[r].task],
                                 !.ver = version[req[r].task]]
  <2>1. req[r].pc = "completeRead" /\ req[r].emp \in Emp /\ req[r] \in Request
        /\ req[r].task \in Task
    BY <1>6, ReqKnown DEF CompleteRead, TaskSteps
  <2>2. CASE Go(r, "unlockTask")
    <3>1. Requests' /\ Alters(r) /\ Keeping(r) /\ req'[r].pc = "unlockTask"
      BY <1>1, <2>1, <2>2, GoAlters DEF Steps, EditSteps, ReverseSteps, Alone
    <3> QED  BY <1>1, <1>3, <1>6, <2>1, <3>1
  <2>3. CASE req' = [req EXCEPT ![r] = q]
    <3>1. amount[req[r].task] \in Amounts /\ version[req[r].task] \in Nat
      BY <2>1, TypeParts DEF RowsTyped
    <3>2. q \in Request /\ q.pc = "completeSave" /\ q.emp = req[r].emp /\ q.task = req[r].task
      BY <2>1, <3>1 DEF Request, Steps
    <3> HIDE DEF q
    <3>3. Fits(q)
      BY <2>1, <3>2 DEF Fits, EditSteps, ReverseSteps, Alone
    <3>4. Requests' /\ req'[r] = q /\ Alters(r)
      BY <1>1, <2>3, <3>2, <3>3, BecomesDoes, ReqKnown DEF Becomes, Alters
    <3> QED  BY <1>1, <1>3, <1>6, <2>1, <3>2, <3>4 DEF Keeping
  <2> QED  BY <1>6, <2>2, <2>3 DEF CompleteRead, Go
<1> QED  BY <1>4, <1>5, <1>6

LEMMA ClaimsSound ==
    ASSUME TypeInv, NEW r \in Req, AcceptClaim(r) \/ RouteClaim(r)
    PROVE  /\ Sound /\ Alters(r) /\ Keeping(r) /\ UNCHANGED <<reversing, locks, tallies>>
           /\ req[r].pc \in {"acceptClaim", "routeClaim"} /\ req'[r].pc = "unlockEmp"
           /\ RouteClaim(r) => UNCHANGED <<status, owner>>
<1>1. /\ UNCHANGED <<deployment, locks, tallies, reversing>> /\ Go(r, "unlockEmp")
      /\ req[r].pc \in {"acceptClaim", "routeClaim"}
      /\ RouteClaim(r) => UNCHANGED <<status, owner>>
  BY DEF AcceptClaim, RouteClaim
<1>2. LockTypeOK' /\ TalliesGrow
  BY <1>1, LocksSame, TalliesDo DEF NoFault
<1>3. Requests' /\ Alters(r) /\ Keeping(r) /\ req'[r].pc = "unlockEmp"
  BY <1>1, ReqKnown, GoAlters DEF EmpSteps, Steps, EditSteps, ReverseSteps, Alone
<1> DEFINE t == req[r].task
<1>4. CASE AcceptClaim(r)
  <2>1. /\ RowStep(t) /\ t \in Task
        /\ UNCHANGED <<amount, version, proof, recorded, reversing, held>>
        /\ \/ status[t] = "open" /\ status'[t] = "accepted" /\ owner'[t] = req[r].emp
           \/ UNCHANGED <<status, owner>>
    BY <1>4, ClaimRow
  <2>2. RowMove(t)
    BY <1>4, <2>1 DEF RowMove, Claimed, Kept
  <2> QED  BY <1>1, <1>2, <1>3, <2>1, <2>2, SoundStep
<1>5. CASE RouteClaim(r)
  <2>1. /\ RowStep(t) /\ t \in Task
        /\ UNCHANGED <<status, owner, amount, version, proof, recorded, reversing, held>>
    BY <1>5, RouteRow
  <2>2. RowMove(t)
    BY <2>1 DEF RowMove, Kept
  <2> QED  BY <1>1, <1>2, <1>3, <2>1, <2>2, SoundStep
<1> QED  BY <1>4, <1>5

LEMMA UnlockSound ==
    ASSUME TypeInv, NEW r \in Req, Unlock(r)
    PROVE  /\ Sound /\ Alters(r) /\ UNCHANGED <<rows, held, late, loose>>
           /\ req[r].pc \in {"unlockEmp", "unlockTask"} /\ req'[r].pc = "idle"
           /\ Release(r, KeyOf(r)) \/ ReleaseFails(r, KeyOf(r))
<1>1. /\ UNCHANGED <<deployment, rows, held>> /\ End(r)
      /\ req[r].pc \in {"unlockEmp", "unlockTask"}
      /\ \/ Release(r, KeyOf(r)) /\ NoFault
         \/ ReleaseFails(r, KeyOf(r)) /\ AFault
  BY DEF Unlock
<1>2. KeyOf(r) \in Key /\ LockTypeOK
  BY <1>1, ReqKnown DEF EmpSteps, TaskSteps
<1>3. LockTypeOK'
  BY <1>1, <1>2, ReleaseDoes DEF LetGo
<1>4. TalliesGrow /\ late' = late /\ loose' = loose
  BY <1>1, TalliesDo
<1>5. Requests' /\ Alters(r) /\ req'[r].pc = "idle"
  BY <1>1, EndAlters
<1> QED  BY <1>1, <1>3, <1>4, <1>5, SoundQuiet

\* The saves of a completion on the web portal.
LEMMA WebCompletesSound ==
    ASSUME TypeInv, NEW r \in Req, CompleteSave(r) \/ CommitUncertain(r) \/ CompleteSync(r)
    PROVE  /\ Sound /\ Alters(r) /\ Keeping(r) /\ UNCHANGED <<reversing, locks, loose, late>>
           /\ req[r].pc \in {"completeSave", "completeSync"}
           /\ req'[r].pc \in {"completeSync", "unlockTask"}
<1> DEFINE t == req[r].task
<1>1. /\ req[r].pc \in {"completeSave", "completeSync"} /\ UNCHANGED <<deployment, locks, held>>
      /\ NoFault \/ AFault
  BY DEF CompleteSave, CommitUncertain, CompleteSync
<1>2. LockTypeOK' /\ TalliesGrow /\ loose' = loose /\ late' = late
  BY <1>1, LocksSame, TalliesDo
<1>3. t \in Task /\ req[r].emp \in Emp
  BY <1>1, ReqKnown DEF TaskSteps
<1>4. ASSUME NEW step \in {"completeSync", "unlockTask"}, Go(r, step),
             step = "completeSync" => ~Transactions
      PROVE  Requests' /\ Alters(r) /\ Keeping(r) /\ req'[r].pc = step
  BY <1>1, <1>3, <1>4, GoAlters DEF Steps, EditSteps, ReverseSteps, Alone
<1>5. ASSUME NEW b \in BOOLEAN, recorded' = [recorded EXCEPT ![t] = b], Transactions => b,
             SaveMatches(r), status' = [status EXCEPT ![t] = "completed"],
             version' = [version EXCEPT ![t] = @ + 1], proof' = [proof EXCEPT ![t] = "web"],
             UNCHANGED <<owner, assigned, routed, amount, reversing>>, Requests'
      PROVE  Sound
  <2>1. /\ RowStep(t) /\ status'[t] = "completed" /\ version'[t] = version[t] + 1
        /\ proof'[t] = "web" /\ recorded'[t] = b
    BY <1>1, <1>3, <1>5, CompletedRow
  <2>2. OnTime(t) /\ amount'[t] = amount[t] /\ held'[t] = held[t]
    BY <1>1, <1>5 DEF SaveMatches, Mine, OnTime
  <2>3. RowMove(t)
    BY <1>5, <2>1, <2>2 DEF RowMove, Completed
  <2> QED  BY <1>1, <1>2, <1>3, <1>5, <2>1, <2>3, SoundStep
<1>6. CASE CompleteSave(r)
  <2>1. CASE UNCHANGED rows /\ Go(r, "unlockTask")
    <3>1. Requests' /\ Alters(r) /\ Keeping(r) /\ req'[r].pc = "unlockTask"
      BY <1>4, <2>1
    <3> QED  BY <1>1, <1>2, <2>1, <3>1, SoundQuiet, RowsSame
  <2>2. CASE SaveMatches(r) /\ SaveCompleted(t, "web") /\ Transactions
             /\ recorded' = [recorded EXCEPT ![t] = TRUE] /\ Go(r, "unlockTask")
    <3>1. Requests' /\ Alters(r) /\ Keeping(r) /\ req'[r].pc = "unlockTask"
      BY <1>4, <2>2
    <3>2. Sound
      BY <1>5, <2>2, <3>1 DEF SaveCompleted
    <3> QED  BY <1>1, <1>2, <2>2, <3>1, <3>2 DEF SaveCompleted
  <2>3. CASE SaveMatches(r) /\ SaveCompleted(t, "web") /\ ~Transactions
             /\ UNCHANGED recorded /\ Go(r, "completeSync")
    <3>1. Requests' /\ Alters(r) /\ Keeping(r) /\ req'[r].pc = "completeSync"
      BY <1>4, <2>3
    <3>2. recorded' = [recorded EXCEPT ![t] = recorded[t]] /\ recorded[t] \in BOOLEAN
      BY <1>3, <2>3, TypeParts DEF RowsTyped
    <3>3. Sound
      BY <1>5, <2>3, <3>1, <3>2 DEF SaveCompleted
    <3> QED  BY <1>1, <1>2, <2>3, <3>1, <3>3 DEF SaveCompleted
  <2> QED  BY <1>6, <2>1, <2>2, <2>3 DEF CompleteSave
<1>7. CASE CommitUncertain(r)
  <2>1. Requests' /\ Alters(r) /\ Keeping(r) /\ req'[r].pc = "unlockTask"
    BY <1>4, <1>7 DEF CommitUncertain
  <2>2. Sound
    BY <1>5, <1>7, <2>1 DEF CommitUncertain, KeepProofs
  <2> QED  BY <1>1, <1>2, <1>7, <2>1, <2>2 DEF CommitUncertain
<1>8. CASE CompleteSync(r)
  <2>1. Go(r, "unlockTask") /\ req[r].pc = "completeSync"
        /\ UNCHANGED <<status, owner, assigned, routed, amount, version, reversing, held>>
        /\ recorded' \in {recorded, [recorded EXCEPT ![t] = TRUE]}
        /\ proof' \in {proof, [proof EXCEPT ![t] = "deleted"]}
    BY <1>8 DEF CompleteSync
  <2>2. Requests' /\ Alters(r) /\ Keeping(r) /\ req'[r].pc = "unlockTask"
    BY <1>4, <2>1
  <2>3. RowStep(t)
    BY <1>3, <2>1, TypeParts DEF RowStep, RowOthers, RowsTyped
  <2>4. ~Transactions
    BY <2>1, ReqKnown DEF Fits, Alone
  <2>5. RowMove(t)
    BY <2>1, <2>4 DEF RowMove, Kept
  <2> QED  BY <1>1, <1>2, <1>3, <2>1, <2>2, <2>3, <2>5, SoundStep
<1> QED  BY <1>6, <1>7, <1>8

------------------------------------------------------------------------------
(* The actions that use no lock *)

Plain(r) ==
    /\ UNCHANGED locks /\ Alters(r)
    /\ req[r].pc \notin EmpSteps \cup TaskSteps /\ req'[r].pc \notin EmpSteps \cup TaskSteps

\* Nor do they begin, carry out or end a reversal.
Calm(r) == Plain(r) /\ UNCHANGED reversing /\ req'[r].pc \notin ReverseSteps

\* The difference is paid, and then the row saved, by an employee or an administrator.
LEMMA RepriceSound ==
    ASSUME TypeInv, NEW r \in Req, NEW t \in Task, NEW a \in Amounts, NEW e,
           (e \in Emp /\ Edit(r, e, t, a)) \/ AdminEdit(r, t, a)
    PROVE  Sound /\ Calm(r)
<1> DEFINE h == held[t] + a - amount[t]
           step == IF Edit(r, e, t, a) THEN "editSave" ELSE "adminSave"
<1>1. /\ req[r].pc = "idle" /\ held' = [held EXCEPT ![t] = h]
      /\ UNCHANGED <<deployment, locks, status, owner, assigned, routed, version, proof,
                     recorded, reversing, tallies>>
      /\ status[t] \in Reversible
  BY DEF Edit, AdminEdit, Reprice, Mine, Reversible
<1>2. LockTypeOK' /\ TalliesGrow
  BY <1>1, LocksSame, TalliesDo DEF NoFault
<1>3. amount[t] \in Amounts /\ held[t] \in Int /\ amount[t] \in Int /\ a \in Int /\ h \in Int
  BY Costs
<1>4. CASE Transactions
  <2>1. amount' = [amount EXCEPT ![t] = a] /\ UNCHANGED req
    BY <1>4 DEF Edit, AdminEdit
  <2>2. RowStep(t) /\ amount'[t] = a /\ held'[t] = h
    BY <1>1, <1>3, <2>1, AmountRow
  <2>3. RowMove(t)
    <3>1. held'[t] - amount'[t] = held[t] - amount[t]
      BY <1>3, <2>2
    <3> QED  BY <1>1, <3>1 DEF RowMove, Kept
  <2>4. Requests' /\ Calm(r)
    BY <1>1, <2>1, SameDoes, ReqKnown DEF Calm, Plain, Alters, EmpSteps, TaskSteps, ReverseSteps
  <2> QED  BY <1>1, <1>2, <2>2, <2>3, <2>4, SoundStep
<1>5. CASE ~Transactions
  <2>1. UNCHANGED amount
    BY <1>5 DEF Edit, AdminEdit
  <2>2. PICK q : Becomes(r, q) /\ q.pc \in EditSteps
    <3>1. CASE e \in Emp /\ Edit(r, e, t, a)
      <4>1. Edits(r, "editSave", e, t, a)
        BY <1>5, <3>1 DEF Edit, Edits
      <4>2. PICK q : Becomes(r, q) /\ q.pc = "editSave"
        BY <1>5, <3>1, <4>1, EditBecomes
      <4> QED  BY <4>2 DEF EditSteps
    <3>2. CASE AdminEdit(r, t, a)
      <4>1. req' = [req EXCEPT ![r] = [Idle EXCEPT !.pc = "adminSave",
                           !.task = t, !.seen = amount[t], !.want = a]]
        BY <1>5, <3>2 DEF AdminEdit
      <4>2. PICK q : Becomes(r, q) /\ q.pc = "adminSave"
        BY <1>5, <4>1, AdminBecomes
      <4> QED  BY <4>2 DEF EditSteps
    <3> QED  BY <3>1, <3>2
  <2>3. Requests' /\ Calm(r)
    BY <1>1, <2>2, BecomesDoes, ReqKnown
    DEF Calm, Plain, Alters, EmpSteps, TaskSteps, ReverseSteps, EditSteps
  <2>4. amount' = [amount EXCEPT ![t] = amount[t]]
    BY <2>1, TypeParts DEF RowsTyped
  <2>5. RowStep(t)
    BY <1>1, <1>3, <2>4, AmountRow
  <2>6. RowMove(t)
    BY <1>1, <1>5 DEF RowMove, Kept
  <2> QED  BY <1>1, <1>2, <2>3, <2>5, <2>6, SoundStep
<1> QED  BY <1>4, <1>5

\* The save that follows the payment where there is no MongoDB transaction.
LEMMA EditSaveSound ==
    ASSUME TypeInv, NEW r \in Req, EditSave(r) \/ AdminSave(r)
    PROVE  Sound /\ Calm(r)
<1> DEFINE t == req[r].task
<1>1. /\ req[r].pc \in {"editSave", "adminSave"} /\ End(r)
      /\ amount' \in {amount, [amount EXCEPT ![t] = req[r].want]} /\ (NoFault \/ AFault)
      /\ UNCHANGED <<deployment, locks, status, owner, assigned, routed, version, proof,
                     recorded, reversing, held>>
  BY DEF EditSave, AdminSave
<1>2. LockTypeOK' /\ TalliesGrow
  BY <1>1, LocksSame, TalliesDo
<1>3. t \in Task /\ req[r].want \in Amounts /\ ~Transactions
  BY <1>1, ReqKnown DEF Fits, EditSteps, Alone
<1>4. Requests' /\ Calm(r)
  BY <1>1, EndAlters DEF Calm, Plain, EmpSteps, TaskSteps, ReverseSteps
<1>5. RowStep(t) /\ RowMove(t)
  <2>1. amount' \in [Task -> Amounts] /\ \A u \in Task \ {t} : amount'[u] = amount[u]
    BY <1>1, <1>3, TypeParts DEF RowsTyped
  <2> QED  BY <1>1, <1>3, <2>1, TypeParts DEF RowStep, RowOthers, RowsTyped, RowMove, Kept
<1> QED  BY <1>1, <1>2, <1>3, <1>4, <1>5, SoundStep

LEMMA CancelSound ==
    ASSUME TypeInv, NEW r \in Req, NEW e \in Emp, NEW t \in Task, Cancel(r, e, t)
    PROVE  Sound /\ Calm(r)
<1> DEFINE h == IF Transactions THEN held[t] - amount[t] ELSE held[t]
<1>1. /\ req[r].pc = "idle" /\ status[t] = "accepted"
      /\ status' = [status EXCEPT ![t] = "rejected"]
      /\ UNCHANGED <<deployment, locks, owner, assigned, routed, amount, version, proof,
                     recorded, reversing, tallies>>
  BY DEF Cancel, Mine
<1>2. LockTypeOK' /\ TalliesGrow
  BY <1>1, LocksSame, TalliesDo DEF NoFault
<1>3. h \in Int /\ "rejected" \in Statuses /\ held \in [Task -> Int]
  BY Costs, TypeParts DEF Statuses
<1>4. held' = [held EXCEPT ![t] = h]
  BY <1>3 DEF Cancel
<1>5. RowStep(t) /\ status'[t] = "rejected" /\ held'[t] = h
  BY <1>1, <1>3, <1>4, StatusRow
<1>6. RowMove(t)
  BY <1>1, <1>5 DEF RowMove, Closed, Reversible
<1>7. Requests' /\ Calm(r)
  <2>1. CASE Transactions
    <3>1. UNCHANGED req
      BY <2>1 DEF Cancel
    <3> QED  BY <1>1, <3>1, SameDoes, ReqKnown
             DEF Calm, Plain, Alters, EmpSteps, TaskSteps, ReverseSteps
  <2>2. CASE ~Transactions
    <3>1. StartRead(r, "refund", e, t)
      BY <2>2 DEF Cancel
    <3>2. PICK q : Becomes(r, q) /\ q.pc = "refund"
      BY <2>2, <3>1, ReadBecomes DEF Steps, EditSteps, ReverseSteps
    <3> QED  BY <1>1, <3>2, BecomesDoes, ReqKnown
             DEF Calm, Plain, Alters, EmpSteps, TaskSteps, ReverseSteps
  <2> QED  BY <2>1, <2>2
<1> QED  BY <1>1, <1>2, <1>5, <1>6, <1>7, SoundStep

LEMMA CancelRefundSound ==
    ASSUME TypeInv, NEW r \in Req, CancelRefund(r)
    PROVE  Sound /\ Calm(r)
<1> DEFINE t == req[r].task
<1>1. /\ req[r].pc = "refund" /\ End(r) /\ (NoFault \/ AFault)
      /\ held' \in {held, [held EXCEPT ![t] = held[t] - req[r].seen]}
      /\ UNCHANGED <<deployment, locks, status, owner, assigned, routed, amount, version, proof,
                     recorded, reversing>>
  BY DEF CancelRefund, rows
<1>2. LockTypeOK' /\ TalliesGrow
  BY <1>1, LocksSame, TalliesDo
<1>3. t \in Task /\ req[r].seen \in Int /\ ~Transactions
  <2>1. req[r] \in Request /\ Fits(req[r]) /\ t \in Task
    BY <1>1, ReqKnown
  <2>2. req[r].seen \in Int
    <3>1. req[r].seen \in Amounts \cup {0}
      BY <2>1 DEF Request
    <3>2. \A a \in Amounts \cup {0} : a \in Int
      BY AmountsAssumption
    <3> QED  BY <3>1, <3>2
  <2> QED  BY <1>1, <2>1, <2>2 DEF Fits, Alone
<1>4. Requests' /\ Calm(r)
  BY <1>1, EndAlters DEF Calm, Plain, EmpSteps, TaskSteps, ReverseSteps
<1>5. RowStep(t) /\ RowMove(t)
  BY <1>1, <1>3, TypeParts DEF RowStep, RowOthers, RowsTyped, RowMove, Kept
<1> QED  BY <1>1, <1>2, <1>3, <1>4, <1>5, SoundStep

\* A return, and the administrator's routing of what was returned.
LEMMA ReturnSound ==
    ASSUME TypeInv, NEW e, NEW t \in Task, Return(e, t) \/ AdminRoute(t)
    PROVE  Sound /\ UNCHANGED <<locks, req, reversing>>
<1>1. UNCHANGED <<deployment, locks, req, tallies, held>> /\ Requests
  BY TypeParts DEF Return, AdminRoute
<1>2. LockTypeOK' /\ TalliesGrow /\ Requests'
  BY <1>1, LocksSame, TalliesDo, SameDoes DEF NoFault
<1>3. CASE Return(e, t)
  <2>1. GiveBack(t) /\ status[t] = "accepted"
    BY <1>3 DEF Return, Mine
  <2>2. /\ RowStep(t) /\ status'[t] = "open" /\ owner'[t] = NoEmp
        /\ UNCHANGED <<amount, version, proof, recorded, reversing, held>>
    BY <1>1, <2>1, GiveBackRow
  <2>3. RowMove(t)
    BY <2>1, <2>2 DEF RowMove, GivenBack, OnTime
  <2> QED  BY <1>1, <1>2, <2>2, <2>3, SoundStep
<1>4. CASE AdminRoute(t)
  <2>1. /\ routed' = [routed EXCEPT ![t] = TRUE]
        /\ UNCHANGED <<status, owner, assigned, amount, version, proof, recorded, reversing, held>>
    BY <1>4 DEF AdminRoute
  <2>2. RowStep(t) /\ RowMove(t)
    BY <2>1, TypeParts DEF RowStep, RowOthers, RowsTyped, RowMove, Kept
  <2> QED  BY <1>1, <1>2, <2>1, <2>2, SoundStep
<1> QED  BY <1>3, <1>4

\* The application's reads.
LEMMA AppReadsSound ==
    ASSUME TypeInv, NEW r \in Req, NEW e \in Emp, NEW t \in Task, NEW a \in Amounts,
           \/ AppComplete(r, e, t) \/ AppReturn(r, e, t) \/ AppCancel(r, e, t)
           \/ AppEdit(r, e, t, a)
    PROVE  Sound /\ Calm(r) /\ UNCHANGED <<rows, held, late>>
<1>1. UNCHANGED <<deployment, locks, rows, held, tallies>> /\ req[r].pc = "idle"
  BY DEF AppComplete, AppReturn, AppCancel, AppReads, AppEdit, StartRead
<1>2. LockTypeOK' /\ TalliesGrow
  BY <1>1, LocksSame, TalliesDo DEF NoFault
<1>3. PICK q : Becomes(r, q) /\ q.pc \in {"appCompleteSave", "appReturnSave", "appReverse",
                                          "appEditSave"}
  <2>1. ASSUME NEW step \in {"appCompleteSave", "appReturnSave", "appReverse"},
               AppReads(r, step, e, t)
        PROVE  \E q : Becomes(r, q) /\ q.pc = step
    <3>1. StartRead(r, step, e, t)
      BY <2>1 DEF AppReads
    <3> QED  BY <3>1, ReadBecomes DEF Steps, EditSteps, ReverseSteps, Alone
  <2>2. ASSUME AppEdit(r, e, t, a)
        PROVE  \E q : Becomes(r, q) /\ q.pc = "appEditSave"
    <3>1. Edits(r, "appEditSave", e, t, a) /\ "appEditSave" \notin Alone
      BY <2>2 DEF AppEdit, Edits, ReverseSteps, Alone
    <3> QED  BY <3>1, EditBecomes
  <2> QED  BY <2>1, <2>2 DEF AppComplete, AppReturn, AppCancel
<1>4. Requests' /\ Calm(r)
  BY <1>1, <1>3, BecomesDoes, ReqKnown
  DEF Calm, Plain, Alters, EmpSteps, TaskSteps, ReverseSteps, rows
<1> QED  BY <1>1, <1>2, <1>4, SoundQuiet DEF tallies

\* An act of the application finds the row accepted, or is late.
LEMMA AppActTime ==
    ASSUME TypeInv, NEW r \in Req, AppAct(r)
    PROVE  OnTime(req[r].task) /\ TalliesGrow /\ loose' = loose /\ (late' = late \/ late' = late + 1)
BY DEF TypeInv, TypeOK, AppAct, Changed, Mine, OnTime, TalliesGrow, TalliesTyped

\* Its saves.
LEMMA AppSavesSound ==
    ASSUME TypeInv, NEW r \in Req, AppCompleteSave(r) \/ AppEditSave(r) \/ AppReturnSave(r)
    PROVE  Sound /\ Calm(r)
<1> DEFINE t == req[r].task
<1>1. /\ req[r].pc \in {"appCompleteSave", "appEditSave", "appReturnSave"} /\ End(r)
      /\ UNCHANGED <<deployment, locks, reversing>>
  BY DEF AppCompleteSave, AppEditSave, AppReturnSave, rows, SaveCompleted, GiveBack
<1>2. LockTypeOK' /\ t \in Task
  BY <1>1, LocksSame, ReqKnown
<1>3. Requests' /\ Calm(r)
  BY <1>1, EndAlters DEF Calm, Plain, EmpSteps, TaskSteps, ReverseSteps
<1>4. ASSUME UNCHANGED <<rows, held>>, NoFault \/ AFault
      PROVE  Sound
  <2>1. TalliesGrow
    BY <1>4, TalliesDo
  <2> QED  BY <1>1, <1>2, <1>3, <1>4, <2>1, SoundQuiet
<1>5. CASE AppCompleteSave(r)
  <2>1. CASE AppAct(r) /\ SaveCompleted(t, "app") /\ UNCHANGED recorded
    <3>1. TalliesGrow /\ OnTime(t)
      BY <2>1, AppActTime
    <3>2. recorded' = [recorded EXCEPT ![t] = recorded[t]] /\ recorded[t] \in BOOLEAN
          /\ "app" \in {"web", "app"} /\ UNCHANGED held
      BY <1>2, <1>5, <2>1, TypeParts DEF RowsTyped, AppCompleteSave
    <3>3. /\ RowStep(t) /\ status'[t] = "completed" /\ version'[t] = version[t] + 1
          /\ proof'[t] = "app"
      BY <1>2, <2>1, <3>2, CompletedRow DEF SaveCompleted
    <3>4. RowMove(t)
      BY <2>1, <3>1, <3>2, <3>3 DEF RowMove, Completed, SaveCompleted
    <3> QED  BY <1>1, <1>2, <1>3, <3>1, <3>3, <3>4, SoundStep
  <2> QED  BY <1>3, <1>4, <1>5, <2>1 DEF AppCompleteSave
<1>6. CASE AppEditSave(r)
  <2>1. CASE Transactions /\ AppAct(r) /\ Reprice(t, req[r].seen, req[r].want)
             /\ amount' = [amount EXCEPT ![t] = req[r].want]
    <3> DEFINE h == held[t] + req[r].want - req[r].seen
    <3>1. TalliesGrow /\ OnTime(t)
      BY <2>1, AppActTime
    <3>2. req[r] \in Request /\ Fits(req[r]) /\ req[r].pc = "appEditSave"
      BY <1>6, ReqKnown DEF AppEditSave
    <3>3. req[r].want \in Amounts /\ req[r].seen \in Amounts \cup {0}
      BY <3>2 DEF Fits, EditSteps, Request
    <3>4. (\A a \in Amounts \cup {0} : a \in Int) /\ held[t] \in Int /\ amount[t] \in Int
      BY <1>2, AmountsAssumption, Costs
    <3>5. h \in Int
      BY <3>3, <3>4
    <3>6. /\ held' = [held EXCEPT ![t] = h]
          /\ UNCHANGED <<status, owner, assigned, routed, version, proof, recorded, reversing>>
      BY <1>6, <2>1 DEF AppEditSave, Reprice
    <3>7. RowStep(t) /\ amount'[t] = req[r].want /\ held'[t] = h
      BY <1>2, <2>1, <3>3, <3>5, <3>6, AmountRow
    <3>8. ~Changed(r) => amount[t] = req[r].seen /\ status[t] = "accepted"
      BY DEF Changed, Mine
    <3>9. late' = late + 1 \/ held'[t] - amount'[t] = held[t] - amount[t]
      BY <2>1, <3>3, <3>4, <3>7, <3>8 DEF AppAct
    <3>10. late' = late + 1 \/ status[t] \in Reversible
      BY <2>1, <3>8 DEF AppAct, Reversible
    <3>11. RowMove(t)
      BY <3>6, <3>9, <3>10 DEF RowMove, Kept
    <3> QED  BY <1>1, <1>2, <1>3, <3>1, <3>7, <3>11, SoundStep
  <2>2. CASE UNCHANGED <<held, amount>> /\ (AFault \/ NoFault)
    <3>1. UNCHANGED <<rows, held>>
      BY <1>6, <2>2 DEF AppEditSave, rows
    <3> QED  BY <1>3, <1>4, <2>2, <3>1
  <2> QED  BY <1>6, <2>1, <2>2 DEF AppEditSave
<1>7. CASE AppReturnSave(r)
  <2>1. CASE AppAct(r) /\ GiveBack(t)
    <3>1. TalliesGrow /\ OnTime(t)
      BY <2>1, AppActTime
    <3>2. UNCHANGED held
      BY <1>7 DEF AppReturnSave
    <3>3. /\ RowStep(t) /\ status'[t] = "open" /\ owner'[t] = NoEmp
          /\ UNCHANGED <<amount, version, proof, recorded, reversing, held>>
      BY <1>2, <2>1, <3>2, GiveBackRow
    <3>4. RowMove(t)
      BY <3>1, <3>3 DEF RowMove, GivenBack
    <3> QED  BY <1>1, <1>2, <1>3, <3>1, <3>3, <3>4, SoundStep
  <2> QED  BY <1>3, <1>4, <1>7, <2>1 DEF AppReturnSave
<1> QED  BY <1>5, <1>6, <1>7

------------------------------------------------------------------------------
(* Reversals *)

\* r claims the row t, goes on with its reversal, or ends it.
Claims(r, t) ==
    /\ Plain(r) /\ t \in Task /\ ~reversing[t]
    /\ reversing' = [reversing EXCEPT ![t] = TRUE]
    /\ req[r].pc \notin ReverseSteps /\ req'[r].pc \in ReverseSteps /\ req'[r].task = t
GoesOn(r) ==
    /\ Plain(r) /\ UNCHANGED reversing /\ Keeping(r)
    /\ req[r].pc \in ReverseSteps /\ req'[r].pc \in ReverseSteps
Finishes(r) ==
    /\ Plain(r) /\ req[r].pc \in ReverseSteps /\ req'[r].pc = "idle"
    /\ reversing' = [reversing EXCEPT ![req[r].task] = FALSE]

\* The refund and the new status in one MongoDB transaction.
LEMMA RefundMoves ==
    ASSUME TypeInv, NEW t \in Task, NEW st \in {"rejected", "cancelled"}, Refund(t, st)
    PROVE  RowStep(t) /\ RowMove(t) /\ UNCHANGED reversing
<1> DEFINE h == held[t] - amount[t]
<1>1. /\ status' = [status EXCEPT ![t] = st] /\ held' = [held EXCEPT ![t] = h]
      /\ status[t] \in Reversible
      /\ UNCHANGED <<owner, assigned, routed, amount, version, proof, recorded, reversing>>
  BY DEF Refund, MayReverse
<1>2. h \in Int /\ st \in Statuses
  BY Costs DEF Statuses
<1>3. RowStep(t) /\ status'[t] = st /\ held'[t] = h
  BY <1>1, <1>2, StatusRow
<1> QED  BY <1>1, <1>3 DEF RowMove, Closed

\* The claim of the fallback without one.
LEMMA ClaimMoves ==
    ASSUME TypeInv, NEW r \in Req, NEW e \in Emp \cup {NoEmp}, NEW t \in Task,
           NEW st \in {"rejected", "cancelled"}, ClaimReversal(r, e, t, st),
           req[r].pc \notin EmpSteps \cup TaskSteps \cup ReverseSteps, UNCHANGED <<deployment, locks>>
    PROVE  Requests' /\ RowStep(t) /\ RowMove(t) /\ Claims(r, t)
<1>1. PICK q : Becomes(r, q) /\ q.pc = "reverseRefund" /\ q.task = t
  BY ClaimBecomes
<1>2. Requests' /\ req'[r] = q /\ Alters(r)
  BY <1>1, BecomesDoes, ReqKnown DEF Alters
<1>3. /\ ~Transactions /\ ~reversing[t] /\ reversing' = [reversing EXCEPT ![t] = TRUE]
      /\ UNCHANGED <<status, owner, assigned, routed, amount, version, proof, recorded, held>>
  BY DEF ClaimReversal, ReversalFree
<1>4. Claims(r, t)
  BY <1>1, <1>2, <1>3 DEF Claims, Plain, EmpSteps, TaskSteps, ReverseSteps
<1>5. reversing' \in [Task -> BOOLEAN] /\ \A u \in Task \ {t} : reversing'[u] = reversing[u]
  BY <1>3, TypeParts DEF RowsTyped
<1>6. RowStep(t) /\ RowMove(t)
  BY <1>3, <1>5, TypeParts DEF RowStep, RowOthers, RowsTyped, RowMove, Kept
<1> QED  BY <1>2, <1>4, <1>6

LEMMA AppReverseSound ==
    ASSUME TypeInv, NEW r \in Req, AppReverse(r)
    PROVE  Sound /\ (Calm(r) \/ Claims(r, req[r].task))
<1> DEFINE t == req[r].task
<1>1. req[r].pc = "appReverse" /\ UNCHANGED <<deployment, locks>>
  BY DEF AppReverse
<1>2. LockTypeOK' /\ t \in Task /\ req[r].emp \in Emp
  BY <1>1, LocksSame, ReqKnown DEF Fits, ReverseSteps
<1>3. ASSUME End(r)
      PROVE  Requests' /\ Plain(r) /\ req'[r].pc \notin ReverseSteps
  BY <1>1, <1>3, EndAlters DEF Plain, EmpSteps, TaskSteps, ReverseSteps
<1>4. CASE Refund(t, "rejected") /\ End(r) /\ AppAct(r)
  <2>1. RowStep(t) /\ RowMove(t) /\ UNCHANGED reversing
    BY <1>2, <1>4, RefundMoves
  <2>2. TalliesGrow
    BY <1>4, AppActTime
  <2> QED  BY <1>1, <1>2, <1>3, <1>4, <2>1, <2>2, SoundStep DEF Calm
<1>5. CASE ClaimReversal(r, req[r].emp, t, "rejected") /\ AppAct(r)
  <2>1. Requests' /\ RowStep(t) /\ RowMove(t) /\ Claims(r, t)
    BY <1>1, <1>2, <1>5, ClaimMoves DEF EmpSteps, TaskSteps, ReverseSteps
  <2>2. TalliesGrow
    BY <1>5, AppActTime
  <2> QED  BY <1>1, <1>2, <2>1, <2>2, SoundStep
<1>6. CASE End(r) /\ UNCHANGED <<rows, held>> /\ NoFault
  <2>1. TalliesGrow /\ UNCHANGED reversing
    BY <1>6, TalliesDo, RowsSame
  <2> QED  BY <1>1, <1>2, <1>3, <1>6, <2>1, SoundQuiet DEF Calm
<1> QED  BY <1>4, <1>5, <1>6 DEF AppReverse

LEMMA AdminReverseSound ==
    ASSUME TypeInv, NEW r \in Req, NEW t \in Task, AdminReverse(r, t)
    PROVE  Sound /\ (Calm(r) \/ Claims(r, t))
<1>1. req[r].pc = "idle" /\ UNCHANGED <<deployment, locks, tallies>>
  BY DEF AdminReverse
<1>2. LockTypeOK' /\ TalliesGrow
  BY <1>1, LocksSame, TalliesDo DEF NoFault
<1>3. CASE Refund(t, "cancelled") /\ UNCHANGED req
  <2>1. RowStep(t) /\ RowMove(t) /\ UNCHANGED reversing
    BY <1>3, RefundMoves
  <2>2. Requests' /\ Plain(r) /\ req'[r].pc \notin ReverseSteps
    BY <1>1, <1>3, ReqKnown, SameDoes DEF Plain, Alters, EmpSteps, TaskSteps, ReverseSteps
  <2> QED  BY <1>1, <1>2, <2>1, <2>2, SoundStep DEF Calm
<1>4. CASE ClaimReversal(r, NoEmp, t, "cancelled")
  <2>1. Requests' /\ RowStep(t) /\ RowMove(t) /\ Claims(r, t)
    BY <1>1, <1>4, ClaimMoves DEF EmpSteps, TaskSteps, ReverseSteps
  <2> QED  BY <1>1, <1>2, <2>1, SoundStep
<1> QED  BY <1>3, <1>4 DEF AdminReverse

LEMMA ReversesSound ==
    ASSUME TypeInv, NEW r \in Req, ReverseRefund(r) \/ ReverseFinish(r) \/ ReverseUndo(r)
    PROVE  Sound /\ (GoesOn(r) \/ Finishes(r))
<1> DEFINE t == req[r].task
<1>1. /\ req[r].pc \in ReverseSteps /\ UNCHANGED <<deployment, locks>>
      /\ UNCHANGED <<owner, assigned, routed, amount, version, proof, recorded>>
      /\ NoFault \/ AFault
      /\ \/ Go(r, "reverseFinish") /\ UNCHANGED <<status, reversing>>
         \/ Go(r, "reverseUndo") /\ UNCHANGED <<status, reversing>>
         \/ /\ End(r) /\ reversing' = [reversing EXCEPT ![t] = FALSE] /\ UNCHANGED held
            /\ status' \in {status, [status EXCEPT ![t] = req[r].target]}
      /\ held' \in {held, [held EXCEPT ![t] = @ - req[r].seen], [held EXCEPT ![t] = @ + req[r].seen]}
  BY DEF ReverseRefund, ReverseFinish, ReverseUndo, ReverseSteps, rows, NoFault
<1>2. req[r] \in Request /\ Fits(req[r]) /\ t \in Task /\ LockTypeOK' /\ TalliesGrow
  BY <1>1, LocksSame, TalliesDo, ReqKnown DEF ReverseSteps
<1>3. req[r].target \in {"rejected", "cancelled"} /\ ~Transactions /\ req[r].seen \in Amounts \cup {0}
  BY <1>1, <1>2 DEF Fits, Alone, Request
<1>4. held' \in [Task -> Int] /\ \A u \in Task \ {t} : held'[u] = held[u]
  <2>1. \A a \in Amounts \cup {0} : a \in Int
    BY AmountsAssumption
  <2> QED  BY <1>1, <1>2, <1>3, <2>1, TypeParts
<1>5. CASE End(r) /\ reversing' = [reversing EXCEPT ![t] = FALSE]
           /\ status' \in {status, [status EXCEPT ![t] = req[r].target]}
  <2>1. Requests' /\ Finishes(r)
    BY <1>1, <1>5, EndAlters DEF Finishes, Plain, EmpSteps, TaskSteps, ReverseSteps
  <2>2. reversing' \in [Task -> BOOLEAN] /\ \A u \in Task \ {t} : reversing'[u] = reversing[u]
    BY <1>5, TypeParts DEF RowsTyped
  <2>3. /\ status' \in [Task -> Statuses] /\ \A u \in Task \ {t} : status'[u] = status[u]
        /\ status'[t] = status[t] \/ status'[t] = req[r].target
    BY <1>2, <1>3, <1>5, TypeParts DEF RowsTyped, Statuses
  <2>4. RowStep(t)
    BY <1>1, <1>4, <2>2, <2>3, TypeParts DEF RowStep, RowOthers, RowsTyped
  <2>5. RowMove(t)
    BY <1>1, <1>3, <2>3 DEF RowMove, Kept, Closed
  <2> QED  BY <1>1, <1>2, <2>1, <2>4, <2>5, SoundStep
<1>6. ASSUME NEW step \in {"reverseFinish", "reverseUndo"}, Go(r, step), UNCHANGED <<status, reversing>>
      PROVE  Sound /\ GoesOn(r)
  <2>1. step \in ReverseSteps /\ step \in Steps \ {"idle"} /\ step \notin EditSteps
        /\ req[r].pc # "idle"
    BY <1>1 DEF ReverseSteps, Steps, EditSteps
  <2>2. Requests' /\ Alters(r) /\ Keeping(r) /\ req'[r].pc = step
    BY <1>1, <1>2, <1>3, <1>6, <2>1, GoAlters DEF Fits
  <2>3. GoesOn(r)
    BY <1>1, <1>6, <2>1, <2>2 DEF GoesOn, Plain, EmpSteps, TaskSteps, ReverseSteps
  <2>4. RowStep(t) /\ RowMove(t)
    BY <1>1, <1>2, <1>3, <1>4, <1>6, TypeParts DEF RowStep, RowOthers, RowsTyped, RowMove, Kept
  <2> QED  BY <1>1, <1>2, <2>2, <2>3, <2>4, SoundStep
<1> QED  BY <1>1, <1>5, <1>6

------------------------------------------------------------------------------
(* The environment, and every step *)

LEMMA LapsesSound ==
    ASSUME TypeInv, NEW r \in Req, LockLapses(r)
    PROVE  /\ Sound /\ UNCHANGED <<rows, req, deployment>> /\ KeyOf(r) \in Key
           /\ Lapse(r, KeyOf(r)) /\ loose' = loose + 1
<1>1. /\ UNCHANGED <<deployment, rows, held, req>> /\ KeyOf(r) \in Key
      /\ Lapse(r, KeyOf(r)) /\ ALoose
  BY DEF LockLapses
<1>2. LockTypeOK'
  BY <1>1, LapseDoes, ReqKnown
<1>3. TalliesGrow /\ loose' = loose + 1 /\ Requests'
  BY <1>1, TalliesDo, SameDoes, ReqKnown
<1> QED  BY <1>1, <1>2, <1>3, SoundQuiet

LEMMA KeyLapsesSound ==
    ASSUME TypeInv, NEW k \in Key, KeyLapses(k)
    PROVE  Sound /\ UNCHANGED <<rows, req, deployment>> /\ OrphanLapses(k)
<1>1. UNCHANGED <<deployment, rows, held, req, tallies>> /\ OrphanLapses(k)
  BY DEF KeyLapses
<1>2. LockTypeOK' /\ Requests'
  BY <1>1, OrphanRoom, SameDoes, TypeParts
<1>3. TalliesGrow
  BY <1>1, TalliesDo DEF NoFault
<1> QED  BY <1>1, <1>2, <1>3, SoundQuiet

Stopping(S) ==
    /\ Abandon(S)
    /\ \A s \in Req : req'[s] = IF s \in S THEN Idle ELSE req[s]

LEMMA StopSound ==
    ASSUME TypeInv, NEW r \in Req, Stop(r)
    PROVE  /\ Sound /\ UNCHANGED <<rows, deployment>>
           /\ Stopping(IF deployment = "production" THEN {r} ELSE Req)
<1> DEFINE S == IF deployment = "production" THEN {r} ELSE Req
<1>1. /\ UNCHANGED <<deployment, rows, held>> /\ AFault /\ Abandon(S)
      /\ req' = [s \in Req |-> IF s \in S THEN Idle ELSE req[s]]
  BY DEF Stop
<1> HIDE DEF S
<1>2. LockTypeOK'
  <2>1. S = IF deployment = "production" THEN {r} ELSE Req
    BY DEF S
  <2> QED  BY <1>1, <2>1, AbandonDoes, ReqKnown
<1>3. Stopping(S)
  BY <1>1 DEF Stopping
<1>4. Requests'
  <2>1. \A s \in Req : req[s] \in Request /\ Fits(req[s])
    BY ReqKnown
  <2>2. \A s \in Req : req'[s] \in Request /\ Fits(req'[s])
    BY <1>1, <2>1, IdleFits
  <2>3. req' \in [Req -> Request]
    BY <1>1, <2>2
  <2>4. Transactions' <=> Transactions
    BY <1>1 DEF Transactions
  <2> QED  BY <2>2, <2>3, <2>4 DEF Requests, Fits
<1>5. TalliesGrow
  BY <1>1, TalliesDo
<1> QED  BY <1>1, <1>2, <1>3, <1>4, <1>5, SoundQuiet DEF S

\* What a step does to the locks and to the requests that use them.
Starts(r, k) ==
    /\ k \in Key /\ Alters(r) /\ Gripped(r, k) /\ UNCHANGED rows
    /\ req[r].pc = "idle" /\ req'[r].pc \in {"acceptCheck", "routeCheck", "completeRead"}
    /\ k = IF req'[r].pc = "completeRead" THEN req'[r].task ELSE req'[r].emp
    /\ Acquire(r, k) \/ (FallThrough(r, k) /\ loose' = loose + 1)
Works(r) ==
    /\ Alters(r) /\ Keeping(r) /\ UNCHANGED <<reversing, locks>>
    /\ \/ req[r].pc \in EmpSteps /\ req'[r].pc \in EmpSteps
       \/ req[r].pc \in TaskSteps /\ req'[r].pc \in TaskSteps
    /\ req'[r].pc = "acceptClaim" =>
          req[r].pc = "acceptCheck" /\ ~Busy(req[r].emp) /\ UNCHANGED rows
Unlocks(r) ==
    /\ Alters(r) /\ UNCHANGED rows
    /\ req[r].pc \in {"unlockEmp", "unlockTask"} /\ req'[r].pc = "idle"
    /\ Release(r, KeyOf(r)) \/ ReleaseFails(r, KeyOf(r))
Lapses(r) ==
    /\ UNCHANGED <<rows, req>> /\ KeyOf(r) \in Key
    /\ Lapse(r, KeyOf(r)) /\ loose' = loose + 1
Stops(r) == UNCHANGED rows /\ Stopping(IF deployment = "production" THEN {r} ELSE Req)

Locking(r) == Starts(r, KeyOf(r)') \/ Works(r) \/ Unlocks(r) \/ Lapses(r) \/ Stops(r)
Reversals(r) == (\E t \in Task : Claims(r, t)) \/ GoesOn(r) \/ Finishes(r)
Apart ==
    \/ UNCHANGED <<locks, req, reversing>>
    \/ UNCHANGED <<rows, req>> /\ \E k \in Key : OrphanLapses(k)
Kind == Apart \/ \E r \in Req : Calm(r) \/ Locking(r) \/ Reversals(r)

LEMMA StartsKind ==
    ASSUME TypeInv, NEW r \in Req, NEW e \in Emp, NEW t \in Task,
           Accept(r, e, t) \/ Route(r, e, t) \/ Complete(r, e, t)
    PROVE  Sound /\ Locking(r)
<1>1. CASE Accept(r, e, t) \/ Route(r, e, t)
  <2>1. PICK step \in {"acceptCheck", "routeCheck"} : StartLocked(r, e, step, e, t)
    BY <1>1 DEF Accept, Route
  <2>2. e \in Key /\ step \in {"acceptCheck", "routeCheck", "completeRead"}
    BY KeyAssumption
  <2>3. /\ Sound /\ Alters(r) /\ Gripped(r, e) /\ UNCHANGED rows
        /\ req[r].pc = "idle" /\ req'[r].pc = step /\ req'[r].emp = e
        /\ Acquire(r, e) \/ (FallThrough(r, e) /\ loose' = loose + 1)
    BY <2>1, <2>2, StartLockedSound
  <2>4. KeyOf(r)' = e
    BY <2>1, <2>3 DEF KeyOf
  <2> QED  BY <2>1, <2>2, <2>3, <2>4 DEF Locking, Starts
<1>2. CASE Complete(r, e, t)
  <2>1. StartLocked(r, t, "completeRead", e, t)
    BY <1>2 DEF Complete
  <2>2. t \in Key /\ "completeRead" \in {"acceptCheck", "routeCheck", "completeRead"}
    BY KeyAssumption
  <2>3. /\ Sound /\ Alters(r) /\ Gripped(r, t) /\ UNCHANGED rows
        /\ req[r].pc = "idle" /\ req'[r].pc = "completeRead" /\ req'[r].task = t
        /\ Acquire(r, t) \/ (FallThrough(r, t) /\ loose' = loose + 1)
    BY <2>1, <2>2, StartLockedSound
  <2>4. KeyOf(r)' = t
    BY <2>3 DEF KeyOf
  <2> QED  BY <2>2, <2>3, <2>4 DEF Locking, Starts
<1> QED  BY <1>1, <1>2

LEMMA WorksKind ==
    ASSUME TypeInv, NEW r \in Req,
           \/ AcceptCheck(r) \/ RouteCheck(r) \/ CompleteRead(r)
           \/ AcceptClaim(r) \/ RouteClaim(r)
           \/ CompleteSave(r) \/ CommitUncertain(r) \/ CompleteSync(r)
    PROVE  Sound /\ Works(r)
<1>1. CASE AcceptCheck(r) \/ RouteCheck(r) \/ CompleteRead(r)
  BY <1>1, ChecksSound DEF Works, EmpSteps, TaskSteps, rows
<1>2. CASE AcceptClaim(r) \/ RouteClaim(r)
  BY <1>2, ClaimsSound DEF Works, EmpSteps, TaskSteps
<1>3. CASE CompleteSave(r) \/ CommitUncertain(r) \/ CompleteSync(r)
  BY <1>3, WebCompletesSound DEF Works, EmpSteps, TaskSteps
<1> QED  BY <1>1, <1>2, <1>3

LEMMA NextSound ==
    ASSUME TypeInv, [Next]_vars
    PROVE  Sound /\ Kind
<1>1. ASSUME NEW r \in Req, NEW e \in Emp, NEW t \in Task,
             \/ Accept(r, e, t) \/ Route(r, e, t) \/ Complete(r, e, t) \/ Cancel(r, e, t)
             \/ AppComplete(r, e, t) \/ AppReturn(r, e, t) \/ AppCancel(r, e, t)
      PROVE  Sound /\ Kind
  <2>1. CASE Accept(r, e, t) \/ Route(r, e, t) \/ Complete(r, e, t)
    BY <2>1, StartsKind DEF Kind
  <2>2. CASE Cancel(r, e, t)
    BY <2>2, CancelSound DEF Kind
  <2>3. CASE AppComplete(r, e, t) \/ AppReturn(r, e, t) \/ AppCancel(r, e, t)
    <3>1. amount[t] \in Amounts
      BY Costs
    <3> QED  BY <2>3, <3>1, AppReadsSound DEF Kind
  <2> QED  BY <1>1, <2>1, <2>2, <2>3
<1>2. ASSUME NEW r \in Req, NEW e \in Emp, NEW t \in Task, NEW a \in Amounts,
             Edit(r, e, t, a) \/ AppEdit(r, e, t, a)
      PROVE  Sound /\ Kind
  BY <1>2, RepriceSound, AppReadsSound DEF Kind
<1>3. ASSUME NEW e \in Emp, NEW t \in Task, Return(e, t)
      PROVE  Sound /\ Kind
  BY <1>3, ReturnSound DEF Kind, Apart
<1>4. ASSUME NEW t \in Task, AdminRoute(t)
      PROVE  Sound /\ Kind
  <2>1. Return(NoEmp, t) \/ AdminRoute(t)
    BY <1>4
  <2> QED  BY <2>1, ReturnSound DEF Kind, Apart
<1>5. ASSUME NEW r \in Req,
             \/ AcceptCheck(r) \/ AcceptClaim(r) \/ RouteCheck(r) \/ RouteClaim(r)
             \/ CompleteRead(r) \/ CompleteSave(r) \/ CommitUncertain(r) \/ CompleteSync(r)
      PROVE  Sound /\ Kind
  BY <1>5, WorksKind DEF Kind, Locking
<1>6. ASSUME NEW r \in Req,
             \/ EditSave(r) \/ CancelRefund(r) \/ AppCompleteSave(r) \/ AppEditSave(r)
             \/ AppReturnSave(r) \/ AdminSave(r)
      PROVE  Sound /\ Kind
  BY <1>6, EditSaveSound, CancelRefundSound, AppSavesSound DEF Kind
<1>7. ASSUME NEW r \in Req,
             AppReverse(r) \/ ReverseRefund(r) \/ ReverseFinish(r) \/ ReverseUndo(r)
      PROVE  Sound /\ Kind
  <2>1. CASE AppReverse(r)
    <3>1. req[r].task \in Task
      BY <2>1, ReqKnown DEF AppReverse
    <3> QED  BY <2>1, <3>1, AppReverseSound DEF Kind, Reversals
  <2>2. CASE ReverseRefund(r) \/ ReverseFinish(r) \/ ReverseUndo(r)
    BY <2>2, ReversesSound DEF Kind, Reversals
  <2> QED  BY <1>7, <2>1, <2>2
<1>8. ASSUME NEW r \in Req, Unlock(r) \/ LockLapses(r) \/ Stop(r)
      PROVE  Sound /\ Kind
  <2>1. CASE Unlock(r)
    BY <2>1, UnlockSound DEF Kind, Locking, Unlocks
  <2>2. CASE LockLapses(r)
    BY <2>2, LapsesSound DEF Kind, Locking, Lapses
  <2>3. CASE Stop(r)
    BY <2>3, StopSound DEF Kind, Locking, Stops
  <2> QED  BY <1>8, <2>1, <2>2, <2>3
<1>9. ASSUME NEW r \in Req, NEW t \in Task, AdminReverse(r, t)
      PROVE  Sound /\ Kind
  BY <1>9, AdminReverseSound DEF Kind, Reversals
<1>10. ASSUME NEW r \in Req, NEW t \in Task, NEW a \in Amounts, AdminEdit(r, t, a)
       PROVE  Sound /\ Kind
  <2>1. (NoEmp \in Emp /\ Edit(r, NoEmp, t, a)) \/ AdminEdit(r, t, a)
    BY <1>10
  <2> QED  BY <2>1, RepriceSound DEF Kind
<1>11. ASSUME NEW k \in Key, KeyLapses(k)
       PROVE  Sound /\ Kind
  BY <1>11, KeyLapsesSound DEF Kind, Apart
<1>12. ASSUME UNCHANGED vars
       PROVE  Sound /\ Kind
  <2>1. UNCHANGED <<deployment, locks, rows, held, req, tallies>>
    BY <1>12 DEF vars
  <2>2. LockTypeOK' /\ TalliesGrow /\ Requests'
    BY <2>1, LocksSame, TalliesDo, SameDoes, TypeParts DEF NoFault
  <2>3. Sound /\ UNCHANGED reversing
    BY <2>1, <2>2, SoundQuiet, RowsSame
  <2> QED  BY <2>1, <2>3 DEF Kind, Apart
<1> QED  BY <1>1, <1>2, <1>3, <1>4, <1>5, <1>6, <1>7, <1>8, <1>9, <1>10, <1>11, <1>12 DEF Next

------------------------------------------------------------------------------
(* Type correctness *)

LEMMA InitTyped == Init => TypeInv
<1> SUFFICES ASSUME Init  PROVE TypeInv
  OBVIOUS
<1>1. LockTypeOK
  BY DEF Init, LockInit, LockTypeOK, Grips
<1>2. RowsTyped /\ held \in [Task -> Int] /\ TalliesTyped
  <2>1. \A a \in Amounts : a \in Int
    BY AmountsAssumption
  <2>2. amount \in [Task -> Amounts] /\ held = amount
    BY DEF Init
  <2>3. held \in [Task -> Int]
    BY <2>1, <2>2
  <2> QED  BY <2>2, <2>3 DEF Init, RowsTyped, Statuses, TalliesTyped
<1>3. Requests
  BY IdleFits DEF Init, Requests
<1> QED  BY <1>1, <1>2, <1>3, TypeParts

LEMMA TypeInvariant == Spec => []TypeInv
<1>1. TypeInv /\ [Next]_vars => TypeInv'
  BY NextSound DEF Sound
<1> QED  BY InitTyped, <1>1, PTL DEF Spec

\* Type correctness: every variable keeps to its values, whatever requests,
\* administrators and stops do to the tasks.
THEOREM TaskTypeCorrect == Spec => []TypeOK
<1>1. TypeInv => TypeOK
  BY DEF TypeInv
<1> QED  BY <1>1, TypeInvariant, PTL

------------------------------------------------------------------------------
(* Properties of the rows *)

\* A row that may still be completed has been saved at most as often as there were
\* late acts, any other at most once more.
VersionInv ==
    \A t \in Task :
        version[t] <= late + (IF status[t] \in {"open", "accepted"} THEN 0 ELSE 1)

LEMMA VersionStep ==
    ASSUME TypeInv, VersionInv, [Next]_vars
    PROVE  VersionInv'
<1> SUFFICES ASSUME NEW t \in Task
             PROVE  version'[t] <= late' + (IF status'[t] \in {"open", "accepted"} THEN 0 ELSE 1)
  BY DEF VersionInv
<1>1. RowMove(t) /\ TalliesGrow
  BY NextSound DEF Sound
<1>2. version[t] \in Nat /\ late \in Nat /\ late' \in Nat /\ late <= late'
  BY <1>1, TypeParts DEF RowsTyped, TalliesTyped, TalliesGrow
<1>3. version[t] <= late + (IF status[t] \in {"open", "accepted"} THEN 0 ELSE 1)
  BY DEF VersionInv
<1>4. CASE Claimed(t)
  BY <1>2, <1>3, <1>4 DEF Claimed
<1>5. CASE Completed(t)
  <2>1. version[t] <= late \/ late' = late + 1
    BY <1>2, <1>3, <1>5 DEF Completed, OnTime
  <2> QED  BY <1>2, <1>3, <1>5, <2>1 DEF Completed
<1>6. CASE GivenBack(t)
  <2>1. version[t] <= late \/ late' = late + 1
    BY <1>2, <1>3, <1>6 DEF GivenBack, OnTime
  <2> QED  BY <1>2, <1>3, <1>6, <2>1 DEF GivenBack
<1>7. CASE Closed(t)
  BY <1>2, <1>3, <1>7 DEF Closed
<1>8. CASE Kept(t)
  BY <1>2, <1>3, <1>8 DEF Kept
<1> QED  BY <1>1, <1>4, <1>5, <1>6, <1>7, <1>8 DEF RowMove

\* A transfer is completed once on either channel, and once more at most for each
\* act of the application on a task that had changed: Mongoose's version stands
\* against stale saves.
THEOREM TaskCompletedOnce == Spec => []CompletedOnce
<1>1. Init => VersionInv
  BY DEF Init, VersionInv
<1>2. TypeInv /\ VersionInv => CompletedOnce
  BY TypeParts DEF VersionInv, CompletedOnce, RowsTyped, TalliesTyped
<1> QED  BY <1>1, <1>2, VersionStep, TypeInvariant, PTL DEF Spec

\* Whoever completed it and whatever became of it since: proofs of the web portal
\* come with the record of the effects.
WholeInv ==
    Transactions => \A t \in Task : proof[t] # "deleted" /\ (proof[t] = "web" => recorded[t])

LEMMA WholeStep ==
    ASSUME TypeInv, WholeInv, [Next]_vars
    PROVE  WholeInv'
<1> SUFFICES ASSUME Transactions', NEW t \in Task
             PROVE  proof'[t] # "deleted" /\ (proof'[t] = "web" => recorded'[t])
  BY DEF WholeInv
<1>1. RowMove(t) /\ Transactions
  BY NextSound DEF Sound, Transactions
<1>2. proof[t] # "deleted" /\ (proof[t] = "web" => recorded[t])
  BY <1>1 DEF WholeInv
<1> QED  BY <1>1, <1>2 DEF RowMove, Claimed, Completed, GivenBack, Closed, Kept

\* With MongoDB transactions a transfer completed on the web portal has its proofs
\* on disk and its effects recorded, a lost answer to the commit included.
THEOREM TaskCompletedIsWhole == Spec => []CompletedIsWhole
<1>1. Init => WholeInv
  BY DEF Init, WholeInv
<1>2. WholeInv => CompletedIsWhole
  BY DEF WholeInv, CompletedIsWhole
<1> QED  BY <1>1, <1>2, WholeStep, TypeInvariant, PTL DEF Spec

LEMMA EvenStep ==
    ASSUME TypeInv, CustomerEven, [Next]_vars
    PROVE  CustomerEven'
<1> SUFFICES ASSUME Transactions', late' = 0, NEW t \in Task
             PROVE  held'[t] = IF status'[t] \in Reversible THEN amount'[t] ELSE 0
  BY DEF CustomerEven
<1>1. RowMove(t) /\ Transactions /\ TypeInv'
  BY NextSound DEF Sound, Transactions
<1>2. late = 0 /\ late' # late + 1
  BY NextSound, TypeParts DEF Sound, TalliesGrow, TalliesTyped
<1>3. held[t] = IF status[t] \in Reversible THEN amount[t] ELSE 0
  BY <1>1, <1>2 DEF CustomerEven
<1>4. /\ amount[t] \in Int /\ held[t] \in Int /\ amount'[t] \in Int /\ held'[t] \in Int
  <2>1. \A a \in Amounts : a \in Int
    BY AmountsAssumption
  <2>2. amount \in [Task -> Amounts] /\ amount' \in [Task -> Amounts]
        /\ held \in [Task -> Int] /\ held' \in [Task -> Int]
    BY <1>1, TypeParts DEF RowsTyped
  <2> QED  BY <2>1, <2>2
<1>5. CASE Claimed(t)
  BY <1>3, <1>5 DEF Claimed, Reversible
<1>6. CASE Completed(t)
  BY <1>2, <1>3, <1>6 DEF Completed, OnTime, Reversible
<1>7. CASE GivenBack(t)
  BY <1>2, <1>3, <1>7 DEF GivenBack, OnTime, Reversible
<1>8. CASE Closed(t)
  BY <1>1, <1>3, <1>4, <1>8 DEF Closed, Reversible
<1>9. CASE Kept(t)
  <2>1. status'[t] = status[t]
    BY <1>9 DEF Kept
  <2>2. CASE amount'[t] = amount[t] /\ held'[t] = held[t]
    BY <1>3, <2>1, <2>2
  <2>3. CASE status[t] \in Reversible /\ held'[t] - amount'[t] = held[t] - amount[t]
    BY <1>3, <1>4, <2>1, <2>3
  <2> QED  BY <1>1, <1>2, <1>9, <2>2, <2>3 DEF Kept
<1> QED  BY <1>1, <1>5, <1>6, <1>7, <1>8, <1>9 DEF RowMove

\* What the customer has paid for a task is its cost, or nothing once it has been
\* rejected or cancelled, through edits, cancellations, returns, completions and
\* reversals in any order: with MongoDB transactions and no late act.
THEOREM TaskCustomerEven == Spec => []CustomerEven
<1>1. Init => CustomerEven
  BY DEF Init, CustomerEven, Reversible
<1> QED  BY <1>1, EvenStep, TypeInvariant, PTL DEF Spec

\* A rejected or cancelled transfer stays so: with MongoDB transactions only a late
\* act of the application reopens it.
THEOREM TaskClosedStays == Spec => ClosedStays
<1>1. ASSUME TypeInv, [Next]_vars
      PROVE  [\A t \in Task : Transactions /\ status[t] \notin Reversible /\ late' = late
                              => status'[t] = status[t]]_vars
  <2> SUFFICES ASSUME NEW t \in Task, Transactions, status[t] \notin Reversible, late' = late
               PROVE  status'[t] = status[t]
    OBVIOUS
  <2>1. RowMove(t)
    BY <1>1, NextSound DEF Sound
  <2>2. late' # late + 1
    BY <1>1, TypeParts DEF TalliesTyped
  <2> QED  BY <2>1, <2>2 DEF RowMove, Claimed, Completed, GivenBack, Closed, Kept, OnTime, Reversible
<1> QED  BY <1>1, TypeInvariant, PTL DEF Spec, ClosedStays

------------------------------------------------------------------------------
(* One reversal of a row *)

\* Who reverses a row has claimed it, and is alone.
ReversalInv ==
    /\ \A r \in Req : req[r].pc \in ReverseSteps => reversing[req[r].task]
    /\ \A r, s \in Req : req[r].pc \in ReverseSteps /\ req[s].pc \in ReverseSteps
                         /\ req[r].task = req[s].task => r = s

\* No request is at a reversal that was not at the same before.
NoneReverses ==
    \A s \in Req : req'[s].pc \in ReverseSteps =>
        req[s].pc \in ReverseSteps /\ req'[s].task = req[s].task

LEMMA ReversalKept ==
    ASSUME ReversalInv, NoneReverses, UNCHANGED reversing
    PROVE  ReversalInv'
BY DEF ReversalInv, NoneReverses

LEMMA ReversalStep ==
    ASSUME TypeInv, ReversalInv, [Next]_vars
    PROVE  ReversalInv'
<1>1. Kind
  BY NextSound
<1>2. CASE Apart
  BY <1>2, ReversalKept DEF Apart, NoneReverses, rows
<1>3. ASSUME NEW r \in Req, Calm(r)
      PROVE  ReversalInv'
  BY <1>3, ReversalKept DEF Calm, Plain, Alters, NoneReverses
<1>4. ASSUME NEW r \in Req, Locking(r)
      PROVE  ReversalInv'
  <2>1. CASE Stops(r)
    <3>1. NoneReverses
      BY <2>1, IdleFits DEF Stops, Stopping, NoneReverses, ReverseSteps
    <3> QED  BY <2>1, <3>1, ReversalKept DEF Stops, rows
  <2>2. CASE Lapses(r)
    BY <2>2, ReversalKept DEF Lapses, NoneReverses, rows
  <2>3. CASE Starts(r, KeyOf(r)') \/ Works(r) \/ Unlocks(r)
    <3>1. Alters(r) /\ UNCHANGED reversing /\ req'[r].pc \notin ReverseSteps
      BY <2>3 DEF Starts, Works, Unlocks, rows, EmpSteps, TaskSteps, ReverseSteps
    <3> QED  BY <3>1, ReversalKept DEF Alters, NoneReverses
  <2> QED  BY <1>4, <2>1, <2>2, <2>3 DEF Locking
<1>5. ASSUME NEW r \in Req, NEW t \in Task, Claims(r, t)
      PROVE  ReversalInv'
  <2>1. /\ Alters(r) /\ ~reversing[t] /\ req'[r].task = t
        /\ reversing'[t] /\ \A u \in Task \ {t} : reversing'[u] = reversing[u]
    BY <1>5, TypeParts DEF Claims, Plain, RowsTyped
  <2>2. ASSUME NEW s \in Req \ {r}, req'[s].pc \in ReverseSteps
        PROVE  /\ req[s].pc \in ReverseSteps /\ req'[s].task = req[s].task
               /\ req[s].task # t /\ reversing'[req[s].task]
    <3>1. req'[s] = req[s] /\ reversing[req[s].task]
      BY <2>1, <2>2 DEF Alters, ReversalInv
    <3>2. req[s].task \in Task
      BY <2>2, <3>1, ReqKnown DEF ReverseSteps
    <3> QED  BY <2>1, <2>2, <3>1, <3>2
  <2> QED  BY <2>1, <2>2 DEF ReversalInv
<1>6. ASSUME NEW r \in Req, GoesOn(r)
      PROVE  ReversalInv'
  BY <1>6, ReversalKept DEF GoesOn, Plain, Alters, Keeping, NoneReverses
<1>7. ASSUME NEW r \in Req, Finishes(r)
      PROVE  ReversalInv'
  <2>1. /\ Alters(r) /\ req'[r].pc \notin ReverseSteps /\ req[r].pc \in ReverseSteps
        /\ \A u \in Task \ {req[r].task} : reversing'[u] = reversing[u]
    BY <1>7, TypeParts DEF Finishes, Plain, RowsTyped, ReverseSteps
  <2>2. ASSUME NEW s \in Req, req'[s].pc \in ReverseSteps
        PROVE  /\ req[s].pc \in ReverseSteps /\ req'[s].task = req[s].task
               /\ reversing'[req[s].task]
    <3>1. s # r /\ req'[s] = req[s] /\ reversing[req[s].task]
      BY <2>1, <2>2 DEF Alters, ReversalInv
    <3>2. req[s].task # req[r].task
      BY <2>1, <2>2, <3>1 DEF ReversalInv
    <3>3. req[s].task \in Task
      BY <2>2, <3>1, ReqKnown DEF ReverseSteps
    <3> QED  BY <2>1, <2>2, <3>1, <3>2, <3>3
  <2> QED  BY <2>2 DEF ReversalInv
<1> QED  BY <1>1, <1>2, <1>3, <1>4, <1>5, <1>6, <1>7 DEF Kind, Reversals

\* Without MongoDB transactions too, a row never has two reversals under way: who
\* reverses it has claimed its reversalLock, and only its own end clears that.
THEOREM TaskOneReversal == Spec => []OneReversal
<1>1. Init => ReversalInv
  BY IdleFits DEF Init, ReversalInv, ReverseSteps
<1>2. ReversalInv => OneReversal
  <2> SUFFICES ASSUME ReversalInv, NEW t \in Task
               PROVE  Cardinality(Reversing(t)) <= 1
    BY DEF OneReversal
  <2>1. \A r, s \in Reversing(t) : r = s
    BY DEF ReversalInv, Reversing, ReverseSteps
  <2>2. CASE Reversing(t) = {}
    BY <2>2, FS_EmptySet
  <2>3. CASE Reversing(t) # {}
    <3>1. PICK r : Reversing(t) = {r}
      BY <2>1, <2>3
    <3> QED  BY <3>1, FS_Singleton
  <2> QED  BY <2>2, <2>3
<1> QED  BY <1>1, <1>2, ReversalStep, TypeInvariant, PTL DEF Spec

------------------------------------------------------------------------------
(* The locks of the tasks *)

\* A request holds the key it works under, from its lock to its unlock, or thinks so.
Using(r, k) == req[r].pc \in EmpSteps \cup TaskSteps /\ k = KeyOf(r)
Gripping(r) == \A k \in Key : grip[r][k] # "none" <=> Using(r, k)

\* Of those who think they hold a key all but one cost a loose lock.
RoomInv == \A k \in Key : HoldersGrip(k) /\ Cardinality(Grippers(k)) <= loose + Room(k)

LockInv == RoomInv /\ \A r \in Req : Gripping(r)

\* What a step does to the holders of a key, in terms of what it costs.
Paid(k) == HoldersGrip(k)' /\ (NoneExtra(k) \/ (OneExtra(k) /\ loose' = loose + 1))

LEMMA RoomKept ==
    ASSUME TypeInv, RoomInv, TalliesGrow, \A k \in Key : Paid(k)
    PROVE  RoomInv'
<1> SUFFICES ASSUME NEW k \in Key
             PROVE  HoldersGrip(k)' /\ Cardinality(Grippers(k)') <= loose' + Room(k)'
  BY DEF RoomInv
<1> DEFINE g == Cardinality(Grippers(k))
           h == Cardinality(Grippers(k)')
<1>1. g \in Nat /\ h \in Nat /\ Room(k) \in {0, 1} /\ Room(k)' \in {0, 1}
  BY GrippersCounted
<1>2. loose \in Nat /\ loose' \in Nat /\ loose <= loose'
  BY TypeParts DEF TalliesGrow, TalliesTyped
<1>3. g <= loose + Room(k)
  BY DEF RoomInv
<1>4. \/ h + Room(k) <= g + Room(k)'
      \/ h + Room(k) <= g + Room(k)' + 1 /\ loose' = loose + 1
  BY DEF Paid, NoneExtra, OneExtra
<1>5. HoldersGrip(k)'
  BY DEF Paid
<1> HIDE DEF g, h
<1>6. h <= loose' + Room(k)'
  BY <1>1, <1>2, <1>3, <1>4
<1> QED  BY <1>5, <1>6 DEF h

\* A request whose key and grips stay as they were.
LEMMA GrippingKept ==
    ASSUME NEW s \in Req, Gripping(s), \A k \in Key : Using(s, k)' <=> Using(s, k),
           \A k \in Key : (grip'[s][k] = "none") <=> (grip[s][k] = "none")
    PROVE  Gripping(s)'
BY DEF Gripping

LEMMA UsingKept ==
    ASSUME NEW s \in Req, req'[s] = req[s]
    PROVE  \A k \in Key : Using(s, k)' <=> Using(s, k)
BY DEF Using, KeyOf

LEMMA LocksUntouched ==
    ASSUME TypeInv, LockInv, TalliesGrow, UNCHANGED <<locks, deployment>>,
           \A s \in Req, k \in Key : Using(s, k)' <=> Using(s, k)
    PROVE  LockInv'
<1>1. \A k \in Key : KeySame(k)
  BY DEF KeySame, locks
<1>2. \A k \in Key : Paid(k)
  BY <1>1, KeySameRoom DEF Paid, LockInv, RoomInv
<1>3. \A s \in Req : Gripping(s)'
  BY GrippingKept DEF LockInv, locks
<1> QED  BY <1>2, <1>3, RoomKept DEF LockInv

LEMMA StartsLock ==
    ASSUME TypeInv, LockInv, TalliesGrow, UNCHANGED deployment, NEW r \in Req, NEW k \in Key,
           k = KeyOf(r)', Starts(r, k)
    PROVE  LockInv'
<1>1. LockTypeOK /\ \A j \in Key : HoldersGrip(j)
  BY ReqKnown DEF LockInv, RoomInv
<1>2. \A j \in Key : grip[r][j] = "none"
  BY DEF LockInv, Gripping, Using, Starts, EmpSteps, TaskSteps
<1>3. Paid(k)
  <2>1. CASE Acquire(r, k)
    BY <1>1, <1>2, <2>1, AcquireRoom DEF Paid
  <2>2. CASE FallThrough(r, k) /\ loose' = loose + 1
    BY <1>1, <1>2, <2>2, FallThroughRoom DEF Paid
  <2> QED  BY <2>1, <2>2 DEF Starts
<1>4. \A j \in Key \ {k} : redis'[j] = redis[j] /\ (j \in memory' <=> j \in memory)
  BY <1>1, AcquireDoes DEF Starts
<1>5. \A s \in Req, j \in Key : s # r \/ j # k => grip'[s][j] = grip[s][j]
  BY DEF Starts, Gripped
<1>6. \A j \in Key : Paid(j)
  <2>1. \A j \in Key \ {k} : KeySame(j)
    BY <1>4, <1>5 DEF KeySame
  <2>2. \A j \in Key \ {k} : Paid(j)
    BY <1>1, <2>1, KeySameRoom DEF Paid
  <2> QED  BY <1>3, <2>2
<1>7. ASSUME NEW s \in Req \ {r}  PROVE Gripping(s)'
  <2>1. req'[s] = req[s] /\ Gripping(s)
    BY DEF Starts, Alters, LockInv
  <2> QED  BY <1>5, <2>1, GrippingKept, UsingKept
<1>8. Gripping(r)'
  <2>1. grip'[r][k] # "none" /\ req'[r].pc \in EmpSteps \cup TaskSteps
    BY DEF Starts, Gripped, EmpSteps, TaskSteps
  <2> QED  BY <1>2, <1>5, <2>1 DEF Gripping, Using
<1> QED  BY <1>6, <1>7, <1>8, RoomKept DEF LockInv

LEMMA UnlocksLock ==
    ASSUME TypeInv, LockInv, TalliesGrow, UNCHANGED deployment, NEW r \in Req, Unlocks(r)
    PROVE  LockInv'
<1>1. LockTypeOK /\ (\A j \in Key : HoldersGrip(j)) /\ KeyOf(r) \in Key
  BY ReqKnown DEF LockInv, RoomInv, Unlocks, EmpSteps, TaskSteps
<1> PICK k \in Key : k = KeyOf(r)
  BY <1>1
<1>2. Release(r, k) \/ ReleaseFails(r, k)
  BY DEF Unlocks
<1>3. LetGo(r, k)
  BY <1>1, <1>2, ReleaseDoes
<1>4. \A j \in Key \ {k} : KeySame(j)
  BY <1>3 DEF LetGo, KeySame
<1>5. \A j \in Key : Paid(j)
  <2>1. Paid(k)
    BY <1>1, <1>2, ReleaseRoom DEF Paid
  <2>2. \A j \in Key \ {k} : Paid(j)
    BY <1>1, <1>4, KeySameRoom DEF Paid
  <2> QED  BY <2>1, <2>2
<1>6. ASSUME NEW s \in Req \ {r}  PROVE Gripping(s)'
  <2>1. req'[s] = req[s] /\ Gripping(s)
    BY DEF Unlocks, Alters, LockInv
  <2> QED  BY <1>3, <2>1, GrippingKept, UsingKept DEF LetGo
<1>7. Gripping(r)'
  <2>1. \A j \in Key \ {k} : grip[r][j] = "none"
    BY DEF LockInv, Gripping, Using
  <2>2. \A j \in Key : grip'[r][j] = "none"
    BY <1>3, <2>1 DEF LetGo
  <2> QED  BY <2>2 DEF Gripping, Using, Unlocks, EmpSteps, TaskSteps
<1> QED  BY <1>5, <1>6, <1>7, RoomKept DEF LockInv

LEMMA LapsesLock ==
    ASSUME TypeInv, LockInv, TalliesGrow, UNCHANGED deployment, NEW r \in Req, Lapses(r)
    PROVE  LockInv'
<1>1. LockTypeOK /\ (\A j \in Key : HoldersGrip(j)) /\ KeyOf(r) \in Key
  BY ReqKnown DEF LockInv, RoomInv, Lapses
<1> PICK k \in Key : k = KeyOf(r)
  BY <1>1
<1>2. Lapse(r, k) /\ loose' = loose + 1 /\ UNCHANGED req
  BY DEF Lapses
<1>3. /\ \A s \in Req, j \in Key : (grip'[s][j] = "none") <=> (grip[s][j] = "none")
      /\ \A s \in Req, j \in Key : s # r \/ j # k => grip'[s][j] = grip[s][j]
      /\ \A j \in Key \ {k} : redis'[j] = redis[j] /\ (j \in memory' <=> j \in memory)
  BY <1>1, <1>2, LapseDoes
<1>4. \A j \in Key \ {k} : KeySame(j)
  BY <1>3 DEF KeySame
<1>5. \A j \in Key : Paid(j)
  <2>1. Paid(k)
    BY <1>1, <1>2, LapseRoom DEF Paid
  <2>2. \A j \in Key \ {k} : Paid(j)
    BY <1>1, <1>4, KeySameRoom DEF Paid
  <2> QED  BY <2>1, <2>2
<1>6. \A s \in Req : Gripping(s)'
  BY <1>2, <1>3, GrippingKept, UsingKept DEF LockInv
<1> QED  BY <1>5, <1>6, RoomKept DEF LockInv

LEMMA StopsLock ==
    ASSUME TypeInv, LockInv, TalliesGrow, UNCHANGED deployment, NEW r \in Req, Stops(r)
    PROVE  LockInv'
<1> DEFINE S == IF deployment = "production" THEN {r} ELSE Req
<1>1. LockTypeOK /\ \A j \in Key : HoldersGrip(j)
  BY ReqKnown DEF LockInv, RoomInv
<1>2. S = (IF deployment = "production" THEN {r} ELSE Req) /\ Abandon(S)
      /\ \A s \in Req : req'[s] = IF s \in S THEN Idle ELSE req[s]
  BY DEF Stops, Stopping
<1> HIDE DEF S
<1>3. \A s \in Req, j \in Key : grip'[s][j] = IF s \in S THEN "none" ELSE grip[s][j]
  BY <1>1, <1>2, AbandonDoes
<1>4. \A j \in Key : Paid(j)
  BY <1>1, <1>2, AbandonRoom DEF Paid
<1>5. ASSUME NEW s \in Req  PROVE Gripping(s)'
  <2>1. CASE s \in S
    <3>1. req'[s].pc = "idle" /\ \A j \in Key : grip'[s][j] = "none"
      BY <1>2, <1>3, <2>1, IdleFits
    <3> QED  BY <3>1 DEF Gripping, Using, EmpSteps, TaskSteps
  <2>2. CASE s \notin S
    <3>1. req'[s] = req[s] /\ \A j \in Key : grip'[s][j] = grip[s][j]
      BY <1>2, <1>3, <2>2
    <3> QED  BY <3>1, GrippingKept, UsingKept DEF LockInv
  <2> QED  BY <2>1, <2>2
<1> QED  BY <1>4, <1>5, RoomKept DEF LockInv

LEMMA LockStep ==
    ASSUME TypeInv, LockInv, [Next]_vars
    PROVE  LockInv'
<1>1. Kind /\ TalliesGrow /\ UNCHANGED deployment /\ TypeInv'
  BY NextSound DEF Sound
<1>2. CASE UNCHANGED <<locks, req, reversing>>
  BY <1>1, <1>2, LocksUntouched, UsingKept
<1>3. ASSUME NEW k \in Key, UNCHANGED <<rows, req>>, OrphanLapses(k)
      PROVE  LockInv'
  <2>1. LockTypeOK /\ \A j \in Key : HoldersGrip(j)
    BY TypeParts DEF LockInv, RoomInv
  <2>2. UNCHANGED grip /\ \A j \in Key : Paid(j)
    BY <1>1, <1>3, <2>1, OrphanRoom DEF Paid
  <2>3. \A s \in Req : Gripping(s)'
    BY <1>3, <2>2, GrippingKept, UsingKept DEF LockInv
  <2> QED  BY <1>1, <2>2, <2>3, RoomKept DEF LockInv
<1>4. ASSUME NEW r \in Req, Plain(r)
      PROVE  LockInv'
  <2>1. ASSUME NEW s \in Req  PROVE \A k \in Key : Using(s, k)' <=> Using(s, k)
    <3>1. CASE s = r
      BY <1>4, <3>1 DEF Plain, Using
    <3>2. CASE s # r
      BY <1>4, <3>2, UsingKept DEF Plain, Alters
    <3> QED  BY <3>1, <3>2
  <2> QED  BY <1>1, <1>4, <2>1, LocksUntouched DEF Plain
<1>5. ASSUME NEW r \in Req, Works(r)
      PROVE  LockInv'
  <2>1. ASSUME NEW s \in Req  PROVE \A k \in Key : Using(s, k)' <=> Using(s, k)
    <3>1. CASE s = r
      <4>1. KeyOf(r)' = KeyOf(r)
        BY <1>5 DEF Works, Keeping, KeyOf, EmpSteps, TaskSteps
      <4> QED  BY <1>5, <3>1, <4>1 DEF Works, Using
    <3>2. CASE s # r
      BY <1>5, <3>2, UsingKept DEF Works, Alters
    <3> QED  BY <3>1, <3>2
  <2> QED  BY <1>1, <1>5, <2>1, LocksUntouched DEF Works
<1>6. ASSUME NEW r \in Req, Locking(r)
      PROVE  LockInv'
  <2>1. CASE Starts(r, KeyOf(r)')
    <3>1. KeyOf(r)' \in Key
      BY <2>1 DEF Starts
    <3> QED  BY <1>1, <2>1, <3>1, StartsLock
  <2> QED  BY <1>1, <1>5, <1>6, <2>1, UnlocksLock, LapsesLock, StopsLock DEF Locking
<1> QED  BY <1>1, <1>2, <1>3, <1>4, <1>6
         DEF Kind, Apart, Calm, Reversals, Claims, GoesOn, Finishes

------------------------------------------------------------------------------
(* An employee's accepted tasks *)

\* Requests that have seen the employee without a task, and may still claim one.
Claimers(e) == {r \in Req : req[r].pc = "acceptClaim" /\ req[r].emp = e}

ActiveInv ==
    \A e \in Emp :
        /\ IsFiniteSet(TasksOf(e))
        /\ Cardinality(TasksOf(e)) + Cardinality(Claimers(e)) <= 1 + loose

LEMMA ClaimersCounted ==
    ASSUME NEW e
    PROVE  /\ IsFiniteSet(Claimers(e)) /\ IsFiniteSet(Claimers(e)')
           /\ Cardinality(Claimers(e)) \in Nat /\ Cardinality(Claimers(e)') \in Nat
<1>1. IsFiniteSet(Claimers(e)) /\ IsFiniteSet(Claimers(e)')
  BY LockAssumption, FS_Subset DEF Claimers
<1> QED  BY <1>1, FS_CardinalityType

\* Only a claim gives an employee a task.
LEMMA TasksMove ==
    ASSUME TypeInv, Sound, NEW e \in Emp, \A r \in Req : AcceptClaim(r) => req[r].emp # e
    PROVE  TasksOf(e)' \subseteq TasksOf(e)
<1> SUFFICES ASSUME NEW t \in Task, status'[t] = "accepted", owner'[t] = e
             PROVE  status[t] = "accepted" /\ owner[t] = e
  BY DEF TasksOf, Mine
<1>1. RowMove(t)
  BY DEF Sound
<1> QED  BY <1>1 DEF RowMove, Claimed, Completed, GivenBack, Closed, Kept

\* And it gives one, to who was a claimer.
LEMMA ClaimMove ==
    ASSUME TypeInv, NEW r \in Req, NEW e \in Emp, AcceptClaim(r), req[r].emp = e
    PROVE  /\ r \in Claimers(e) /\ Claimers(e)' \subseteq Claimers(e) \ {r}
           /\ TasksOf(e)' \subseteq TasksOf(e) \cup {req[r].task}
<1>1. /\ Alters(r) /\ req[r].pc = "acceptClaim" /\ req'[r].pc = "unlockEmp"
  BY ClaimsSound DEF AcceptClaim
<1>2. r \in Claimers(e) /\ Claimers(e)' \subseteq Claimers(e) \ {r}
  BY <1>1 DEF Claimers, Alters
<1>3. RowOthers(req[r].task)
  BY ClaimRow DEF RowStep
<1> QED  BY <1>2, <1>3 DEF TasksOf, Mine, RowOthers

\* Who becomes a claimer has just seen that the employee has no task.
LEMMA ClaimerFrom ==
    ASSUME TypeInv, Kind, NEW e \in Emp, ~(Claimers(e)' \subseteq Claimers(e))
    PROVE  TasksOf(e) = {} /\ \A s \in Req : ~AcceptClaim(s)
<1>1. PICK r \in Req : /\ req'[r].pc = "acceptClaim" /\ req'[r].emp = e
                       /\ ~(req[r].pc = "acceptClaim" /\ req[r].emp = e)
  BY DEF Claimers
<1>2. Works(r)
  <2>1. req' # req /\ req'[r] # req[r]
    BY <1>1
  <2>2. ASSUME NEW s \in Req, Calm(s) \/ Reversals(s)  PROVE FALSE
    BY <1>1, <2>1, <2>2
    DEF Calm, Reversals, Claims, GoesOn, Finishes, Plain, Alters, EmpSteps, TaskSteps
  <2>3. ASSUME NEW s \in Req, Locking(s)  PROVE Works(r)
    <3>1. ~Stops(s)
      BY <1>1, <2>1, IdleFits DEF Stops, Stopping
    <3>2. ~Starts(s, KeyOf(s)') /\ ~Unlocks(s) /\ ~Lapses(s)
      BY <1>1, <2>1 DEF Starts, Unlocks, Lapses, Alters
    <3>3. Works(s)
      BY <2>3, <3>1, <3>2 DEF Locking
    <3> QED  BY <2>1, <3>3 DEF Works, Alters
  <2> QED  BY <2>1, <2>2, <2>3 DEF Kind, Apart
<1>3. req[r].pc = "acceptCheck" /\ req[r].emp = e /\ ~Busy(e)
  BY <1>1, <1>2 DEF Works, Keeping
<1>4. ASSUME NEW s \in Req, AcceptClaim(s)  PROVE FALSE
  <2>1. Alters(s) /\ req[s].pc = "acceptClaim" /\ req'[s].pc = "unlockEmp"
    BY <1>4, ClaimsSound DEF AcceptClaim
  <2> QED  BY <1>1, <1>3, <2>1 DEF Alters
<1> QED  BY <1>3, <1>4 DEF TasksOf, Busy

\* Claimers hold the employee's key.
LEMMA ClaimersHold ==
    ASSUME LockInv', loose' \in Nat, NEW e \in Emp
    PROVE  Cardinality(Claimers(e)') <= 1 + loose'
<1>1. e \in Key
  BY KeyAssumption
<1>2. Claimers(e)' \subseteq Grippers(e)'
  BY <1>1 DEF Claimers, LockInv, Gripping, Using, Grippers, KeyOf, EmpSteps
<1>3. Cardinality(Claimers(e)') <= Cardinality(Grippers(e)')
  BY <1>2, GrippersCounted, FS_Subset
<1>4. Cardinality(Grippers(e)') <= loose' + Room(e)' /\ Room(e)' \in {0, 1}
  BY <1>1, GrippersCounted DEF LockInv, RoomInv
<1> QED  BY <1>3, <1>4, GrippersCounted, ClaimersCounted

LEMMA ActiveStep ==
    ASSUME TypeInv, LockInv, ActiveInv, [Next]_vars
    PROVE  ActiveInv'
<1> SUFFICES ASSUME NEW e \in Emp
             PROVE  /\ IsFiniteSet(TasksOf(e)')
                    /\ Cardinality(TasksOf(e)') + Cardinality(Claimers(e)') <= 1 + loose'
  BY DEF ActiveInv
<1>1. Sound /\ Kind /\ LockInv'
  BY NextSound, LockStep
<1>2. loose \in Nat /\ loose' \in Nat /\ loose <= loose'
  BY <1>1, TypeParts DEF Sound, TalliesGrow, TalliesTyped
<1>3. /\ IsFiniteSet(TasksOf(e)) /\ Cardinality(TasksOf(e)) \in Nat
      /\ Cardinality(TasksOf(e)) + Cardinality(Claimers(e)) <= 1 + loose
  BY FS_CardinalityType DEF ActiveInv
<1>4. /\ IsFiniteSet(Claimers(e)) /\ IsFiniteSet(Claimers(e)')
      /\ Cardinality(Claimers(e)) \in Nat /\ Cardinality(Claimers(e)') \in Nat
  BY ClaimersCounted
<1>5. ASSUME TasksOf(e)' \subseteq TasksOf(e)
      PROVE  /\ IsFiniteSet(TasksOf(e)') /\ Cardinality(TasksOf(e)') \in Nat
             /\ Cardinality(TasksOf(e)') <= Cardinality(TasksOf(e))
  BY <1>3, <1>5, FS_Subset, FS_CardinalityType
<1>6. CASE TasksOf(e)' \subseteq TasksOf(e) /\ Claimers(e)' \subseteq Claimers(e)
  <2>1. Cardinality(Claimers(e)') <= Cardinality(Claimers(e))
    BY <1>4, <1>6, FS_Subset
  <2> QED  BY <1>2, <1>3, <1>4, <1>5, <1>6, <2>1
<1>7. CASE ~(Claimers(e)' \subseteq Claimers(e))
  <2>1. TasksOf(e) = {} /\ \A s \in Req : ~AcceptClaim(s)
    BY <1>1, <1>7, ClaimerFrom
  <2>2. TasksOf(e)' = {}
    BY <1>1, <2>1, TasksMove
  <2>3. Cardinality(Claimers(e)') <= 1 + loose'
    BY <1>1, <1>2, ClaimersHold
  <2> QED  BY <1>2, <1>4, <2>2, <2>3, FS_EmptySet
<1>8. ASSUME NEW r \in Req, AcceptClaim(r), req[r].emp = e
      PROVE  /\ IsFiniteSet(TasksOf(e)')
             /\ Cardinality(TasksOf(e)') + Cardinality(Claimers(e)') <= 1 + loose'
  <2>1. /\ r \in Claimers(e) /\ TasksOf(e)' \subseteq TasksOf(e) \cup {req[r].task}
        /\ Claimers(e)' \subseteq Claimers(e) \ {r}
    BY <1>8, ClaimMove
  <2>2. /\ IsFiniteSet(TasksOf(e) \cup {req[r].task})
        /\ Cardinality(TasksOf(e) \cup {req[r].task})
              \in {Cardinality(TasksOf(e)), Cardinality(TasksOf(e)) + 1}
    BY <1>3, FS_AddElement
  <2>3. /\ IsFiniteSet(TasksOf(e)') /\ Cardinality(TasksOf(e)') \in Nat
        /\ Cardinality(TasksOf(e)') <= Cardinality(TasksOf(e)) + 1
    BY <1>3, <2>1, <2>2, FS_Subset, FS_CardinalityType
  <2>4. Cardinality(Claimers(e)') + 1 <= Cardinality(Claimers(e))
    <3>1. IsFiniteSet(Claimers(e) \ {r})
          /\ Cardinality(Claimers(e) \ {r}) = Cardinality(Claimers(e)) - 1
      BY <1>4, <2>1, FS_RemoveElement
    <3>2. Cardinality(Claimers(e)') <= Cardinality(Claimers(e) \ {r})
      BY <2>1, <3>1, FS_Subset
    <3> QED  BY <1>4, <3>1, <3>2
  <2> QED  BY <1>2, <1>3, <1>4, <2>3, <2>4
<1>9. CASE \A r \in Req : AcceptClaim(r) => req[r].emp # e
  BY <1>1, <1>6, <1>7, <1>9, TasksMove
<1> QED  BY <1>8, <1>9

LEMMA ActiveInit == Init => LockInv /\ ActiveInv
<1> SUFFICES ASSUME Init  PROVE LockInv /\ ActiveInv
  OBVIOUS
<1>1. \A r \in Req, k \in Key : grip[r][k] = "none" /\ req[r].pc = "idle"
  BY IdleFits DEF Init, LockInit
<1>2. \A k \in Key : HoldersGrip(k) /\ Grippers(k) = {}
  BY <1>1, LockAssumption DEF Init, LockInit, HoldersGrip, Grippers
<1>3. \A k \in Key : Cardinality(Grippers(k)) <= loose + Room(k)
  BY <1>2, FS_EmptySet DEF Init, Room
<1>4. \A r \in Req : Gripping(r)
  BY <1>1, IdleFits DEF Gripping, Using, EmpSteps, TaskSteps, Init
<1>5. \A e \in Emp : TasksOf(e) = {} /\ Claimers(e) = {}
  BY IdleFits DEF Init, TasksOf, Mine, Claimers
<1>6. ActiveInv
  BY <1>5, FS_EmptySet DEF ActiveInv, Init
<1> QED  BY <1>2, <1>3, <1>4, <1>6 DEF LockInv, RoomInv

\* An employee works on one accepted task at a time, whatever requests race: each
\* task more costs a lock that lapsed under its holder or was fallen through.
THEOREM TaskOneActive == Spec => []OneActiveTask
<1>1. TypeInv /\ ActiveInv => OneActiveTask
  <2> SUFFICES ASSUME TypeInv, ActiveInv, NEW e \in Emp
               PROVE  Cardinality(TasksOf(e)) <= 1 + loose
    BY DEF OneActiveTask
  <2>1. /\ IsFiniteSet(TasksOf(e)) /\ loose \in Nat
        /\ Cardinality(TasksOf(e)) + Cardinality(Claimers(e)) <= 1 + loose
    BY TypeParts DEF ActiveInv, TalliesTyped
  <2> QED  BY <2>1, FS_CardinalityType, ClaimersCounted
<1>2. TypeInv /\ LockInv /\ ActiveInv /\ [Next]_vars => (LockInv /\ ActiveInv)'
  BY LockStep, ActiveStep
<1> QED  BY <1>1, <1>2, ActiveInit, TypeInvariant, PTL DEF Spec
==============================================================================
