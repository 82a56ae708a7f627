--------------------------- MODULE MCExecutorTask ---------------------------
(***************************************************************************)
(* The instances of ExecutorTask that are model-checked.                   *)
(***************************************************************************)
EXTENDS ExecutorTask, TLC

CONSTANTS t1, t2, e1, e2, r1, r2

Symmetry == Permutations(Task) \cup Permutations(Emp) \cup Permutations(Req)

\* A task, or an employee, that has played no part.
Untouched(t) ==
    /\ status[t] = "open" /\ routed[t] /\ assigned[t] = NoEmp /\ ~reversing[t]
    /\ amount[t] = 1 /\ held[t] = 1
    /\ \A r \in Req : req[r].task # t
Absent(e) == (\A t \in Task : e \notin {owner[t], assigned[t]})
             /\ \A r \in Req : req[r].emp # e

\* The application's acts that take no lock.
AppSteps == {"appCompleteSave", "appEditSave", "appReturnSave", "appReverse"}

\* The bound of the run: one task in every way, between two employees, or two
\* tasks of one employee, whose amounts stay the same and whose application
\* only accepts and routes.
OneTask == \E t \in Task : Untouched(t)
TwoTasks ==
    /\ \E e \in Emp : Absent(e)
    /\ \A t \in Task : amount[t] = 1
    /\ \A r \in Req : req[r].want = 0 /\ req[r].pc \notin AppSteps
    /\ late = 0
Small == OneTask \/ TwoTasks

SmallSpec == Init /\ [][Next /\ Small']_vars
==============================================================================
