-------------------------- MODULE ProviderDispatch --------------------------
(***************************************************************************)
(* How a transfer is paid by an API provider: the queue worker of          *)
(* services/queueService.js and services/externalApiService.js, the        *)
(* dispatch claim of services/providerDispatchClaimService.js, BullMQ's    *)
(* job life cycle, the administrator's routes (assign, pull, reverse,      *)
(* resolve), and the human executors who share the same pool of rows.      *)
(*                                                                         *)
(* Every await that lets another actor run is a step.  An actor that is    *)
(* mid-way on a row has a record [pc, tx, grp, doc, att, out]:             *)
(*   doc   the document as it read it (Mongoose saves modified paths only) *)
(*   att   the dispatch attempt it claimed or, when marking, the one read  *)
(*   out   the reference the provider answered, the outcome an             *)
(*         administrator confirms, or who called markProviderResultUnresolved *)
(* Mongoose's save writes modified paths: apiResultData is assigned as a   *)
(* whole object, so it is written as a whole.                              *)
(***************************************************************************)
EXTENDS ProviderRow

CONSTANTS Tx,          \* transfers
          Workers,     \* job executions that may run at once
          Admins,      \* administrators (requests in flight)
          NoTx, NoWorker,
          MaxRoutes,   \* bound: times an administrator routes a transfer
          Env          \* the environment behaviours allowed

(***************************************************************************)
(* overlap      two job runs on one row overlap: BullMQ hands a stalled    *)
(*              job to another worker while the first still runs, or jobs  *)
(*              for two groups exist                                       *)
(* adminRace    people act on a row an actor is mid-way on                 *)
(* parentStaff  API groups have a parent group with staff                  *)
(* reject       requests the provider refuses, fails before the claim, or  *)
(*              that fail before they are sent                             *)
(* readError    a database read throws                                     *)
(* writeError   a database or file write throws without effect             *)
(* ackLost      a database write throws after taking effect                *)
(* crash        a process stops; its job stalls and is redelivered once    *)
(* recrash      a job may stall again and is then lost                     *)
(***************************************************************************)
EnvKinds == {"overlap", "adminRace", "parentStaff", "reject", "readError",
             "writeError", "ackLost", "crash", "recrash"}

Actors == Workers \cup Admins

ASSUME ActorsAssumption == /\ Workers \cap Admins = {}
                           /\ NoWorker \notin Workers
                           /\ NoTx \notin Tx
ASSUME EnvAssumption == Env \subseteq EnvKinds
ASSUME BoundAssumption == MaxRoutes \in Nat

VARIABLES
    row,       \* Transaction documents
    job,       \* api-transfers-queue, one deduplicated job per row and group
    act,       \* what each actor is doing
    claims,    \* dispatch attempt ids handed out so far, per row
    routes,    \* times routed by an administrator, per row
    paid,      \* Payments the provider executed
    handed,    \* payouts made by hand
    debits,    \* executor debits in the ledger
    refunded   \* customer refund: none, of an open row, of a completed row

vars == <<row, job, act, claims, routes, paid, handed, debits, refunded>>
money == <<paid, handed, debits, refunded>>

WorkerPcs == {"guard", "read", "claim", "pay", "release", "saveRelease",
              "saveMismatch", "saveHold", "saveDone", "exc", "excSave"}
AdminPcs == {"routeCas", "enqueue", "pullSave", "resClaim", "resEffect",
             "resRead", "saveNotPaid"}
SharedPcs == {"mark", "markCas", "findDebit", "postDebit", "end"}
Outs == {"none", "masked", "full", "paid", "notpaid", "try", "guard", "exc"}

Job == [st : {"none", "waiting", "active"}, by : Workers \cup {NoWorker},
        stalled : BOOLEAN]
NoJob == [st |-> "none", by |-> NoWorker, stalled |-> FALSE]

Idle == [pc |-> "idle", tx |-> NoTx, grp |-> NoGroup, doc |-> NewRow,
         att |-> 0, out |-> "none"]

TypeOK ==
    /\ row \in [Tx -> Row]
    /\ job \in [Tx -> [ApiGroups -> Job]]
    /\ act \in [Actors -> [pc : {"idle"} \cup WorkerPcs \cup AdminPcs \cup SharedPcs,
                           tx : Tx \cup {NoTx}, grp : Groups \cup {NoGroup},
                           doc : Row, att : Nat, out : Outs]]
    /\ claims \in [Tx -> Nat]
    /\ routes \in [Tx -> 0..MaxRoutes]
    /\ paid \in [Tx -> Nat]
    /\ handed \in [Tx -> Nat]
    /\ debits \in [Tx -> [Groups -> Nat]]
    /\ refunded \in [Tx -> {"no", "open", "settled"}]

\* The route of row r to group g.
RoutedTo(r, g) == [r EXCEPT !.status = "processing", !.group = g,
                            !.mgr = "parentStaff" \in Env /\ g \in ApiGroups]

\* A transfer is created in the pool or, with automatic routing, on a group; the
\* job is added after the commit, and is lost if the process stops before.
Init ==
    /\ row \in [Tx -> {NewRow} \cup {RoutedTo(NewRow, g) : g \in Groups}]
    /\ \E added \in SUBSET Tx :
          job = [t \in Tx |-> [g \in ApiGroups |->
                   IF t \in added /\ row[t].group = g
                   THEN [NoJob EXCEPT !.st = "waiting"] ELSE NoJob]]
    /\ act = [a \in Actors |-> Idle]
    /\ claims = [t \in Tx |-> 0]
    /\ routes = [t \in Tx |-> 0]
    /\ paid = [t \in Tx |-> 0]
    /\ handed = [t \in Tx |-> 0]
    /\ debits = [t \in Tx |-> [g \in Groups |-> 0]]
    /\ refunded = [t \in Tx |-> "no"]

------------------------------------------------------------------------------
Working(t) == \E w \in Workers : act[w].tx = t
Serving(t) == \E a \in Admins : act[a].tx = t

PeopleMayAct(t) == "adminRace" \in Env \/ (~Working(t) /\ ~Serving(t))
JobMayRun(t) == /\ "overlap" \in Env \/ ~Working(t)
                /\ "adminRace" \in Env \/ ~Serving(t)

At(a, pc) == act[a].pc = pc
Goto(a, pc) == act' = [act EXCEPT ![a].pc = pc]
GotoWith(a, pc, out) == act' = [act EXCEPT ![a].pc = pc, ![a].out = out]

\* A request for row t begins with the document d it has read.
Begin(a, pc, t, g, d, out) ==
    /\ At(a, "idle")
    /\ act' = [act EXCEPT ![a] = [pc |-> pc, tx |-> t, grp |-> g, doc |-> d,
                                  att |-> 0, out |-> out]]

\* A write of actor a's row: it succeeds, throws, or throws having succeeded.
TryWrite(a, r, ok, err) ==
    \/ /\ row' = [row EXCEPT ![act[a].tx] = r]
       /\ \/ Goto(a, ok)
          \/ "ackLost" \in Env /\ Goto(a, err)
    \/ "writeError" \in Env /\ UNCHANGED row /\ Goto(a, err)

\* The part of a save that assigns undefined to executorGroupId.
UnsetGroup(r, doc) == IF doc.group = NoGroup THEN r.group ELSE NoGroup
\* Mutant: a status the schema does not know.
SetUnknownStatus(r, doc, s) == "failed"
\* The part of a save that assigns status s.
SetStatus(r, doc, s) == IF doc.status = s THEN r.status ELSE s

------------------------------------------------------------------------------
(* The queue worker.                                                       *)

StartJob(w, t, g) ==
    /\ job[t][g].st = "waiting"
    /\ JobMayRun(t)
    /\ Begin(w, "guard", t, g, NewRow, "none")
    /\ job' = [job EXCEPT ![t][g].st = "active", ![t][g].by = w]
    /\ UNCHANGED <<row, claims, routes, money>>

\* Mutant: an in-flight row is reported as handled but not flagged.
GuardWithoutMark(w) ==
    LET r == row[act[w].tx] IN
    /\ At(w, "guard")
    /\ Goto(w, IF RedispatchHandled(r) THEN "end" ELSE "read")
    /\ UNCHANGED <<row, job, claims, routes, money>>

\* guardAutomaticProviderRedispatch; a failed lookup reports "not handled".
Guard(w) ==
    LET r == row[act[w].tx] IN
    /\ At(w, "guard")
    /\ \/ NeedsUnresolvedHold(r) /\ GotoWith(w, "mark", "guard")
       \/ ~NeedsUnresolvedHold(r) /\ RedispatchHandled(r) /\ Goto(w, "end")
       \/ ~RedispatchHandled(r) /\ Goto(w, "read")
       \/ "readError" \in Env /\ Goto(w, "read")
    /\ UNCHANGED <<row, job, claims, routes, money>>

\* Mutant: the status of the loaded row is not looked at.
ReadAnyStatus(w) ==
    LET r == row[act[w].tx]
        next == {"claim"} \cup (IF "reject" \in Env THEN {"saveRelease"} ELSE {})
    IN
    /\ At(w, "read")
    /\ \E pc \in next : act' = [act EXCEPT ![w].pc = pc, ![w].doc = r]
    /\ UNCHANGED <<row, job, claims, routes, money>>

\* Loads the row, and fails before the claim on a service mismatch, a bad
\* configuration, a failed login or a refused inquiry.
Read(w) ==
    LET r == row[act[w].tx]
        mine == r.status = "processing" /\ r.group = act[w].grp
        next == {"claim"} \cup (IF "reject" \in Env THEN {"saveRelease", "saveMismatch"}
                                                  ELSE {})
    IN
    /\ At(w, "read")
    /\ \/ /\ ~mine \/ r.data.unres
          /\ Goto(w, "end")
       \/ mine /\ NeedsUnresolvedHold(r) /\ GotoWith(w, "mark", "try")
       \/ /\ mine /\ ~r.data.unres /\ ~NeedsUnresolvedHold(r)
          /\ \E pc \in next : act' = [act EXCEPT ![w].pc = pc, ![w].doc = r]
       \/ "readError" \in Env /\ Goto(w, "exc")
    /\ UNCHANGED <<row, job, claims, routes, money>>

\* Mutant: the claim is not conditioned on the absence of a marker.
ClaimOpenTwice(r, g) == r.status = "processing" /\ r.group = g /\ ~r.data.unres

ClaimOpen(r, g) ==
    /\ r.status = "processing"
    /\ r.group = g
    /\ ~r.data.unres
    /\ r.data.att = 0

\* claimProviderDispatch: a lost or failed claim is reported as unresolved.
Claim(w) ==
    LET t == act[w].tx
        open == ClaimOpen(row[t], act[w].doc.group)
        n == claims[t] + 1
    IN
    /\ At(w, "claim")
    /\ \/ /\ open
          /\ row' = [row EXCEPT ![t] = WithAttempt(@, n)]
          /\ claims' = [claims EXCEPT ![t] = n]
          /\ act' = [act EXCEPT ![w].pc = "pay", ![w].att = n,
                              ![w].doc = WithAttempt(@, n)]
       \/ /\ ~open \/ "writeError" \in Env
          /\ GotoWith(w, "mark", "try")
          /\ UNCHANGED <<row, claims>>
       \/ /\ open /\ "ackLost" \in Env
          /\ row' = [row EXCEPT ![t] = WithAttempt(@, n)]
          /\ claims' = [claims EXCEPT ![t] = n]
          /\ GotoWith(w, "mark", "try")
    /\ UNCHANGED <<job, routes, money>>

\* Mutant: a timeout is taken for a refusal, and the claim released.
PayTimeoutReleases(w) ==
    LET t == act[w].tx IN
    /\ At(w, "pay")
    /\ paid' \in {paid, [paid EXCEPT ![t] = @ + 1]}
    /\ Goto(w, "release")
    /\ UNCHANGED <<row, job, claims, routes, handed, debits, refunded>>

\* Mutant: a refusal is taken for an acceptance.
PayRefusedCompletes(w) ==
    /\ At(w, "pay")
    /\ GotoWith(w, "findDebit", "masked")
    /\ UNCHANGED <<row, job, claims, routes, money>>

\* The provider's Payment.  It is executed or not; the worker learns of a
\* masked, a full or no reference, of a refusal, or of nothing.
Pay(w) ==
    LET t == act[w].tx IN
    /\ At(w, "pay")
    /\ \/ /\ paid' = [paid EXCEPT ![t] = @ + 1]
          /\ \/ GotoWith(w, "findDebit", "masked")
             \/ \E ref \in {"full", "none"} : GotoWith(w, "saveHold", ref)
             \/ GotoWith(w, "mark", "try")
       \/ /\ UNCHANGED paid
          /\ \/ GotoWith(w, "mark", "try")
             \/ "reject" \in Env /\ Goto(w, "release")
    /\ UNCHANGED <<row, job, claims, routes, handed, debits, refunded>>

\* releaseProviderDispatchClaim: the loaded document is cleared first; the
\* number of rows the update matched is not looked at.
Release(w) ==
    LET t == act[w].tx
        r == row[t]
        own == r.status = "processing" /\ r.data.att = act[w].att /\ ~r.data.unres
        freed == IF own THEN [row EXCEPT ![t] = WithAttempt(@, 0)] ELSE row
        go(pc) == act' = [act EXCEPT ![w].pc = pc, ![w].out = "try",
                                 ![w].doc = WithAttempt(@, 0)]
    IN
    /\ At(w, "release")
    /\ \/ row' = freed /\ go("saveRelease")
       \/ "writeError" \in Env /\ UNCHANGED row /\ go("mark")
       \/ "ackLost" \in Env /\ row' = freed /\ go("mark")
    /\ UNCHANGED <<job, claims, routes, money>>

\* releaseFailedApiExecutionToPending.  apiResultData is among the modified
\* paths only if this run has claimed, and so cleared, the marker.
SaveRelease(w) ==
    LET r == row[act[w].tx]
        doc == act[w].doc
    IN
    /\ At(w, "saveRelease")
    /\ TryWrite(w, [r EXCEPT !.status = SetStatus(r, doc, "pending"),
                             !.group = UnsetGroup(r, doc),
                             !.data = IF act[w].att # 0 THEN doc.data ELSE @],
                "end", "exc")
    /\ UNCHANGED <<job, claims, routes, money>>

\* The service of the row does not match the executor's.
SaveMismatch(w) ==
    LET r == row[act[w].tx]
        doc == act[w].doc
    IN
    /\ At(w, "saveMismatch")
    /\ TryWrite(w, [r EXCEPT !.status = SetStatus(r, doc, "pending"),
                             !.group = UnsetGroup(r, doc),
                             !.mgr = IF doc.mgr THEN FALSE ELSE @],
                "end", "exc")
    /\ UNCHANGED <<job, claims, routes, money>>

\* Mutant: an acceptance without a reference is recorded but not flagged.
SaveHoldUnflagged(w) ==
    LET r == row[act[w].tx] IN
    /\ At(w, "saveHold")
    /\ TryWrite(w, [r EXCEPT !.data = [act[w].doc.data EXCEPT
                                         !.result = "pending_reference",
                                         !.ref = act[w].out]],
                "end", "exc")
    /\ UNCHANGED <<job, claims, routes, money>>

\* holdProviderAcceptedWithoutReference, and the save after it: status and
\* group keep their loaded values, so only apiResultData is written.
SaveHold(w) ==
    LET r == row[act[w].tx] IN
    /\ At(w, "saveHold")
    /\ TryWrite(w, [r EXCEPT !.data = [act[w].doc.data EXCEPT
                                         !.result = "pending_reference",
                                         !.unres = TRUE,
                                         !.ref = act[w].out]],
                "end", "exc")
    /\ UNCHANGED <<job, claims, routes, money>>

\* Mutant: the debit is posted without looking for an earlier one.
FindNoDebit(a) ==
    /\ At(a, "findDebit")
    /\ Goto(a, "postDebit")
    /\ UNCHANGED <<row, job, claims, routes, money>>

\* completeApiTransactionWithReference looks for the executor's debit ...
FindDebit(a) ==
    /\ At(a, "findDebit")
    /\ \/ debits[act[a].tx][act[a].grp] = 0 /\ Goto(a, "postDebit")
       \/ debits[act[a].tx][act[a].grp] # 0 /\ Goto(a, "saveDone")
       \/ "readError" \in Env /\ Goto(a, "saveDone")
    /\ UNCHANGED <<row, job, claims, routes, money>>

\* ... and posts it; an executor without enough balance is only noted.
PostDebit(a) ==
    /\ At(a, "postDebit")
    /\ \/ debits' = [debits EXCEPT ![act[a].tx][act[a].grp] = @ + 1]
       \/ UNCHANGED debits
    /\ Goto(a, "saveDone")
    /\ UNCHANGED <<row, job, claims, routes, paid, handed, refunded>>

\* The completion's save.  It assigns proofImages, so it is versioned; a
\* receipt that cannot be generated assigns none and the save is not.
SaveDone(a, err) ==
    LET r == row[act[a].tx]
        doc == act[a].doc
        done(ref, outcome) ==
            [r EXCEPT !.status = SetStatus(r, doc, "completed"),
                      !.data = [doc.data EXCEPT !.result = "accepted",
                                  !.unres = FALSE, !.ref = ref, !.outcome = outcome]]
        results == IF act[a].out = "paid"
                   THEN {done(ref, "paid") : ref \in {"masked", "full"}}
                   ELSE {done("masked", doc.data.outcome)}
    IN
    /\ At(a, "saveDone")
    /\ \E d \in results :
          \/ r.v = doc.v /\ TryWrite(a, [d EXCEPT !.v = @ + 1], "end", err)
          \/ r.v # doc.v /\ Goto(a, err) /\ UNCHANGED row
          \/ "writeError" \in Env /\ TryWrite(a, d, "end", err)
    /\ UNCHANGED <<job, claims, routes, money>>

\* Mutant: the exception handler releases rows whatever their result.
ExcUnheld(w) ==
    /\ At(w, "exc")
    /\ act' = [act EXCEPT ![w].pc = "excSave", ![w].doc = row[act[w].tx]]
    /\ UNCHANGED <<row, job, claims, routes, money>>

\* processSingleJobSerialized's catch: it reads the row again ...
Exc(w) ==
    LET r == row[act[w].tx] IN
    /\ At(w, "exc")
    /\ \/ (NeedsUnresolvedHold(r) \/ r.data.unres) /\ GotoWith(w, "mark", "exc")
       \/ /\ ~NeedsUnresolvedHold(r) /\ ~r.data.unres
          /\ act' = [act EXCEPT ![w].pc = "excSave", ![w].doc = r]
       \/ "readError" \in Env /\ Goto(w, "end")
    /\ UNCHANGED <<row, job, claims, routes, money>>

\* ... and returns it to the pool, whatever its status.
ExcSave(w) ==
    LET r == row[act[w].tx]
        doc == act[w].doc
    IN
    /\ At(w, "excSave")
    /\ TryWrite(w, [r EXCEPT !.status = SetStatus(r, doc, "pending"),
                             !.group = UnsetGroup(r, doc)], "end", "end")
    /\ UNCHANGED <<job, claims, routes, money>>

EndJob(w) ==
    LET t == act[w].tx
        g == act[w].grp
    IN
    /\ At(w, "end")
    /\ act' = [act EXCEPT ![w] = Idle]
    /\ job' = IF job[t][g].by = w THEN [job EXCEPT ![t][g] = NoJob] ELSE job
    /\ UNCHANGED <<row, claims, routes, money>>

------------------------------------------------------------------------------
(* markProviderResultUnresolved, called by workers and, through the guard, *)
(* by the administrator's enqueue.                                         *)

\* The job throws: it is retried, or this was its last attempt.
JobThrows(w) ==
    LET t == act[w].tx
        g == act[w].grp
        retried == [st |-> "waiting", by |-> NoWorker, stalled |-> job[t][g].stalled]
    IN
    /\ act' = [act EXCEPT ![w] = Idle]
    /\ IF job[t][g].by = w
       THEN \E j \in {retried, NoJob} : job' = [job EXCEPT ![t][g] = j]
       ELSE UNCHANGED job

\* Where an exception of the marking goes: the guard is outside the worker's
\* try, and the catch block swallows its own failures.
MarkThrows(a) ==
    \/ act[a].out = "try" /\ Goto(a, "exc") /\ UNCHANGED job
    \/ (act[a].out = "exc" \/ a \in Admins) /\ Goto(a, "end") /\ UNCHANGED job
    \/ act[a].out = "guard" /\ a \in Workers /\ JobThrows(a)

Mark(a) ==
    LET r == row[act[a].tx]
        needed == /\ r.status = "processing"
                  /\ ~HasDefinitiveProviderResult(r)
                  /\ HasDispatchMarker(r)
                  /\ ~r.data.unres
    IN
    /\ At(a, "mark")
    /\ \/ ~needed /\ Goto(a, "end") /\ UNCHANGED job
       \/ /\ needed
          /\ act' = [act EXCEPT ![a].pc = "markCas", ![a].att = r.data.att]
          /\ UNCHANGED job
       \/ "readError" \in Env /\ MarkThrows(a)
    /\ UNCHANGED <<row, claims, routes, money>>

MarkCas(a) ==
    LET t == act[a].tx
        r == row[t]
        same == /\ r.status = "processing"
                /\ r.data.att = act[a].att
                /\ r.data.result \notin {"accepted", "rejected"}
        marked == IF same THEN [row EXCEPT ![t] = Flagged(@)] ELSE row
    IN
    /\ At(a, "markCas")
    /\ \/ row' = marked /\ Goto(a, "end") /\ UNCHANGED job
       \/ "writeError" \in Env /\ UNCHANGED row /\ MarkThrows(a)
       \/ "ackLost" \in Env /\ row' = marked /\ MarkThrows(a)
    /\ UNCHANGED <<claims, routes, money>>

------------------------------------------------------------------------------
(* Failures of processes and of the queue.                                 *)

\* BullMQ gives the job of a worker that seems dead to another one.
Redeliver(t, g) ==
    /\ "overlap" \in Env
    /\ job[t][g].st = "active"
    /\ ~job[t][g].stalled
    /\ job' = [job EXCEPT ![t][g] = [st |-> "waiting", by |-> NoWorker, stalled |-> TRUE]]
    /\ UNCHANGED <<row, act, claims, routes, money>>

\* The process of worker w stops.  A job stalls once (maxStalledCount 1); the
\* second time it has failed.
Crash(w) ==
    LET t == act[w].tx
        g == act[w].grp
    IN
    /\ "crash" \in Env
    /\ ~At(w, "idle")
    /\ act' = [act EXCEPT ![w] = Idle]
    /\ \/ job[t][g].by # w /\ UNCHANGED job
       \/ /\ job[t][g].by = w /\ ~job[t][g].stalled
          /\ job' = [job EXCEPT ![t][g] = [st |-> "waiting", by |-> NoWorker,
                                           stalled |-> TRUE]]
       \/ /\ job[t][g].by = w /\ job[t][g].stalled /\ "recrash" \in Env
          /\ job' = [job EXCEPT ![t][g] = NoJob]
    /\ UNCHANGED <<row, claims, routes, money>>

\* The process serving administrator a's request stops.
RequestDies(a) ==
    /\ "crash" \in Env
    /\ ~At(a, "idle")
    /\ act' = [act EXCEPT ![a] = Idle]
    /\ UNCHANGED <<row, job, claims, routes, money>>

------------------------------------------------------------------------------
(* The administrator.                                                      *)

Route(a, t, g) ==
    /\ PeopleMayAct(t)
    /\ routes[t] < MaxRoutes
    /\ row[t].status = "pending"
    /\ ~ProviderMoneyHold(row[t])
    /\ Begin(a, "routeCas", t, g, row[t], "none")
    /\ UNCHANGED <<row, job, claims, routes, money>>

\* The update is conditioned on the status alone.
RouteCas(a) ==
    LET t == act[a].tx
        g == act[a].grp
    IN
    /\ At(a, "routeCas")
    /\ \/ /\ row[t].status = "pending"
          /\ routes[t] < MaxRoutes
          /\ row' = [row EXCEPT ![t] = RoutedTo(row[t], g)]
          /\ routes' = [routes EXCEPT ![t] = @ + 1]
          /\ Goto(a, IF g \in ApiGroups THEN "enqueue" ELSE "end")
       \/ /\ row[t].status # "pending" \/ routes[t] = MaxRoutes \/ "writeError" \in Env
          /\ Goto(a, "end")
          /\ UNCHANGED <<row, routes>>
    /\ UNCHANGED <<job, claims, money>>

\* addTransferJob: guarded, and deduplicated while a job for the same row and
\* group waits or runs.  A failed lookup is "not handled".
Enqueue(a) ==
    LET t == act[a].tx
        g == act[a].grp
        r == row[t]
    IN
    /\ At(a, "enqueue")
    /\ \/ NeedsUnresolvedHold(r) /\ GotoWith(a, "mark", "guard") /\ UNCHANGED job
       \/ /\ ~NeedsUnresolvedHold(r) /\ RedispatchHandled(r)
          /\ Goto(a, "end") /\ UNCHANGED job
       \/ /\ ~RedispatchHandled(r) \/ "readError" \in Env
          /\ Goto(a, "end")
          /\ job' = IF job[t][g].st = "none"
                    THEN [job EXCEPT ![t][g].st = "waiting"]
                    ELSE job
    /\ UNCHANGED <<row, claims, routes, money>>

\* Mutants: a held row, or one in any status, may be pulled.
PullUnheld(a, t) ==
    /\ PeopleMayAct(t)
    /\ row[t].status \in {"processing", "accepted"}
    /\ Begin(a, "pullSave", t, row[t].group, row[t], "none")
    /\ UNCHANGED <<row, job, claims, routes, money>>
PullAnyStatus(a, t) ==
    /\ PeopleMayAct(t)
    /\ ~ProviderMoneyHold(row[t])
    /\ Begin(a, "pullSave", t, row[t].group, row[t], "none")
    /\ UNCHANGED <<row, job, claims, routes, money>>

Pull(a, t) ==
    /\ PeopleMayAct(t)
    /\ row[t].status \in {"processing", "accepted"}
    /\ ~ProviderMoneyHold(row[t])
    /\ Begin(a, "pullSave", t, row[t].group, row[t], "none")
    /\ UNCHANGED <<row, job, claims, routes, money>>

PullSave(a) ==
    LET r == row[act[a].tx]
        doc == act[a].doc
    IN
    /\ At(a, "pullSave")
    /\ TryWrite(a, [r EXCEPT !.status = SetStatus(r, doc, "pending"),
                             !.group = UnsetGroup(r, doc),
                             !.op = IF doc.op THEN FALSE ELSE @,
                             !.mgr = IF doc.mgr THEN FALSE ELSE @], "end", "end")
    /\ UNCHANGED <<job, claims, routes, money>>

\* Mutant: the reversal does not ask for the provider hold.
ReverseUnheld(t) ==
    /\ PeopleMayAct(t)
    /\ row[t].status \in {"completed", "accepted", "processing", "pending"}
    /\ row' = [row EXCEPT ![t].status = "cancelled_by_admin"]
    /\ refunded' = [refunded EXCEPT ![t] =
                      IF row[t].status = "completed" THEN "settled" ELSE "open"]
    /\ UNCHANGED <<job, act, claims, routes, paid, handed, debits>>

\* ReversalService.reverseTransaction, one MongoDB transaction.
Reverse(t) ==
    /\ PeopleMayAct(t)
    /\ row[t].status \in {"completed", "accepted", "processing", "pending"}
    /\ ~ProviderMoneyHold(row[t])
    /\ row' = [row EXCEPT ![t].status = "cancelled_by_admin"]
    /\ refunded' = [refunded EXCEPT ![t] =
                      IF row[t].status = "completed" THEN "settled" ELSE "open"]
    /\ UNCHANGED <<job, act, claims, routes, paid, handed, debits>>

Debited(t) == \E g \in Groups : debits[t][g] # 0
InFlight(t) == \E w \in Workers : act[w].tx = t /\ At(w, "pay")

\* What the provider's statement shows.
Evidence(t, outcome) == /\ ~InFlight(t)
                        /\ (outcome = "paid") <=> paid[t] > 0

\* resolveProviderResult.  A marker is called stale after five minutes, longer
\* than a Payment's timeout: no worker is on the row then.
Resolve(a, t, outcome) ==
    /\ PeopleMayAct(t)
    /\ Evidence(t, outcome)
    /\ CanReviewProviderOperation(row[t], ~Working(t))
    /\ outcome = "notpaid" => ~NotPaidEvidenceConflict(row[t], Debited(t))
    /\ outcome = "paid" => row[t].group # NoGroup
    /\ Begin(a, "resClaim", t, row[t].group, row[t], outcome)
    /\ UNCHANGED <<row, job, claims, routes, money>>

\* The claim compares updatedAt, which every write of the row sets: the row is
\* as it was read.
ResClaim(a) ==
    LET r == row[act[a].tx]
        same == r = act[a].doc
    IN
    /\ At(a, "resClaim")
    /\ \/ same /\ TryWrite(a, WithOutcome(r, act[a].out), "resEffect", "end")
       \/ ~same /\ Goto(a, "end") /\ UNCHANGED row
    /\ UNCHANGED <<job, claims, routes, money>>

ResEffect(a) ==
    LET r == row[act[a].tx]
        mine == r.data.outcome = act[a].out /\ ~r.data.effect
    IN
    /\ At(a, "resEffect")
    /\ \/ mine /\ TryWrite(a, EffectStarted(r), "resRead", "end")
       \/ ~mine /\ Goto(a, "end") /\ UNCHANGED row
    /\ UNCHANGED <<job, claims, routes, money>>

ResRead(a) ==
    LET r == row[act[a].tx] IN
    /\ At(a, "resRead")
    /\ \/ /\ act[a].out = "notpaid"
          /\ act' = [act EXCEPT ![a].pc = "saveNotPaid", ![a].doc = r]
       \/ /\ act[a].out = "paid" /\ r.group # NoGroup
          /\ act' = [act EXCEPT ![a].pc = "findDebit", ![a].doc = r, ![a].grp = r.group]
       \/ /\ act[a].out = "paid" /\ r.group = NoGroup
          /\ Goto(a, "end")
       \/ "readError" \in Env /\ Goto(a, "end")
    /\ UNCHANGED <<row, job, claims, routes, money>>

\* The not-paid effect, through releaseFailedApiExecutionToPending.
SaveNotPaid(a) ==
    LET r == row[act[a].tx]
        doc == act[a].doc
    IN
    /\ At(a, "saveNotPaid")
    /\ TryWrite(a, [r EXCEPT !.status = SetStatus(r, doc, "pending"),
                             !.group = UnsetGroup(r, doc),
                             !.data = [doc.data EXCEPT !.att = 0, !.result = "rejected",
                                         !.unres = FALSE, !.outcome = "notpaid"]],
                "end", "end")
    /\ UNCHANGED <<job, claims, routes, money>>

EndRequest(a) ==
    /\ At(a, "end")
    /\ act' = [act EXCEPT ![a] = Idle]
    /\ UNCHANGED <<row, job, claims, routes, money>>

------------------------------------------------------------------------------
(* Human executors.  Accepting, cancelling and returning are conditional   *)
(* updates (cancelling in a transaction with the refund), completing is a  *)
(* save conditioned on the accepted status.                                *)

StaffSee(r) == r.group \in ManualGroups \/ r.mgr

\* acceptExecutorTask does not look at the provider hold.
AcceptTask(t) ==
    /\ PeopleMayAct(t)
    /\ row[t].status \in {"pending", "processing"}
    /\ StaffSee(row[t])
    /\ row' = [row EXCEPT ![t].status = "accepted", ![t].op = TRUE]
    /\ UNCHANGED <<job, act, claims, routes, money>>

\* The executor has paid the recipient and uploads the proof.
CompleteTask(t) ==
    /\ PeopleMayAct(t)
    /\ row[t].status = "accepted" /\ row[t].op /\ StaffSee(row[t])
    /\ row' = [row EXCEPT ![t].status = "completed", ![t].v = @ + 1]
    /\ handed' = [handed EXCEPT ![t] = @ + 1]
    /\ UNCHANGED <<job, act, claims, routes, paid, debits, refunded>>

CancelTask(t) ==
    /\ PeopleMayAct(t)
    /\ row[t].status = "accepted" /\ row[t].op
    /\ ~ProviderMoneyHold(row[t])
    /\ row' = [row EXCEPT ![t].status = "rejected"]
    /\ refunded' = [refunded EXCEPT ![t] = "open"]
    /\ UNCHANGED <<job, act, claims, routes, paid, handed, debits>>

ReturnTask(t) ==
    /\ PeopleMayAct(t)
    /\ row[t].status = "accepted" /\ row[t].op
    /\ ~ProviderMoneyHold(row[t])
    /\ row' = [row EXCEPT ![t].status = "pending", ![t].group = NoGroup,
                          ![t].op = FALSE, ![t].mgr = FALSE]
    /\ UNCHANGED <<job, act, claims, routes, money>>

------------------------------------------------------------------------------
WorkerStep(w) ==
    \/ Guard(w) \/ Read(w) \/ Claim(w) \/ Pay(w) \/ Release(w)
    \/ SaveRelease(w) \/ SaveMismatch(w) \/ SaveHold(w)
    \/ FindDebit(w) \/ PostDebit(w) \/ SaveDone(w, "exc")
    \/ Exc(w) \/ ExcSave(w) \/ Mark(w) \/ MarkCas(w) \/ EndJob(w)

AdminStep(a) ==
    \/ RouteCas(a) \/ Enqueue(a) \/ PullSave(a)
    \/ ResClaim(a) \/ ResEffect(a) \/ ResRead(a) \/ SaveNotPaid(a)
    \/ FindDebit(a) \/ PostDebit(a) \/ SaveDone(a, "end")
    \/ Mark(a) \/ MarkCas(a) \/ EndRequest(a)

AdminRequest(a, t) ==
    \/ \E g \in Groups : Route(a, t, g)
    \/ Pull(a, t)
    \/ \E o \in {"paid", "notpaid"} : Resolve(a, t, o)

HumanTask(t) == AcceptTask(t) \/ CompleteTask(t) \/ CancelTask(t) \/ ReturnTask(t)

Next ==
    \/ \E w \in Workers : WorkerStep(w) \/ Crash(w)
    \/ \E w \in Workers, t \in Tx, g \in ApiGroups : StartJob(w, t, g)
    \/ \E t \in Tx, g \in ApiGroups : Redeliver(t, g)
    \/ \E a \in Admins : AdminStep(a) \/ RequestDies(a)
    \/ \E a \in Admins, t \in Tx : AdminRequest(a, t)
    \/ \E t \in Tx : Reverse(t) \/ HumanTask(t)

Spec == Init /\ [][Next]_vars

\* A worker keeps running its job and a server its request (axios bounds every
\* provider call).  A waiting job is eventually started: the requests that, outside
\* adminRace, keep it from starting while they run do not do so for ever.
Fairness ==
    /\ \A w \in Workers : WF_vars(WorkerStep(w))
    /\ \A a \in Admins : WF_vars(AdminStep(a))
    /\ \A t \in Tx, g \in ApiGroups : SF_vars(\E w \in Workers : StartJob(w, t, g))
FairSpec == Spec /\ Fairness

------------------------------------------------------------------------------
(* Properties.                                                             *)

\* A transfer reaches its recipient at most once, whether the provider pays it
\* or a human executor: the point of claimProviderDispatch and its guards.
OnePayout == \A t \in Tx : paid[t] + handed[t] <= 1

\* A customer is refunded for a transfer that was not completed only if nobody
\* paid it: refundBlockedByUnresolvedProvider in every cancel and reverse path.
RefundOnlyUnpaid == \A t \in Tx : refunded[t] = "open" => paid[t] + handed[t] = 0

\* completeApiTransactionWithReference posts at most one executor debit, and
\* only for a Payment the provider executed.
OneDebit ==
    \A t \in Tx, g, h \in Groups :
        /\ debits[t][g] <= 1
        /\ debits[t][g] # 0 => paid[t] = 1
        /\ debits[t][g] # 0 /\ debits[t][h] # 0 => g = h

\* Once the provider has paid, a row that is still open is held: it cannot be
\* refunded, pulled, routed or paid again (providerMoneyHold).
PaidRowsHeld ==
    \A t \in Tx : paid[t] > 0 /\ row[t].status \in {"pending", "processing", "accepted"}
                    => ProviderMoneyHold(row[t])

\* A completed transfer was paid out by somebody.
CompletedMeansPaidOut ==
    \A t \in Tx : row[t].status = "completed" => paid[t] + handed[t] > 0

\* A completed transfer is only ever reversed by an administrator; no step of
\* the queue, of a human executor or of another request reopens it.
CompletedStays ==
    [][\A t \in Tx : row[t].status = "completed" =>
          row'[t].status \in {"completed", "cancelled_by_admin"}]_vars

\* A cancelled or rejected transfer stays so: its customer has been refunded.
RefundedStays ==
    [][\A t \in Tx : refunded[t] = "open" => row'[t].status = row[t].status]_vars

\* A row flagged as unresolved leaves "processing" only by the administrator's
\* evidence (providerResolutionOutcome) or when the answer to its own Payment
\* still arrives and completes it.
FlaggedNeedsEvidence ==
    [][\A t \in Tx : row[t].data.unres /\ row'[t].status # row[t].status =>
          \/ row[t].data.outcome # "none"
          \/ row'[t].status = "completed" /\ row'[t].data.result = "accepted"]_vars

\* A transfer routed to an API executor, whose job exists, does not stay in the
\* worker's hands: it is completed, back in the pool, or flagged for the
\* administrator, and never left "processing" with nobody working on it.
Queued(t, g) == /\ row[t].status = "processing" /\ row[t].group = g
                /\ job[t][g].st # "none"
Parked(t) == \/ row[t].status # "processing" \/ row[t].group \notin ApiGroups
             \/ row[t].data.unres \/ row[t].data.outcome # "none"
RoutedTransfersSettle ==
    \A t \in Tx, g \in ApiGroups : Queued(t, g) ~> Parked(t)
==============================================================================
