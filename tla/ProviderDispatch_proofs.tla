----------------------- MODULE ProviderDispatch_proofs -----------------------
(***************************************************************************)
(* Proofs about the provider dispatch.  Type correctness is proved for     *)
(* every environment.  It is strengthened by Placed: an actor that is not  *)
(* idle is on a transfer, and a worker on an API group.                    *)
(***************************************************************************)
EXTENDS ProviderDispatch, TLAPS

PCs == {"idle"} \cup WorkerPcs \cup AdminPcs \cup SharedPcs

Action == [pc : PCs, tx : Tx \cup {NoTx}, grp : Groups \cup {NoGroup},
           doc : Row, att : Nat, out : Outs]

\* A reference is held, an outcome is confirmed.
OutFits(pc, out) == /\ pc = "saveHold" => out \in {"none", "full"}
                    /\ pc = "resClaim" => out \in {"paid", "notpaid"}

PlainPcs == PCs \ {"idle", "saveHold", "resClaim"}

Placed(a, x) ==
    /\ x \in Action
    /\ x.pc = "idle" <=> x.tx = NoTx
    /\ a \in Workers /\ x.pc # "idle" => x.grp \in ApiGroups
    /\ OutFits(x.pc, x.out)

RowTyped == row \in [Tx -> Row]
JobTyped == job \in [Tx -> [ApiGroups -> Job]]
ActTyped == act \in [Actors -> Action] /\ \A a \in Actors : Placed(a, act[a])
CountersTyped ==
    /\ claims \in [Tx -> Nat]
    /\ routes \in [Tx -> 0..MaxRoutes]
    /\ paid \in [Tx -> Nat]
    /\ handed \in [Tx -> Nat]
    /\ debits \in [Tx -> [Groups -> Nat]]
    /\ refunded \in [Tx -> {"no", "open", "settled"}]

TypeInv == RowTyped /\ JobTyped /\ ActTyped /\ CountersTyped

LEMMA TypeInvTypeOK == TypeInv => TypeOK
BY DEF TypeInv, RowTyped, JobTyped, ActTyped, CountersTyped, TypeOK, Action, PCs

------------------------------------------------------------------------------
(* Records of rows and actors.                                             *)

LEMMA NewRowTyped == NewRow \in Row
BY DEF NewRow, NoData, Row, Statuses, ApiResultData

LEMMA RoutedTyped ==
    ASSUME NEW r \in Row, NEW g \in Groups
    PROVE  RoutedTo(r, g) \in Row
BY DEF RoutedTo, Row, Statuses

LEMMA SetDataTyped ==
    ASSUME NEW r \in Row, NEW d \in ApiResultData
    PROVE  [r EXCEPT !.data = d] \in Row
BY DEF Row

LEMMA FlaggedTyped ==
    ASSUME NEW r \in Row
    PROVE  Flagged(r) \in Row
<1>1. r.data \in ApiResultData
  BY DEF Row
<1>2. [r.data EXCEPT !.unres = TRUE] \in ApiResultData
  BY <1>1 DEF ApiResultData
<1>3. Flagged(r) = [r EXCEPT !.data = [r.data EXCEPT !.unres = TRUE]]
  BY DEF Flagged, Row
<1> QED
  BY <1>2, <1>3, SetDataTyped

LEMMA WithAttemptTyped ==
    ASSUME NEW r \in Row, NEW n \in Nat
    PROVE  WithAttempt(r, n) \in Row
<1>1. r.data \in ApiResultData
  BY DEF Row
<1>2. [r.data EXCEPT !.att = n] \in ApiResultData
  BY <1>1 DEF ApiResultData
<1>3. WithAttempt(r, n) = [r EXCEPT !.data = [r.data EXCEPT !.att = n]]
  BY DEF WithAttempt, Row
<1> QED
  BY <1>2, <1>3, SetDataTyped

LEMMA IdlePlaced == \A a \in Actors : Placed(a, Idle)
BY NewRowTyped DEF Placed, OutFits, Action, Idle, PCs, Outs

\* An actor on a row, in terms of its parts.
LEMMA OnRow ==
    ASSUME TypeInv, NEW a \in Actors, ~At(a, "idle")
    PROVE  /\ act[a] \in Action
           /\ act[a].tx \in Tx
           /\ act[a].doc \in Row
           /\ act[a].att \in Nat
           /\ act[a].out \in Outs
           /\ act[a].grp \in Groups \cup {NoGroup}
           /\ a \in Workers => act[a].grp \in ApiGroups
           /\ row[act[a].tx] \in Row
           /\ OutFits(act[a].pc, act[a].out)
BY DEF TypeInv, ActTyped, RowTyped, Placed, Action, At

LEMMA SetActor ==
    ASSUME ActTyped, NEW a \in Actors, NEW x, Placed(a, x), act' = [act EXCEPT ![a] = x]
    PROVE  ActTyped'
BY DEF ActTyped, Placed

LEMMA GotoTyped ==
    ASSUME ActTyped, NEW a \in Actors, ~At(a, "idle"),
           NEW pc \in PlainPcs, Goto(a, pc)
    PROVE  ActTyped'
<1> DEFINE x == [act[a] EXCEPT !.pc = pc]
<1>1. act' = [act EXCEPT ![a] = x]
  BY DEF Goto
<1>2. Placed(a, x)
  BY DEF ActTyped, Placed, OutFits, PlainPcs, Action, At
<1> HIDE DEF x
<1> QED
  BY <1>1, <1>2, SetActor

\* What the steps that also change other fields do to the actor's record.
LEMMA MoveTyped ==
    ASSUME ActTyped, NEW a \in Actors, ~At(a, "idle"),
           NEW pc \in PlainPcs, NEW g \in Groups \cup {NoGroup},
           a \in Workers => g \in ApiGroups,
           NEW d \in Row, NEW n \in Nat, NEW o \in Outs,
           act' = [act EXCEPT ![a] = [@ EXCEPT !.pc = pc, !.grp = g, !.doc = d,
                                               !.att = n, !.out = o]]
    PROVE  ActTyped'
<1> DEFINE x == [act[a] EXCEPT !.pc = pc, !.grp = g, !.doc = d, !.att = n, !.out = o]
<1>1. act' = [act EXCEPT ![a] = x]
  OBVIOUS
<1>2. Placed(a, x)
  BY DEF ActTyped, Placed, OutFits, PlainPcs, Action, At
<1> HIDE DEF x
<1> QED
  BY <1>1, <1>2, SetActor

LEMMA GotoWithTyped ==
    ASSUME ActTyped, NEW a \in Actors, ~At(a, "idle"),
           NEW pc \in PCs \ {"idle"}, NEW o \in Outs, OutFits(pc, o), GotoWith(a, pc, o)
    PROVE  ActTyped'
<1> DEFINE x == [act[a] EXCEPT !.pc = pc, !.out = o]
<1>1. act' = [act EXCEPT ![a] = x]
  BY DEF GotoWith, ActTyped
<1>2. Placed(a, x)
  BY DEF ActTyped, Placed, OutFits, PlainPcs, Action, At
<1> HIDE DEF x
<1> QED
  BY <1>1, <1>2, SetActor

LEMMA BeginTyped ==
    ASSUME ActTyped, NEW a \in Actors, NEW pc \in PCs \ {"idle"}, NEW t \in Tx,
           NEW g \in Groups \cup {NoGroup}, a \in Workers => g \in ApiGroups,
           NEW d \in Row, NEW o \in Outs, OutFits(pc, o), Begin(a, pc, t, g, d, o)
    PROVE  ActTyped'
<1> DEFINE x == [pc |-> pc, tx |-> t, grp |-> g, doc |-> d, att |-> 0, out |-> o]
<1>1. act' = [act EXCEPT ![a] = x]
  BY DEF Begin
<1>2. Placed(a, x)
  BY ActorsAssumption DEF Placed, OutFits, Action
<1> HIDE DEF x
<1> QED
  BY <1>1, <1>2, SetActor

LEMMA RestTyped ==
    ASSUME ActTyped, NEW a \in Actors, act' = [act EXCEPT ![a] = Idle]
    PROVE  ActTyped'
BY IdlePlaced, SetActor

LEMMA TryWriteTyped ==
    ASSUME TypeInv, NEW a \in Actors, ~At(a, "idle"), NEW r \in Row,
           NEW ok \in PlainPcs, NEW err \in PlainPcs, TryWrite(a, r, ok, err)
    PROVE  RowTyped' /\ ActTyped'
<1>1. RowTyped'
  BY DEF TryWrite, TypeInv, RowTyped
<1>2. ActTyped'
  BY GotoTyped DEF TryWrite, TypeInv
<1> QED
  BY <1>1, <1>2

------------------------------------------------------------------------------
(* The steps of a worker.                                                  *)

LEMMA StartJobTyped ==
    ASSUME TypeInv, NEW w \in Workers, NEW t \in Tx, NEW g \in ApiGroups, StartJob(w, t, g)
    PROVE  TypeInv'
<1>1. ActTyped'
  BY BeginTyped, NewRowTyped DEF StartJob, TypeInv, Actors, Groups, PlainPcs, PCs, WorkerPcs, Outs, OutFits
<1>2. JobTyped'
  BY DEF StartJob, TypeInv, JobTyped, Job
<1> QED
  BY <1>1, <1>2 DEF StartJob, TypeInv, RowTyped, CountersTyped, money

LEMMA GuardTyped ==
    ASSUME TypeInv, NEW w \in Workers, Guard(w)
    PROVE  TypeInv'
<1>1. ActTyped'
  BY GotoTyped, GotoWithTyped
  DEF Guard, TypeInv, At, Actors, PlainPcs, PCs, WorkerPcs, SharedPcs, Outs, OutFits
<1> QED
  BY <1>1 DEF Guard, TypeInv, RowTyped, JobTyped, CountersTyped, money

LEMMA ReadTyped ==
    ASSUME TypeInv, NEW w \in Workers, Read(w)
    PROVE  TypeInv'
<1>0. w \in Actors /\ ~At(w, "idle") /\ ActTyped
  BY DEF Read, At, Actors, TypeInv
<1>1. ActTyped'
  <2>1. ASSUME NEW pc \in {"claim", "saveRelease", "saveMismatch"},
               act' = [act EXCEPT ![w].pc = pc, ![w].doc = row[act[w].tx]]
        PROVE  ActTyped'
    <3>1. act' = [act EXCEPT ![w] = [@ EXCEPT !.pc = pc, !.grp = act[w].grp,
                    !.doc = row[act[w].tx], !.att = act[w].att, !.out = act[w].out]]
      BY <1>0, <2>1 DEF ActTyped, Action
    <3> QED
      BY <1>0, <3>1, OnRow, MoveTyped DEF PlainPcs, PCs, WorkerPcs
  <2> QED
    BY <1>0, <2>1, GotoTyped, GotoWithTyped DEF Read, PlainPcs, PCs, WorkerPcs, SharedPcs, Outs, OutFits
<1> QED
  BY <1>1 DEF Read, TypeInv, RowTyped, JobTyped, CountersTyped, money

LEMMA ClaimTyped ==
    ASSUME TypeInv, NEW w \in Workers, Claim(w)
    PROVE  TypeInv'
<1> DEFINE t == act[w].tx
           n == claims[t] + 1
<1>0. w \in Actors /\ ~At(w, "idle") /\ ActTyped
  BY DEF Claim, At, Actors, TypeInv
<1>1. t \in Tx /\ n \in Nat /\ row[t] \in Row /\ act[w].doc \in Row
  BY <1>0, OnRow DEF TypeInv, CountersTyped
<1>2. WithAttempt(row[t], n) \in Row /\ WithAttempt(act[w].doc, n) \in Row
  BY <1>1, WithAttemptTyped
<1>3. RowTyped' /\ claims' \in [Tx -> Nat]
  BY <1>1, <1>2 DEF Claim, TypeInv, RowTyped, CountersTyped
<1>4. ActTyped'
  <2>1. ASSUME act' = [act EXCEPT ![w].pc = "pay", ![w].att = n,
                                  ![w].doc = WithAttempt(@, n)]
        PROVE  ActTyped'
    <3>1. act' = [act EXCEPT ![w] = [@ EXCEPT !.pc = "pay", !.grp = act[w].grp,
                    !.doc = WithAttempt(act[w].doc, n), !.att = n, !.out = act[w].out]]
      BY <1>0, <2>1 DEF ActTyped, Action
    <3> QED
      BY <1>0, <1>1, <1>2, <3>1, OnRow, MoveTyped DEF PlainPcs, PCs, WorkerPcs
  <2>2. ASSUME GotoWith(w, "mark", "try")
        PROVE  ActTyped'
    BY <1>0, <2>2, GotoWithTyped DEF PlainPcs, PCs, SharedPcs, Outs, OutFits
  <2> QED
    BY <2>1, <2>2 DEF Claim
<1> QED
  BY <1>3, <1>4 DEF Claim, TypeInv, JobTyped, CountersTyped, money

LEMMA PayTyped ==
    ASSUME TypeInv, NEW w \in Workers, Pay(w)
    PROVE  TypeInv'
<1>1. ActTyped'
  BY GotoTyped, GotoWithTyped
  DEF Pay, TypeInv, At, Actors, PlainPcs, PCs, WorkerPcs, SharedPcs, Outs, OutFits
<1>2. paid' \in [Tx -> Nat]
  BY DEF Pay, TypeInv, CountersTyped
<1> QED
  BY <1>1, <1>2 DEF Pay, TypeInv, RowTyped, JobTyped, CountersTyped

LEMMA ReleaseTyped ==
    ASSUME TypeInv, NEW w \in Workers, Release(w)
    PROVE  TypeInv'
<1> DEFINE t == act[w].tx
<1>0. w \in Actors /\ ~At(w, "idle") /\ ActTyped
  BY DEF Release, At, Actors, TypeInv
<1>1. t \in Tx /\ row[t] \in Row /\ act[w].doc \in Row
  BY <1>0, OnRow
<1>2. WithAttempt(row[t], 0) \in Row /\ WithAttempt(act[w].doc, 0) \in Row
  BY <1>1, WithAttemptTyped
<1>3. RowTyped'
  BY <1>1, <1>2 DEF Release, TypeInv, RowTyped
<1>4. ActTyped'
  <2>1. ASSUME NEW pc \in {"saveRelease", "mark"},
               act' = [act EXCEPT ![w].pc = pc, ![w].out = "try",
                                  ![w].doc = WithAttempt(@, 0)]
        PROVE  ActTyped'
    <3>1. act' = [act EXCEPT ![w] = [@ EXCEPT !.pc = pc, !.grp = act[w].grp,
                    !.doc = WithAttempt(act[w].doc, 0), !.att = act[w].att, !.out = "try"]]
      BY <1>0, <2>1 DEF ActTyped, Action
    <3> QED
      BY ZenonT(30), <1>0, <1>1, <1>2, <3>1, OnRow, MoveTyped DEF PlainPcs, PCs, WorkerPcs, SharedPcs, Outs
  <2> QED
    BY <2>1 DEF Release
<1> QED
  BY <1>3, <1>4 DEF Release, TypeInv, JobTyped, CountersTyped, money

LEMMA UnsetGroupTyped ==
    ASSUME NEW r \in Row, NEW d \in Row
    PROVE  UnsetGroup(r, d) \in Groups \cup {NoGroup}
BY DEF UnsetGroup, Row

LEMMA SetStatusTyped ==
    ASSUME NEW r \in Row, NEW d \in Row, NEW st \in Statuses
    PROVE  SetStatus(r, d, st) \in Statuses
BY DEF SetStatus, Row

\* The rows that the saves write.
LEMMA PoolSaveTyped ==
    ASSUME NEW r \in Row, NEW s \in Statuses, NEW g \in Groups \cup {NoGroup},
           NEW d \in ApiResultData
    PROVE  [r EXCEPT !.status = s, !.group = g, !.data = d] \in Row
BY DEF Row

LEMMA ManagerSaveTyped ==
    ASSUME NEW r \in Row, NEW s \in Statuses, NEW g \in Groups \cup {NoGroup},
           NEW m \in BOOLEAN
    PROVE  [r EXCEPT !.status = s, !.group = g, !.mgr = m] \in Row
BY DEF Row

LEMMA PullSaveTyped ==
    ASSUME NEW r \in Row, NEW s \in Statuses, NEW g \in Groups \cup {NoGroup},
           NEW o \in BOOLEAN, NEW m \in BOOLEAN
    PROVE  [r EXCEPT !.status = s, !.group = g, !.op = o, !.mgr = m] \in Row
BY DEF Row

LEMMA StatusSaveTyped ==
    ASSUME NEW r \in Row, NEW s \in Statuses, NEW g \in Groups \cup {NoGroup},
           NEW d \in ApiResultData, NEW n \in Nat
    PROVE  /\ [r EXCEPT !.status = s, !.group = g] \in Row
           /\ [r EXCEPT !.status = s, !.data = d] \in Row
           /\ [r EXCEPT !.status = s] \in Row
           /\ [r EXCEPT !.v = n] \in Row
BY DEF Row

LEMMA SaveReleaseTyped ==
    ASSUME TypeInv, NEW w \in Workers, SaveRelease(w)
    PROVE  TypeInv'
<1> DEFINE r == row[act[w].tx]
           doc == act[w].doc
           s == SetStatus(r, doc, "pending")
           g == UnsetGroup(r, doc)
           d == IF act[w].att # 0 THEN doc.data ELSE r.data
           new == [r EXCEPT !.status = s, !.group = g, !.data = d]
<1>0. w \in Actors /\ ~At(w, "idle")
  BY DEF SaveRelease, At, Actors
<1>1. r \in Row /\ doc \in Row
  BY <1>0, OnRow
<1>2. s \in Statuses /\ g \in Groups \cup {NoGroup} /\ d \in ApiResultData
  BY <1>1, UnsetGroupTyped, SetStatusTyped DEF Row, Statuses
<1>3. new \in Row
  <2> HIDE DEF s, g, d, r
  <2> QED  BY <1>1, <1>2, PoolSaveTyped
<1>4. TryWrite(w, new, "end", "exc")
  BY DEF SaveRelease
<1>5. RowTyped' /\ ActTyped'
  <2> HIDE DEF new
  <2> QED  BY <1>0, <1>3, <1>4, TryWriteTyped DEF PlainPcs, PCs, WorkerPcs, SharedPcs
<1> QED
  BY <1>5 DEF SaveRelease, TypeInv, JobTyped, CountersTyped, money

LEMMA SaveMismatchTyped ==
    ASSUME TypeInv, NEW w \in Workers, SaveMismatch(w)
    PROVE  TypeInv'
<1> DEFINE r == row[act[w].tx]
           doc == act[w].doc
           s == SetStatus(r, doc, "pending")
           g == UnsetGroup(r, doc)
           m == IF doc.mgr THEN FALSE ELSE r.mgr
           new == [r EXCEPT !.status = s, !.group = g, !.mgr = m]
<1>0. w \in Actors /\ ~At(w, "idle")
  BY DEF SaveMismatch, At, Actors
<1>1. r \in Row /\ doc \in Row
  BY <1>0, OnRow
<1>2. s \in Statuses /\ g \in Groups \cup {NoGroup} /\ m \in BOOLEAN
  BY <1>1, UnsetGroupTyped, SetStatusTyped DEF Row, Statuses
<1>3. new \in Row
  <2> HIDE DEF s, g, m, r
  <2> QED  BY <1>1, <1>2, ManagerSaveTyped
<1>4. TryWrite(w, new, "end", "exc")
  BY DEF SaveMismatch
<1>5. RowTyped' /\ ActTyped'
  <2> HIDE DEF new
  <2> QED  BY <1>0, <1>3, <1>4, TryWriteTyped DEF PlainPcs, PCs, WorkerPcs, SharedPcs
<1> QED
  BY <1>5 DEF SaveMismatch, TypeInv, JobTyped, CountersTyped, money

LEMMA SaveHoldTyped ==
    ASSUME TypeInv, NEW w \in Workers, SaveHold(w)
    PROVE  TypeInv'
<1> DEFINE r == row[act[w].tx]
           d == [act[w].doc.data EXCEPT !.result = "pending_reference",
                                        !.unres = TRUE, !.ref = act[w].out]
           new == [r EXCEPT !.data = d]
<1>0. w \in Actors /\ ~At(w, "idle")
  BY DEF SaveHold, At, Actors
<1>1. r \in Row /\ act[w].doc.data \in ApiResultData
  BY <1>0, OnRow DEF Row
<1>2. d \in ApiResultData
  <2>1. act[w].out \in {"none", "full"}
    BY <1>0, OnRow DEF SaveHold, At, OutFits
  <2> QED  BY <1>1, <2>1 DEF ApiResultData
<1>3. new \in Row
  <2> HIDE DEF d, r
  <2> QED  BY <1>1, <1>2, SetDataTyped
<1>4. TryWrite(w, new, "end", "exc")
  BY DEF SaveHold
<1>5. RowTyped' /\ ActTyped'
  <2> HIDE DEF new
  <2> QED  BY <1>0, <1>3, <1>4, TryWriteTyped DEF PlainPcs, PCs, WorkerPcs, SharedPcs
<1> QED
  BY <1>5 DEF SaveHold, TypeInv, JobTyped, CountersTyped, money

LEMMA FindDebitTyped ==
    ASSUME TypeInv, NEW a \in Actors, FindDebit(a)
    PROVE  TypeInv'
<1>1. ActTyped'
  BY GotoTyped DEF FindDebit, TypeInv, At, PlainPcs, PCs, WorkerPcs, SharedPcs
<1> QED
  BY <1>1 DEF FindDebit, TypeInv, RowTyped, JobTyped, CountersTyped, money

LEMMA PostDebitTyped ==
    ASSUME TypeInv, NEW a \in Actors, PostDebit(a)
    PROVE  TypeInv'
<1>1. ActTyped'
  BY GotoTyped DEF PostDebit, TypeInv, At, PlainPcs, PCs, WorkerPcs
<1> DEFINE t == act[a].tx
           g == act[a].grp
<1>2. debits \in [Tx -> [Groups -> Nat]]
      /\ (debits' = [debits EXCEPT ![t][g] = debits[t][g] + 1] \/ debits' = debits)
  BY DEF PostDebit, TypeInv, CountersTyped
<1>3. debits' \in [Tx -> [Groups -> Nat]]
  <2> HIDE DEF t, g
  <2>1. CASE debits' = [debits EXCEPT ![t][g] = debits[t][g] + 1]
    <3>1. \A h \in Groups : t \in Tx => debits[t][h] \in Nat
      BY <1>2
    <3>2. t \in Tx => [debits[t] EXCEPT ![g] = debits[t][g] + 1] \in [Groups -> Nat]
      <4>1. CASE g \in Groups /\ t \in Tx
        BY <1>2, <3>1, <4>1
      <4>2. CASE g \notin Groups /\ t \in Tx
        BY <1>2, <4>2
      <4> QED  BY <4>1, <4>2
    <3>3. debits' = [debits EXCEPT ![t] = [debits[t] EXCEPT ![g] = debits[t][g] + 1]]
      BY <2>1
    <3> QED  BY <1>2, <3>2, <3>3
  <2>2. CASE debits' = debits
    BY <1>2, <2>2
  <2> QED  BY <1>2, <2>1, <2>2
<1> QED
  BY <1>1, <1>3 DEF PostDebit, TypeInv, RowTyped, JobTyped, CountersTyped

LEMMA SaveDoneTyped ==
    ASSUME TypeInv, NEW a \in Actors, NEW err \in {"exc", "end"}, SaveDone(a, err)
    PROVE  TypeInv'
<1> DEFINE r == row[act[a].tx]
           doc == act[a].doc
           s == SetStatus(r, doc, "completed")
           new(ref, outcome) ==
             [r EXCEPT !.status = s,
                       !.data = [doc.data EXCEPT !.result = "accepted",
                                   !.unres = FALSE, !.ref = ref, !.outcome = outcome]]
<1>0. a \in Actors /\ ~At(a, "idle") /\ ActTyped
  BY DEF SaveDone, At, TypeInv
<1>1. r \in Row /\ doc \in Row /\ doc.data \in ApiResultData /\ s \in Statuses
  BY <1>0, OnRow, SetStatusTyped DEF Row, Statuses
<1>2. ASSUME NEW ref \in {"masked", "full"}, NEW o \in {"none", "paid", "notpaid"}
      PROVE  new(ref, o) \in Row
  <2> DEFINE d == [doc.data EXCEPT !.result = "accepted", !.unres = FALSE,
                                   !.ref = ref, !.outcome = o]
  <2>1. d \in ApiResultData
    BY <1>1 DEF ApiResultData
  <2> HIDE DEF d, r, s
  <2> QED  BY <1>1, <2>1, StatusSaveTyped, BoundAssumption DEF new, d
<1>3. doc.data.outcome \in {"none", "paid", "notpaid"}
  BY <1>1 DEF ApiResultData
<1>4. PICK d \in Row :
        \/ TryWrite(a, [d EXCEPT !.v = @ + 1], "end", err)
        \/ Goto(a, err) /\ UNCHANGED row
        \/ TryWrite(a, d, "end", err)
  <2> HIDE DEF r, s
  <2> QED  BY <1>2, <1>3 DEF SaveDone, new, r, s
<1>5. [d EXCEPT !.v = @ + 1] \in Row
  <2>1. d.v + 1 \in Nat
    BY DEF Row
  <2> QED  BY <2>1, StatusSaveTyped DEF Row
<1>6. RowTyped' /\ ActTyped'
  <2>1. "end" \in PlainPcs /\ err \in PlainPcs
    BY DEF PlainPcs, PCs, WorkerPcs, SharedPcs
  <2>2. CASE TryWrite(a, [d EXCEPT !.v = @ + 1], "end", err)
    <3> DEFINE e == [d EXCEPT !.v = @ + 1]
    <3>1. e \in Row /\ TryWrite(a, e, "end", err)
      BY <1>5, <2>2
    <3> HIDE DEF e
    <3> QED  BY <1>0, <2>1, <3>1, TryWriteTyped
  <2>3. CASE Goto(a, err) /\ UNCHANGED row
    BY <1>0, <2>1, <2>3, GotoTyped DEF TypeInv, RowTyped
  <2>4. CASE TryWrite(a, d, "end", err)
    BY <1>0, <2>1, <2>4, TryWriteTyped
  <2> QED  BY <1>4, <2>2, <2>3, <2>4
<1> QED
  BY <1>6 DEF SaveDone, TypeInv, JobTyped, CountersTyped, money

LEMMA ExcTyped ==
    ASSUME TypeInv, NEW w \in Workers, Exc(w)
    PROVE  TypeInv'
<1>0. w \in Actors /\ ~At(w, "idle") /\ ActTyped
  BY DEF Exc, At, Actors, TypeInv
<1>1. ActTyped'
  <2>1. ASSUME act' = [act EXCEPT ![w].pc = "excSave", ![w].doc = row[act[w].tx]]
        PROVE  ActTyped'
    <3>1. act' = [act EXCEPT ![w] = [@ EXCEPT !.pc = "excSave", !.grp = act[w].grp,
                    !.doc = row[act[w].tx], !.att = act[w].att, !.out = act[w].out]]
      BY <1>0, <2>1 DEF ActTyped, Action
    <3> QED
      BY <1>0, <3>1, OnRow, MoveTyped DEF PlainPcs, PCs, WorkerPcs
  <2> QED
    BY <1>0, <2>1, GotoTyped, GotoWithTyped
    DEF Exc, PlainPcs, PCs, WorkerPcs, SharedPcs, Outs, OutFits
<1> QED
  BY <1>1 DEF Exc, TypeInv, RowTyped, JobTyped, CountersTyped, money

LEMMA ExcSaveTyped ==
    ASSUME TypeInv, NEW w \in Workers, ExcSave(w)
    PROVE  TypeInv'
<1> DEFINE r == row[act[w].tx]
           doc == act[w].doc
           s == SetStatus(r, doc, "pending")
           g == UnsetGroup(r, doc)
           new == [r EXCEPT !.status = s, !.group = g]
<1>0. w \in Actors /\ ~At(w, "idle")
  BY DEF ExcSave, At, Actors
<1>1. r \in Row /\ doc \in Row
  BY <1>0, OnRow
<1>2. s \in Statuses /\ g \in Groups \cup {NoGroup} /\ r.data \in ApiResultData
  BY <1>1, UnsetGroupTyped, SetStatusTyped DEF Row, Statuses
<1>3. new \in Row
  <2> HIDE DEF s, g, r
  <2> QED  BY <1>1, <1>2, StatusSaveTyped, BoundAssumption
<1>4. TryWrite(w, new, "end", "end")
  BY DEF ExcSave
<1>5. RowTyped' /\ ActTyped'
  <2> HIDE DEF new
  <2> QED  BY <1>0, <1>3, <1>4, TryWriteTyped DEF PlainPcs, PCs, SharedPcs
<1> QED
  BY <1>5 DEF ExcSave, TypeInv, JobTyped, CountersTyped, money

\* What the ends of a job leave of it.
LEMMA JobLeft ==
    ASSUME JobTyped, NEW t, NEW g, NEW j \in Job, job' = [job EXCEPT ![t][g] = j]
    PROVE  JobTyped'
BY DEF JobTyped

LEMMA NoJobTyped == NoJob \in Job
BY DEF NoJob, Job

LEMMA EndJobTyped ==
    ASSUME TypeInv, NEW w \in Workers, EndJob(w)
    PROVE  TypeInv'
<1>1. ActTyped'
  BY RestTyped DEF EndJob, TypeInv, Actors
<1>2. JobTyped'
  BY JobLeft, NoJobTyped DEF EndJob, TypeInv, JobTyped
<1> QED
  BY <1>1, <1>2 DEF EndJob, TypeInv, RowTyped, CountersTyped, money

------------------------------------------------------------------------------
(* Marking, and the failures of processes.                                 *)

LEMMA JobThrowsTyped ==
    ASSUME TypeInv, NEW w \in Workers, ~At(w, "idle"), JobThrows(w)
    PROVE  ActTyped' /\ JobTyped'
<1> DEFINE t == act[w].tx
           g == act[w].grp
           retried == [st |-> "waiting", by |-> NoWorker, stalled |-> job[t][g].stalled]
<1>1. t \in Tx /\ g \in ApiGroups
  BY OnRow DEF Actors
<1>2. retried \in Job
  BY <1>1 DEF TypeInv, JobTyped, Job
<1>3. JobTyped'
  <2> HIDE DEF retried
  <2> QED  BY <1>2, NoJobTyped, JobLeft DEF JobThrows, TypeInv, JobTyped, retried
<1>4. ActTyped'
  BY RestTyped DEF JobThrows, TypeInv, Actors
<1> QED
  BY <1>3, <1>4

LEMMA MarkThrowsTyped ==
    ASSUME TypeInv, NEW a \in Actors, ~At(a, "idle"), MarkThrows(a)
    PROVE  ActTyped' /\ JobTyped'
<1>1. ASSUME NEW pc \in {"exc", "end"}, Goto(a, pc), UNCHANGED job
      PROVE  ActTyped' /\ JobTyped'
  BY <1>1, GotoTyped DEF TypeInv, JobTyped, PlainPcs, PCs, WorkerPcs, SharedPcs
<1>2. ASSUME a \in Workers, JobThrows(a)
      PROVE  ActTyped' /\ JobTyped'
  BY <1>2, JobThrowsTyped
<1> QED
  BY <1>1, <1>2 DEF MarkThrows

LEMMA MarkTyped ==
    ASSUME TypeInv, NEW a \in Actors, Mark(a)
    PROVE  TypeInv'
<1>0. ~At(a, "idle") /\ ActTyped /\ JobTyped
  BY DEF Mark, At, TypeInv
<1>1. ActTyped' /\ JobTyped'
  <2>1. ASSUME act' = [act EXCEPT ![a].pc = "markCas", ![a].att = row[act[a].tx].data.att]
        PROVE  ActTyped'
    <3>1. act' = [act EXCEPT ![a] = [@ EXCEPT !.pc = "markCas", !.grp = act[a].grp,
                    !.doc = act[a].doc, !.att = row[act[a].tx].data.att, !.out = act[a].out]]
      BY <1>0, <2>1 DEF ActTyped, Action
    <3>2. row[act[a].tx].data.att \in Nat
      BY <1>0, OnRow DEF Row, ApiResultData
    <3> QED
      BY <1>0, <3>1, <3>2, OnRow, MoveTyped DEF PlainPcs, PCs, SharedPcs
  <2>2. ASSUME Goto(a, "end")
        PROVE  ActTyped'
    BY <1>0, <2>2, GotoTyped DEF PlainPcs, PCs, SharedPcs
  <2>3. ASSUME MarkThrows(a)
        PROVE  ActTyped' /\ JobTyped'
    BY <1>0, <2>3, MarkThrowsTyped
  <2> QED
    BY <1>0, <2>1, <2>2, <2>3 DEF Mark, JobTyped
<1> QED
  BY <1>1 DEF Mark, TypeInv, RowTyped, CountersTyped, money

LEMMA MarkCasTyped ==
    ASSUME TypeInv, NEW a \in Actors, MarkCas(a)
    PROVE  TypeInv'
<1> DEFINE t == act[a].tx
<1>0. ~At(a, "idle") /\ ActTyped /\ JobTyped
  BY DEF MarkCas, At, TypeInv
<1>1. t \in Tx /\ Flagged(row[t]) \in Row
  BY <1>0, OnRow, FlaggedTyped
<1>2. RowTyped'
  BY <1>1 DEF MarkCas, TypeInv, RowTyped
<1>3. ActTyped' /\ JobTyped'
  <2>1. ASSUME Goto(a, "end")
        PROVE  ActTyped'
    BY <1>0, <2>1, GotoTyped DEF PlainPcs, PCs, SharedPcs
  <2>2. ASSUME MarkThrows(a)
        PROVE  ActTyped' /\ JobTyped'
    BY <1>0, <2>2, MarkThrowsTyped
  <2> QED
    BY <1>0, <2>1, <2>2 DEF MarkCas, JobTyped
<1> QED
  BY <1>2, <1>3 DEF MarkCas, TypeInv, CountersTyped, money

LEMMA StalledTyped ==
    [st |-> "waiting", by |-> NoWorker, stalled |-> TRUE] \in Job
BY DEF Job

LEMMA RedeliverTyped ==
    ASSUME TypeInv, NEW t \in Tx, NEW g \in ApiGroups, Redeliver(t, g)
    PROVE  TypeInv'
<1>1. JobTyped'
  BY JobLeft, StalledTyped DEF Redeliver, TypeInv
<1> QED
  BY <1>1 DEF Redeliver, TypeInv, RowTyped, ActTyped, CountersTyped, money

LEMMA CrashTyped ==
    ASSUME TypeInv, NEW w \in Workers, Crash(w)
    PROVE  TypeInv'
<1>1. JobTyped'
  BY JobLeft, StalledTyped, NoJobTyped DEF Crash, TypeInv, JobTyped
<1>2. ActTyped'
  BY RestTyped DEF Crash, TypeInv, Actors
<1> QED
  BY <1>1, <1>2 DEF Crash, TypeInv, RowTyped, CountersTyped, money

LEMMA RequestDiesTyped ==
    ASSUME TypeInv, NEW a \in Admins, RequestDies(a) \/ EndRequest(a)
    PROVE  TypeInv'
<1>1. ActTyped'
  BY RestTyped DEF RequestDies, EndRequest, TypeInv, Actors
<1> QED
  BY <1>1 DEF RequestDies, EndRequest, TypeInv, RowTyped, JobTyped, CountersTyped, money

------------------------------------------------------------------------------
(* The administrator.                                                      *)

LEMMA BeginRequestTyped ==
    ASSUME TypeInv, NEW a \in Admins, NEW t \in Tx,
           (\E g \in Groups : Route(a, t, g)) \/ Pull(a, t)
             \/ (\E o \in {"paid", "notpaid"} : Resolve(a, t, o))
    PROVE  TypeInv'
<1>0. a \in Actors /\ a \notin Workers /\ ActTyped
  BY ActorsAssumption DEF Actors, TypeInv
<1>1. row[t] \in Row /\ row[t].group \in Groups \cup {NoGroup}
  BY DEF TypeInv, RowTyped, Row
<1>2. ActTyped'
  <2>1. ASSUME NEW g \in Groups, Route(a, t, g)
        PROVE  ActTyped'
    <3>1. Begin(a, "routeCas", t, g, row[t], "none")
      BY <2>1 DEF Route
    <3> QED  BY <1>0, <1>1, <3>1, BeginTyped DEF PCs, AdminPcs, Outs, OutFits
  <2>2. ASSUME Pull(a, t)
        PROVE  ActTyped'
    <3>1. Begin(a, "pullSave", t, row[t].group, row[t], "none")
      BY <2>2 DEF Pull
    <3> QED  BY <1>0, <1>1, <3>1, BeginTyped DEF PCs, AdminPcs, Outs, OutFits
  <2>3. ASSUME NEW o \in {"paid", "notpaid"}, Resolve(a, t, o)
        PROVE  ActTyped'
    <3>1. Begin(a, "resClaim", t, row[t].group, row[t], o)
      BY <2>3 DEF Resolve
    <3> QED  BY <1>0, <1>1, <3>1, BeginTyped DEF PCs, AdminPcs, Outs, OutFits
  <2> QED  BY <2>1, <2>2, <2>3
<1> QED
  BY <1>2 DEF Route, Pull, Resolve, TypeInv, RowTyped, JobTyped, CountersTyped, money

LEMMA RouteCasTyped ==
    ASSUME TypeInv, NEW a \in Admins, RouteCas(a)
    PROVE  TypeInv'
<1> DEFINE t == act[a].tx
<1>0. a \in Actors /\ ~At(a, "idle")
  BY DEF RouteCas, At, Actors
<1>1. t \in Tx /\ row[t] \in Row
  BY <1>0, OnRow
<1>2. RowTyped'
  <2>1. CASE row' = [row EXCEPT ![t] = RoutedTo(row[t], act[a].grp)]
    <3>1. CASE act[a].grp \in Groups
      <4>1. RoutedTo(row[t], act[a].grp) \in Row
        BY <1>1, <3>1, RoutedTyped
      <4> QED  BY <1>1, <2>1, <4>1 DEF TypeInv, RowTyped
    <3>2. CASE act[a].grp = NoGroup
      <4>1. RoutedTo(row[t], act[a].grp) \in Row
        BY <1>1, <3>2, GroupsAssumption DEF RoutedTo, Row, Statuses
      <4> QED  BY <1>1, <2>1, <4>1 DEF TypeInv, RowTyped
    <3> QED  BY <1>0, <3>1, <3>2, OnRow
  <2>2. CASE UNCHANGED row
    BY <2>2 DEF TypeInv, RowTyped
  <2> QED  BY <2>1, <2>2 DEF RouteCas
<1>3. ActTyped'
  BY <1>0, GotoTyped DEF RouteCas, TypeInv, PlainPcs, PCs, AdminPcs, SharedPcs
<1>4. routes' \in [Tx -> 0..MaxRoutes]
  <2>1. CASE routes[t] < MaxRoutes /\ routes' = [routes EXCEPT ![t] = @ + 1]
    <3>1. routes[t] + 1 \in 0..MaxRoutes
      BY <1>1, <2>1, BoundAssumption DEF TypeInv, CountersTyped
    <3> QED  BY <1>1, <2>1, <3>1 DEF TypeInv, CountersTyped
  <2>2. CASE UNCHANGED routes
    BY <2>2 DEF TypeInv, CountersTyped
  <2> QED  BY <2>1, <2>2 DEF RouteCas
<1> QED
  BY <1>2, <1>3, <1>4 DEF RouteCas, TypeInv, JobTyped, CountersTyped, money

LEMMA EnqueueTyped ==
    ASSUME TypeInv, NEW a \in Admins, Enqueue(a)
    PROVE  TypeInv'
<1>0. a \in Actors /\ ~At(a, "idle")
  BY DEF Enqueue, At, Actors
<1>1. ActTyped'
  BY <1>0, GotoTyped, GotoWithTyped
  DEF Enqueue, TypeInv, PlainPcs, PCs, SharedPcs, Outs, OutFits
<1>2. JobTyped'
  <2> DEFINE t == act[a].tx
             g == act[a].grp
  <2>1. CASE job' = [job EXCEPT ![t][g].st = "waiting"]
    <3>1. t \in Tx
      BY <1>0, OnRow
    <3>2. CASE g \in ApiGroups
      <4> DEFINE j == [job[t][g] EXCEPT !.st = "waiting"]
      <4>0. job[t][g] \in Job
        BY <3>1, <3>2 DEF TypeInv, JobTyped
      <4>1. j \in Job
        BY <4>0 DEF Job
      <4>2. job' = [job EXCEPT ![t][g] = j]
        BY <2>1
      <4> HIDE DEF j
      <4> QED  BY <4>1, <4>2, JobLeft DEF TypeInv
    <3>3. CASE g \notin ApiGroups
      BY <2>1, <3>1, <3>3 DEF TypeInv, JobTyped
    <3> QED  BY <3>2, <3>3
  <2>2. CASE UNCHANGED job
    BY <2>2 DEF TypeInv, JobTyped
  <2> QED  BY <2>1, <2>2 DEF Enqueue
<1> QED
  BY <1>1, <1>2 DEF Enqueue, TypeInv, RowTyped, CountersTyped, money

LEMMA PullSaveTypedInv ==
    ASSUME TypeInv, NEW a \in Admins, PullSave(a)
    PROVE  TypeInv'
<1> DEFINE r == row[act[a].tx]
           doc == act[a].doc
           s == SetStatus(r, doc, "pending")
           g == UnsetGroup(r, doc)
           o == IF doc.op THEN FALSE ELSE r.op
           m == IF doc.mgr THEN FALSE ELSE r.mgr
           new == [r EXCEPT !.status = s, !.group = g, !.op = o, !.mgr = m]
<1>0. a \in Actors /\ ~At(a, "idle")
  BY DEF PullSave, At, Actors
<1>1. r \in Row /\ doc \in Row
  BY <1>0, OnRow
<1>2. s \in Statuses /\ g \in Groups \cup {NoGroup} /\ o \in BOOLEAN /\ m \in BOOLEAN
  BY <1>1, UnsetGroupTyped, SetStatusTyped DEF Row, Statuses
<1>3. new \in Row
  <2> HIDE DEF s, g, o, m, r
  <2> QED  BY <1>1, <1>2, PullSaveTyped
<1>4. TryWrite(a, new, "end", "end")
  BY DEF PullSave
<1>5. RowTyped' /\ ActTyped'
  <2> HIDE DEF new
  <2> QED  BY <1>0, <1>3, <1>4, TryWriteTyped DEF PlainPcs, PCs, SharedPcs
<1> QED
  BY <1>5 DEF PullSave, TypeInv, JobTyped, CountersTyped, money

LEMMA ReverseTyped ==
    ASSUME TypeInv, NEW t \in Tx, Reverse(t)
    PROVE  TypeInv'
<1>1. [row[t] EXCEPT !.status = "cancelled_by_admin"] \in Row
  BY DEF TypeInv, RowTyped, Row, Statuses
<1>2. RowTyped'
  BY <1>1 DEF Reverse, TypeInv, RowTyped
<1>3. CountersTyped'
  BY DEF Reverse, TypeInv, CountersTyped
<1> QED
  BY <1>2, <1>3 DEF Reverse, TypeInv, JobTyped, ActTyped

LEMMA WithOutcomeTyped ==
    ASSUME NEW r \in Row, NEW o \in {"paid", "notpaid"}
    PROVE  WithOutcome(r, o) \in Row
<1>1. r.data \in ApiResultData
  BY DEF Row
<1>2. [r.data EXCEPT !.outcome = o] \in ApiResultData
  BY <1>1 DEF ApiResultData
<1>3. WithOutcome(r, o) = [r EXCEPT !.data = [r.data EXCEPT !.outcome = o]]
  BY DEF WithOutcome, Row
<1> QED
  BY <1>2, <1>3, SetDataTyped

LEMMA EffectStartedTyped ==
    ASSUME NEW r \in Row
    PROVE  EffectStarted(r) \in Row
<1>1. r.data \in ApiResultData
  BY DEF Row
<1>2. [r.data EXCEPT !.effect = TRUE] \in ApiResultData
  BY <1>1 DEF ApiResultData
<1>3. EffectStarted(r) = [r EXCEPT !.data = [r.data EXCEPT !.effect = TRUE]]
  BY DEF EffectStarted, Row
<1> QED
  BY <1>2, <1>3, SetDataTyped

LEMMA ResClaimTyped ==
    ASSUME TypeInv, NEW a \in Admins, ResClaim(a)
    PROVE  TypeInv'
<1> DEFINE r == row[act[a].tx]
           new == WithOutcome(r, act[a].out)
<1>0. a \in Actors /\ ~At(a, "idle")
  BY DEF ResClaim, At, Actors
<1>1. r \in Row /\ act[a].out \in {"paid", "notpaid"}
  BY <1>0, OnRow DEF ResClaim, At, OutFits
<1>2. new \in Row
  BY <1>1, WithOutcomeTyped
<1>3. TryWrite(a, new, "resEffect", "end") \/ (Goto(a, "end") /\ UNCHANGED row)
  BY DEF ResClaim
<1>4. RowTyped' /\ ActTyped'
  <2> HIDE DEF new
  <2> QED  BY <1>0, <1>2, <1>3, TryWriteTyped, GotoTyped
           DEF TypeInv, RowTyped, PlainPcs, PCs, AdminPcs, SharedPcs
<1> QED
  BY <1>4 DEF ResClaim, TypeInv, JobTyped, CountersTyped, money

LEMMA ResEffectTyped ==
    ASSUME TypeInv, NEW a \in Admins, ResEffect(a)
    PROVE  TypeInv'
<1> DEFINE r == row[act[a].tx]
           new == EffectStarted(r)
<1>0. a \in Actors /\ ~At(a, "idle")
  BY DEF ResEffect, At, Actors
<1>1. new \in Row
  BY <1>0, OnRow, EffectStartedTyped
<1>2. TryWrite(a, new, "resRead", "end") \/ (Goto(a, "end") /\ UNCHANGED row)
  BY DEF ResEffect
<1>3. RowTyped' /\ ActTyped'
  <2> HIDE DEF new
  <2> QED  BY <1>0, <1>1, <1>2, TryWriteTyped, GotoTyped
           DEF TypeInv, RowTyped, PlainPcs, PCs, AdminPcs, SharedPcs
<1> QED
  BY <1>3 DEF ResEffect, TypeInv, JobTyped, CountersTyped, money

LEMMA ResReadTyped ==
    ASSUME TypeInv, NEW a \in Admins, ResRead(a)
    PROVE  TypeInv'
<1> DEFINE r == row[act[a].tx]
<1>0. a \in Actors /\ ~At(a, "idle") /\ ActTyped /\ a \notin Workers
  BY ActorsAssumption DEF ResRead, At, Actors, TypeInv
<1>1. r \in Row /\ r.group \in Groups \cup {NoGroup}
  BY <1>0, OnRow DEF Row
<1>2. ActTyped'
  <2>1. ASSUME act' = [act EXCEPT ![a].pc = "saveNotPaid", ![a].doc = r]
        PROVE  ActTyped'
    <3>1. act' = [act EXCEPT ![a] = [@ EXCEPT !.pc = "saveNotPaid", !.grp = act[a].grp,
                    !.doc = r, !.att = act[a].att, !.out = act[a].out]]
      BY <1>0, <2>1 DEF ActTyped, Action
    <3> QED
      BY <1>0, <1>1, <3>1, OnRow, MoveTyped DEF PlainPcs, PCs, AdminPcs
  <2>2. ASSUME act' = [act EXCEPT ![a].pc = "findDebit", ![a].doc = r, ![a].grp = r.group]
        PROVE  ActTyped'
    <3>1. act' = [act EXCEPT ![a] = [@ EXCEPT !.pc = "findDebit", !.grp = r.group,
                    !.doc = r, !.att = act[a].att, !.out = act[a].out]]
      BY <1>0, <2>2 DEF ActTyped, Action
    <3> QED
      BY <1>0, <1>1, <3>1, OnRow, MoveTyped DEF PlainPcs, PCs, SharedPcs
  <2>3. ASSUME Goto(a, "end")
        PROVE  ActTyped'
    BY <1>0, <2>3, GotoTyped DEF PlainPcs, PCs, SharedPcs
  <2> QED
    BY <2>1, <2>2, <2>3 DEF ResRead
<1> QED
  BY <1>2 DEF ResRead, TypeInv, RowTyped, JobTyped, CountersTyped, money

LEMMA SaveNotPaidTyped ==
    ASSUME TypeInv, NEW a \in Admins, SaveNotPaid(a)
    PROVE  TypeInv'
<1> DEFINE r == row[act[a].tx]
           doc == act[a].doc
           s == SetStatus(r, doc, "pending")
           g == UnsetGroup(r, doc)
           d == [doc.data EXCEPT !.att = 0, !.result = "rejected",
                                 !.unres = FALSE, !.outcome = "notpaid"]
           new == [r EXCEPT !.status = s, !.group = g, !.data = d]
<1>0. a \in Actors /\ ~At(a, "idle")
  BY DEF SaveNotPaid, At, Actors
<1>1. r \in Row /\ doc \in Row /\ doc.data \in ApiResultData
  BY <1>0, OnRow DEF Row
<1>2. s \in Statuses /\ g \in Groups \cup {NoGroup} /\ d \in ApiResultData
  <2>1. d \in ApiResultData
    BY <1>1 DEF ApiResultData
  <2> QED  BY <1>1, <2>1, UnsetGroupTyped, SetStatusTyped DEF Statuses
<1>3. new \in Row
  <2> HIDE DEF s, g, d, r
  <2> QED  BY <1>1, <1>2, PoolSaveTyped
<1>4. TryWrite(a, new, "end", "end")
  BY DEF SaveNotPaid
<1>5. RowTyped' /\ ActTyped'
  <2> HIDE DEF new
  <2> QED  BY <1>0, <1>3, <1>4, TryWriteTyped DEF PlainPcs, PCs, SharedPcs
<1> QED
  BY <1>5 DEF SaveNotPaid, TypeInv, JobTyped, CountersTyped, money

------------------------------------------------------------------------------
LEMMA HumanTaskTyped ==
    ASSUME TypeInv, NEW t \in Tx, HumanTask(t)
    PROVE  TypeInv'
<1> DEFINE r == row[t]
<1>1. r \in Row
  BY DEF TypeInv, RowTyped
<1>2. /\ [r EXCEPT !.status = "accepted", !.op = TRUE] \in Row
      /\ [r EXCEPT !.status = "completed", !.v = r.v + 1] \in Row
      /\ [r EXCEPT !.status = "rejected"] \in Row
      /\ [r EXCEPT !.status = "pending", !.group = NoGroup, !.op = FALSE, !.mgr = FALSE] \in Row
  <2> HIDE DEF r
  <2>1. [r EXCEPT !.status = "accepted", !.op = TRUE] \in Row
    BY <1>1 DEF Row, Statuses
  <2>2. [r EXCEPT !.status = "completed", !.v = r.v + 1] \in Row
    <3>1. r.v + 1 \in Nat
      BY <1>1 DEF Row
    <3> DEFINE n == r.v + 1
    <3> HIDE DEF n
    <3>2. [r EXCEPT !.status = "completed", !.v = n] \in Row
      BY <1>1, <3>1 DEF Row, Statuses, n
    <3> QED  BY <3>2 DEF n
  <2>3. [r EXCEPT !.status = "rejected"] \in Row
    BY <1>1 DEF Row, Statuses
  <2>4. [r EXCEPT !.status = "pending", !.group = NoGroup, !.op = FALSE, !.mgr = FALSE] \in Row
    BY <1>1, PullSaveTyped DEF Statuses
  <2> QED  BY <2>1, <2>2, <2>3, <2>4
<1>3. RowTyped'
  <2>1. ASSUME NEW x \in Row, row' = [row EXCEPT ![t] = x]
        PROVE  RowTyped'
    BY <2>1 DEF TypeInv, RowTyped
  <2>2. CASE AcceptTask(t)
    <3>1. row' = [row EXCEPT ![t] = [r EXCEPT !.status = "accepted", !.op = TRUE]]
      BY <2>2 DEF AcceptTask, TypeInv, RowTyped
    <3> QED  BY <1>2, <2>1, <3>1
  <2>3. CASE CompleteTask(t)
    <3>1. row' = [row EXCEPT ![t] = [r EXCEPT !.status = "completed", !.v = r.v + 1]]
      BY <1>1, <2>3 DEF CompleteTask, TypeInv, RowTyped, Row
    <3> QED  BY <1>2, <2>1, <3>1
  <2>4. CASE CancelTask(t)
    <3>1. row' = [row EXCEPT ![t] = [r EXCEPT !.status = "rejected"]]
      BY <2>4 DEF CancelTask
    <3> QED  BY <1>2, <2>1, <3>1
  <2>5. CASE ReturnTask(t)
    <3>1. row' = [row EXCEPT ![t] = [r EXCEPT !.status = "pending", !.group = NoGroup,
                                              !.op = FALSE, !.mgr = FALSE]]
      BY <2>5 DEF ReturnTask, TypeInv, RowTyped
    <3> QED  BY <1>2, <2>1, <3>1
  <2> QED  BY <2>2, <2>3, <2>4, <2>5 DEF HumanTask
<1>4. CountersTyped'
  BY DEF HumanTask, AcceptTask, CompleteTask, CancelTask, ReturnTask, TypeInv,
         CountersTyped, money
<1> QED
  BY <1>3, <1>4 DEF HumanTask, AcceptTask, CompleteTask, CancelTask, ReturnTask,
                    TypeInv, JobTyped, ActTyped

------------------------------------------------------------------------------
LEMMA InitTyped == Init => TypeInv
<1> SUFFICES ASSUME Init
             PROVE  TypeInv
  OBVIOUS
<1>1. RowTyped
  BY NewRowTyped, RoutedTyped DEF Init, RowTyped
<1>2. JobTyped
  <2>1. [NoJob EXCEPT !.st = "waiting"] \in Job /\ NoJob \in Job
    BY DEF Job, NoJob
  <2> QED  BY <2>1 DEF Init, JobTyped
<1>3. ActTyped
  BY IdlePlaced DEF Init, ActTyped, Placed
<1>4. CountersTyped
  BY BoundAssumption DEF Init, CountersTyped
<1> QED
  BY <1>1, <1>2, <1>3, <1>4 DEF TypeInv

LEMMA NextTyped == TypeInv /\ [Next]_vars => TypeInv'
<1> SUFFICES ASSUME TypeInv, [Next]_vars
             PROVE  TypeInv'
  OBVIOUS
<1>1. ASSUME NEW w \in Workers, WorkerStep(w) \/ Crash(w)
      PROVE  TypeInv'
  BY <1>1, GuardTyped, ReadTyped, ClaimTyped, PayTyped, ReleaseTyped, SaveReleaseTyped,
     SaveMismatchTyped, SaveHoldTyped, FindDebitTyped, PostDebitTyped, SaveDoneTyped,
     ExcTyped, ExcSaveTyped, MarkTyped, MarkCasTyped, EndJobTyped, CrashTyped
  DEF WorkerStep, Actors
<1>2. ASSUME NEW a \in Admins, AdminStep(a) \/ RequestDies(a)
      PROVE  TypeInv'
  BY <1>2, RouteCasTyped, EnqueueTyped, PullSaveTypedInv, ResClaimTyped, ResEffectTyped,
     ResReadTyped, SaveNotPaidTyped, FindDebitTyped, PostDebitTyped, SaveDoneTyped,
     MarkTyped, MarkCasTyped, RequestDiesTyped
  DEF AdminStep, Actors
<1>3. ASSUME NEW a \in Admins, NEW t \in Tx, AdminRequest(a, t)
      PROVE  TypeInv'
  BY <1>3, BeginRequestTyped DEF AdminRequest
<1>4. CASE UNCHANGED vars
  BY <1>4 DEF vars, TypeInv, RowTyped, JobTyped, ActTyped, CountersTyped
<1> QED
  BY <1>1, <1>2, <1>3, <1>4, StartJobTyped, RedeliverTyped, ReverseTyped, HumanTaskTyped
  DEF Next

\* Every state of the dispatch is of its type, in every environment: for any
\* numbers of transfers, groups, workers and administrators.
THEOREM TypeCorrect == Spec => []TypeOK
<1>1. Spec => []TypeInv
  BY InitTyped, NextTyped, PTL DEF Spec
<1> QED
  BY <1>1, TypeInvTypeOK, PTL
==============================================================================
