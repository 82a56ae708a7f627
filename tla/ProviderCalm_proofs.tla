------------------------- MODULE ProviderCalm_proofs -------------------------
(***************************************************************************)
(* In the calm environment the dispatch keeps CalmInv, and so the safety   *)
(* properties of ProviderDispatch and the promise of TransferPromise, for  *)
(* any numbers of transfers, groups, workers and administrators.           *)
(***************************************************************************)
EXTENDS ProviderCalm, ProviderDispatch_proofs

Calm == Env \subseteq CalmEnv

IInv == TypeInv /\ Exclusive /\ RowsOK /\ ActorsOK

RowHolds(t) == RowOK(row[t], paid[t], handed[t], debits[t], refunded[t])
ActorHolds(a) == ActOK(a, act[a], row[act[a].tx], paid[act[a].tx], debits[act[a].tx])

\* A step touches no other row than t ...
OnlyRow(t) ==
    \A u \in Tx \ {t} : /\ row'[u] = row[u] /\ paid'[u] = paid[u]
                        /\ handed'[u] = handed[u] /\ debits'[u] = debits[u]
                        /\ refunded'[u] = refunded[u]
\* ... and no other actor than a.
OnlyActor(a) == \A b \in Actors \ {a} : act'[b] = act[b]

LEMMA CalmFacts ==
    ASSUME Calm
    PROVE  /\ "overlap" \notin Env /\ "adminRace" \notin Env /\ "parentStaff" \notin Env
           /\ "readError" \notin Env /\ "ackLost" \notin Env
BY DEF Calm, CalmEnv

\* Steps of an actor on its row, and of a request or a job that begins on a
\* row nobody is on.
LEMMA ActorFrame ==
    ASSUME IInv, TypeInv', NEW a \in Actors, NEW t \in Tx,
           \A b \in Actors \ {a} : act[b].tx # t,
           OnlyRow(t), OnlyActor(a), act'[a].tx \in {t, NoTx},
           RowHolds(t)',
           act'[a].tx = t => ActOK(a, act'[a], row'[t], paid'[t], debits'[t])
    PROVE  IInv'
<1>1. Exclusive'
  BY DEF IInv, Exclusive, OnlyActor
<1>2. RowsOK'
  BY DEF IInv, RowsOK, RowHolds, OnlyRow
<1>3. ActorsOK'
  <2> SUFFICES ASSUME NEW b \in Actors
               PROVE  /\ act'[b].pc = "idle" <=> act'[b].tx = NoTx
                      /\ act'[b].pc # "idle" => ActorHolds(b)'
    BY DEF ActorsOK, ActorHolds
  <2>1. act'[b].pc = "idle" <=> act'[b].tx = NoTx
    BY DEF TypeInv, ActTyped, Placed
  <2>2. CASE b = a
    BY <2>1, <2>2 DEF ActorHolds
  <2>3. CASE b # a
    <3>1. act'[b] = act[b]
      BY <2>3 DEF OnlyActor
    <3>2. CASE act[b].pc # "idle"
      <4>1. act[b].tx \in Tx \ {t}
        BY <2>3, <3>2 DEF IInv, TypeInv, ActTyped, Placed, Action
      <4>2. ActorHolds(b)
        BY <3>2 DEF IInv, ActorsOK, ActorHolds
      <4>3. /\ act'[b].tx = act[b].tx
            /\ row'[act[b].tx] = row[act[b].tx] /\ paid'[act[b].tx] = paid[act[b].tx]
            /\ debits'[act[b].tx] = debits[act[b].tx]
        BY <3>1, <4>1 DEF OnlyRow
      <4> QED
        BY <2>1, <3>1, <4>2, <4>3 DEF ActorHolds
    <3> QED
      BY <2>1, <3>1, <3>2
  <2> QED
    BY <2>1, <2>2, <2>3
<1> QED
  BY <1>1, <1>2, <1>3 DEF IInv

\* Steps of nobody's actor on a row nobody is on.
LEMMA FreeFrame ==
    ASSUME IInv, TypeInv', NEW t \in Tx, \A b \in Actors : act[b].tx # t,
           OnlyRow(t), UNCHANGED act, RowHolds(t)'
    PROVE  IInv'
<1>1. Exclusive'
  BY DEF IInv, Exclusive
<1>2. RowsOK'
  BY DEF IInv, RowsOK, RowHolds, OnlyRow
<1>3. ActorsOK'
  <2> SUFFICES ASSUME NEW b \in Actors
               PROVE  /\ act'[b].pc = "idle" <=> act'[b].tx = NoTx
                      /\ act'[b].pc # "idle" => ActorHolds(b)'
    BY DEF ActorsOK, ActorHolds
  <2>1. act'[b].pc = "idle" <=> act'[b].tx = NoTx
    BY DEF TypeInv, ActTyped, Placed
  <2>2. CASE act[b].pc # "idle"
    <3>1. act[b].tx \in Tx \ {t}
      BY <2>2 DEF IInv, TypeInv, ActTyped, Placed, Action
    <3>2. ActorHolds(b)
      BY <2>2 DEF IInv, ActorsOK, ActorHolds
    <3> QED
      BY <2>1, <3>1, <3>2 DEF ActorHolds, OnlyRow
  <2> QED
    BY <2>1, <2>2
<1> QED
  BY <1>1, <1>2, <1>3 DEF IInv

\* What is known of an actor that is on a row.
LEMMA OnItsRow ==
    ASSUME IInv, NEW a \in Actors, ~At(a, "idle")
    PROVE  /\ act[a].tx \in Tx /\ act[a].tx # NoTx
           /\ RowHolds(act[a].tx)
           /\ ActorHolds(a)
           /\ \A b \in Actors \ {a} : act[b].tx # act[a].tx
BY OnRow, ActorsAssumption DEF IInv, RowsOK, ActorsOK, RowHolds, ActorHolds, Exclusive, At

\* A step that changes nothing but where actor a stands.
LEMMA MoveFrame ==
    ASSUME IInv, TypeInv', NEW a \in Actors, ~At(a, "idle"),
           UNCHANGED <<row, money>>, NEW x, act' = [act EXCEPT ![a] = x],
           x.tx \in {act[a].tx, NoTx},
           x.tx = act[a].tx =>
             ActOK(a, x, row[act[a].tx], paid[act[a].tx], debits[act[a].tx])
    PROVE  IInv'
<1> PICK t \in Tx : t = act[a].tx
  BY OnItsRow
<1>1. act'[a] = x /\ OnlyActor(a) /\ OnlyRow(t)
  BY DEF IInv, TypeInv, ActTyped, OnlyActor, OnlyRow, money
<1>2. RowHolds(t)'
  BY OnItsRow DEF RowHolds, money
<1>3. /\ t # NoTx /\ \A b \in Actors \ {a} : act[b].tx # t
      /\ row'[t] = row[t] /\ paid'[t] = paid[t] /\ debits'[t] = debits[t]
  BY OnItsRow DEF money
<1>4. act'[a].tx = t => ActOK(a, act'[a], row'[t], paid'[t], debits'[t])
  BY <1>1, <1>3
<1> QED
  BY <1>1, <1>2, <1>3, <1>4, ActorFrame

\* The steps at which nothing is remembered of the row.
LEMMA FreePcs ==
    ASSUME NEW a, NEW x, NEW r, NEW p, NEW d,
           x.pc \in {"mark", "end", "enqueue"}
    PROVE  ActOK(a, x, r, p, d)
BY DEF ActOK

LEMMA FreeGoto ==
    ASSUME IInv, TypeInv', NEW a \in Actors, ~At(a, "idle"), UNCHANGED <<row, money>>,
           NEW pc \in {"mark", "end", "enqueue"},
           Goto(a, pc) \/ (\E o \in Outs : GotoWith(a, pc, o))
    PROVE  IInv'
<1>1. CASE Goto(a, pc)
  <2> DEFINE x == [act[a] EXCEPT !.pc = pc]
  <2>1. act' = [act EXCEPT ![a] = x]
    BY <1>1 DEF Goto
  <2>2. x.pc = pc /\ x.tx = act[a].tx
    BY OnRow DEF IInv, Action
  <2> HIDE DEF x
  <2>3. ActOK(a, x, row[act[a].tx], paid[act[a].tx], debits[act[a].tx])
    BY <2>2, FreePcs
  <2> QED  BY <2>1, <2>2, <2>3, MoveFrame
<1>2. ASSUME NEW o \in Outs, GotoWith(a, pc, o)
      PROVE  IInv'
  <2> DEFINE x == [act[a] EXCEPT !.pc = pc, !.out = o]
  <2>1. act' = [act EXCEPT ![a] = x]
    BY <1>2 DEF GotoWith, IInv, TypeInv, ActTyped
  <2>2. x.pc = pc /\ x.tx = act[a].tx
    BY OnRow DEF IInv, Action
  <2> HIDE DEF x
  <2>3. ActOK(a, x, row[act[a].tx], paid[act[a].tx], debits[act[a].tx])
    BY <2>2, FreePcs
  <2> QED  BY <2>1, <2>2, <2>3, MoveFrame
<1> QED
  BY <1>1, <1>2

LEMMA GuardCalm ==
    ASSUME Calm, IInv, TypeInv', NEW w \in Workers, Guard(w)
    PROVE  IInv'
<1>0. w \in Actors /\ ~At(w, "idle") /\ UNCHANGED <<row, money>> /\ act[w] \in Action
  BY OnRow DEF Guard, At, Actors, IInv
<1>1. CASE Goto(w, "end") \/ GotoWith(w, "mark", "guard")
  BY <1>0, <1>1, FreeGoto DEF Outs
<1>2. CASE ~RedispatchHandled(row[act[w].tx]) /\ Goto(w, "read")
  <2> DEFINE x == [act[w] EXCEPT !.pc = "read"]
  <2>1. act' = [act EXCEPT ![w] = x]
    BY <1>2 DEF Goto
  <2>2. x.pc = "read" /\ x.tx = act[w].tx /\ x.grp = act[w].grp
    BY <1>0 DEF Action
  <2>3. act[w].grp \in ApiGroups
    BY <1>0, OnRow DEF IInv
  <2> HIDE DEF x
  <2>4. ActOK(w, x, row[act[w].tx], paid[act[w].tx], debits[act[w].tx])
    BY <1>2, <2>2, <2>3 DEF ActOK
  <2> QED  BY <1>0, <2>1, <2>2, <2>4, MoveFrame
<1> QED
  BY <1>1, <1>2, CalmFacts DEF Guard

LEMMA ReadCalm ==
    ASSUME Calm, IInv, TypeInv', NEW w \in Workers, Read(w)
    PROVE  IInv'
<1> DEFINE r == row[act[w].tx]
<1>0. w \in Actors /\ ~At(w, "idle") /\ UNCHANGED <<row, money>> /\ act[w] \in Action
  BY OnRow DEF Read, At, Actors, IInv
<1>1. CASE Goto(w, "end") \/ GotoWith(w, "mark", "try")
  BY <1>0, <1>1, FreeGoto DEF Outs
<1>2. ASSUME r.status = "processing", r.group = act[w].grp, ~r.data.unres,
             NEW pc \in {"claim", "saveRelease", "saveMismatch"},
             act' = [act EXCEPT ![w].pc = pc, ![w].doc = r]
      PROVE  IInv'
  <2> DEFINE x == [act[w] EXCEPT !.pc = pc, !.doc = r]
  <2>1. act' = [act EXCEPT ![w] = x]
    BY <1>2 DEF IInv, TypeInv, ActTyped
  <2>2. x.pc = pc /\ x.tx = act[w].tx /\ x.grp = act[w].grp /\ x.doc = r
    BY <1>0 DEF Action
  <2>3. /\ act[w].grp \in ApiGroups
        /\ RowHolds(act[w].tx)
        /\ ~RedispatchHandled(r)
    BY <1>0, OnRow, OnItsRow DEF IInv, Read, At, ActorHolds, ActOK
  <2> HIDE DEF x
  <2>4. /\ r.data.att = 0
        /\ r.data.outcome = "none" /\ r.data.result = "none" 
    BY <1>0, <1>2, <2>3, OnRow DEF IInv, RowHolds, RowOK, RedispatchHandled, AutomaticPaymentBlocked,
         ProviderMoneyHold, NeedsUnresolvedHold, HasDispatchMarker, HasDefinitiveProviderResult, Row, ApiResultData
  <2>5. ActOK(w, x, r, paid[act[w].tx], debits[act[w].tx])
    BY <1>2, <2>2, <2>3, <2>4 DEF ActOK
  <2> QED  BY <1>0, <2>1, <2>2, <2>5, MoveFrame
<1> QED
  BY <1>1, <1>2, CalmFacts DEF Read

\* A step that writes actor a's row r, once, and moves the actor to x.
LEMMA WriteFrame ==
    ASSUME IInv, TypeInv', NEW a \in Actors, ~At(a, "idle"), UNCHANGED money,
           NEW r, row' = [row EXCEPT ![act[a].tx] = r],
           NEW x, act' = [act EXCEPT ![a] = x], x.tx \in {act[a].tx, NoTx},
           RowOK(r, paid[act[a].tx], handed[act[a].tx], debits[act[a].tx],
                 refunded[act[a].tx]),
           x.tx = act[a].tx => ActOK(a, x, r, paid[act[a].tx], debits[act[a].tx])
    PROVE  IInv'
<1> PICK t \in Tx : t = act[a].tx
  BY OnItsRow
<1>1. act'[a] = x /\ OnlyActor(a) /\ OnlyRow(t) /\ row'[t] = r
  BY DEF IInv, TypeInv, ActTyped, RowTyped, OnlyActor, OnlyRow, money
<1>2. RowHolds(t)'
  BY <1>1 DEF RowHolds, money
<1>3. /\ t # NoTx /\ \A b \in Actors \ {a} : act[b].tx # t
      /\ paid'[t] = paid[t] /\ debits'[t] = debits[t]
  BY OnItsRow DEF money
<1>4. act'[a].tx = t => ActOK(a, act'[a], row'[t], paid'[t], debits'[t])
  BY <1>1, <1>3
<1> QED
  BY <1>1, <1>2, <1>3, <1>4, ActorFrame

\* The fields of rows that single-field writes change and keep.
LEMMA WithAttemptFields ==
    ASSUME NEW r \in Row, NEW n \in Nat
    PROVE  LET s == WithAttempt(r, n) IN
           /\ s.data.att = n
           /\ s.status = r.status /\ s.group = r.group /\ s.op = r.op /\ s.mgr = r.mgr
           /\ s.v = r.v /\ s.data.result = r.data.result /\ s.data.unres = r.data.unres
           /\ s.data.ref = r.data.ref /\ s.data.outcome = r.data.outcome
           /\ s.data.effect = r.data.effect
BY DEF WithAttempt, Row, ApiResultData

LEMMA ClaimCalm ==
    ASSUME Calm, IInv, TypeInv', NEW w \in Workers, Claim(w)
    PROVE  IInv'
<1> DEFINE r == row[act[w].tx]
           n == claims[act[w].tx] + 1
           q == WithAttempt(r, n)
           x == [act[w] EXCEPT !.pc = "pay", !.att = n, !.doc = WithAttempt(act[w].doc, n)]
<1>0. /\ w \in Actors /\ ~At(w, "idle") /\ act[w] \in Action /\ UNCHANGED money
      /\ r \in Row /\ act[w].tx \in Tx /\ n \in Nat /\ n # 0
  BY OnRow DEF Claim, At, Actors, IInv, TypeInv, CountersTyped
<1>1. CASE GotoWith(w, "mark", "try") /\ UNCHANGED row
  BY <1>0, <1>1, FreeGoto DEF Outs
<1>2. CASE /\ row' = [row EXCEPT ![act[w].tx] = q]
           /\ act' = [act EXCEPT ![w].pc = "pay", ![w].att = n,
                                 ![w].doc = WithAttempt(@, n)]
  <2>1. act' = [act EXCEPT ![w] = x]
    BY <1>2 DEF IInv, TypeInv, ActTyped
  <2>2. /\ x.pc = "pay" /\ x.tx = act[w].tx /\ x.grp = act[w].grp /\ x.att = n
        /\ x.doc = WithAttempt(act[w].doc, n)
    BY <1>0 DEF Action
  <2>3. /\ act[w].doc = r /\ r.status = "processing" /\ r.group = act[w].grp
        /\ r.data.outcome = "none" /\ r.data.result = "none" /\ ~r.data.unres
        /\ r.data.att = 0 /\ act[w].grp \in ApiGroups
    BY <1>0, OnItsRow DEF Claim, At, ActorHolds, ActOK
  <2>4. RowHolds(act[w].tx) /\ paid[act[w].tx] = 0
    <3>1. RowHolds(act[w].tx)
      BY <1>0, OnItsRow
    <3>2. paid[act[w].tx] \in Nat /\ handed[act[w].tx] \in Nat
      BY <1>0 DEF IInv, TypeInv, CountersTyped
    <3> QED  BY <2>3, <3>1, <3>2 DEF RowHolds, RowOK
  <2> HIDE DEF x, q, n
  <2>5. RowOK(q, paid[act[w].tx], handed[act[w].tx], debits[act[w].tx], refunded[act[w].tx])
    BY <1>0, <2>3, <2>4, WithAttemptFields DEF RowHolds, RowOK, q
  <2>6. ActOK(w, x, q, paid[act[w].tx], debits[act[w].tx])
    BY <1>0, <2>2, <2>3, <2>4, WithAttemptFields DEF ActOK, q
  <2> QED  BY <1>0, <1>2, <2>1, <2>2, <2>5, <2>6, WriteFrame
<1> QED
  BY <1>1, <1>2, CalmFacts DEF Claim

\* A step that only moves counters of actor a's row, and the actor to x.
LEMMA MoneyFrame ==
    ASSUME IInv, TypeInv', NEW a \in Actors, ~At(a, "idle"), UNCHANGED <<row, handed, refunded>>,
           NEW p, paid' = [paid EXCEPT ![act[a].tx] = p],
           NEW d, debits' = [debits EXCEPT ![act[a].tx] = d],
           NEW x, act' = [act EXCEPT ![a] = x], x.tx = act[a].tx,
           RowOK(row[act[a].tx], p, handed[act[a].tx], d, refunded[act[a].tx]),
           ActOK(a, x, row[act[a].tx], p, d)
    PROVE  IInv'
<1> PICK t \in Tx : t = act[a].tx
  BY OnItsRow
<1>1. act'[a] = x /\ OnlyActor(a) /\ OnlyRow(t) /\ paid'[t] = p /\ debits'[t] = d
  BY DEF IInv, TypeInv, ActTyped, CountersTyped, OnlyActor, OnlyRow
<1>2. RowHolds(t)'
  BY <1>1 DEF RowHolds
<1>3. t # NoTx /\ \A b \in Actors \ {a} : act[b].tx # t
  BY OnItsRow
<1>4. ActOK(a, act'[a], row'[t], paid'[t], debits'[t])
  BY <1>1
<1> QED
  BY <1>1, <1>2, <1>3, <1>4, ActorFrame

LEMMA PayCalm ==
    ASSUME Calm, IInv, TypeInv', NEW w \in Workers, Pay(w)
    PROVE  IInv'
<1> DEFINE r == row[act[w].tx]
           d == debits[act[w].tx]
           x(pc, o) == [act[w] EXCEPT !.pc = pc, !.out = o]
<1>0. /\ w \in Actors /\ ~At(w, "idle") /\ act[w] \in Action
      /\ r \in Row /\ act[w].tx \in Tx /\ UNCHANGED <<row, handed, debits, refunded>>
      /\ debits = [debits EXCEPT ![act[w].tx] = d]
  BY OnRow DEF Pay, At, Actors, IInv, TypeInv, CountersTyped
<1>1. /\ act[w].doc = r /\ r.status = "processing" /\ r.group = act[w].grp
      /\ r.data.outcome = "none" /\ r.data.result = "none" /\ ~r.data.unres
      /\ r.data.att = act[w].att /\ act[w].att # 0 /\ paid[act[w].tx] = 0
  BY <1>0, OnItsRow DEF Pay, At, ActorHolds, ActOK
<1>2. RowOK(r, 0, handed[act[w].tx], d, refunded[act[w].tx]) /\ handed[act[w].tx] \in Nat
  BY <1>0, <1>1, OnItsRow DEF RowHolds, IInv, TypeInv, CountersTyped
<1>3. RowOK(r, 1, handed[act[w].tx], d, refunded[act[w].tx])
  BY <1>1, <1>2 DEF RowOK
<1>4. ASSUME NEW pc \in {"mark", "findDebit", "saveHold"}, NEW o \in Outs,
             pc = "findDebit" => o = "masked", pc = "saveHold" => o \in {"full", "none"},
             GotoWith(w, pc, o), paid' = [paid EXCEPT ![act[w].tx] = @ + 1]
      PROVE  IInv'
  <2>1. act' = [act EXCEPT ![w] = x(pc, o)]
    BY <1>4 DEF GotoWith, IInv, TypeInv, ActTyped
  <2>2. /\ x(pc, o).pc = pc /\ x(pc, o).tx = act[w].tx /\ x(pc, o).grp = act[w].grp
        /\ x(pc, o).doc = act[w].doc /\ x(pc, o).out = o
    BY <1>0 DEF Action
  <2>3. paid' = [paid EXCEPT ![act[w].tx] = 1]
    BY <1>1, <1>4
  <2> HIDE DEF x
  <2>4. ActOK(w, x(pc, o), r, 1, d)
    BY <1>1, <1>4, <2>2 DEF ActOK
  <2> QED  BY <1>0, <1>3, <2>1, <2>2, <2>3, <2>4, MoneyFrame
<1>5. CASE UNCHANGED paid /\ GotoWith(w, "mark", "try")
  BY <1>0, <1>5, FreeGoto DEF Outs, money
<1>6. CASE UNCHANGED paid /\ Goto(w, "release")
  <2> DEFINE y == [act[w] EXCEPT !.pc = "release"]
  <2>1. act' = [act EXCEPT ![w] = y]
    BY <1>6 DEF Goto
  <2>2. /\ y.pc = "release" /\ y.tx = act[w].tx /\ y.grp = act[w].grp
        /\ y.doc = act[w].doc /\ y.att = act[w].att
    BY <1>0 DEF Action
  <2> HIDE DEF y
  <2>3. ActOK(w, y, r, paid[act[w].tx], d)
    BY <1>1, <2>2 DEF ActOK
  <2> QED  BY <1>0, <1>6, <2>1, <2>2, <2>3, MoveFrame DEF money
<1> QED
  <2>1. "masked" \in Outs /\ "full" \in Outs /\ "none" \in Outs /\ "try" \in Outs
    BY DEF Outs
  <2> QED  BY <1>4, <1>5, <1>6, <2>1 DEF Pay

\* A write that is tried: it is made and the actor goes on, or it throws
\* without effect.
LEMMA TryWriteFrame ==
    ASSUME Calm, IInv, TypeInv', NEW a \in Actors, ~At(a, "idle"), UNCHANGED money,
           NEW r, NEW ok, NEW err, TryWrite(a, r, ok, err),
           RowOK(r, paid[act[a].tx], handed[act[a].tx], debits[act[a].tx],
                 refunded[act[a].tx]),
           ActOK(a, [act[a] EXCEPT !.pc = ok], r, paid[act[a].tx], debits[act[a].tx]),
           ActOK(a, [act[a] EXCEPT !.pc = err], row[act[a].tx], paid[act[a].tx],
                 debits[act[a].tx])
    PROVE  IInv'
<1> DEFINE x(pc) == [act[a] EXCEPT !.pc = pc]
<1>1. x(ok).tx = act[a].tx /\ x(err).tx = act[a].tx
  BY OnRow DEF IInv, Action
<1>2. ASSUME NEW pc, Goto(a, pc)
      PROVE  act' = [act EXCEPT ![a] = x(pc)]
  BY <1>2 DEF Goto
<1>3. CASE row' = [row EXCEPT ![act[a].tx] = r] /\ Goto(a, ok)
  <2>1. act' = [act EXCEPT ![a] = x(ok)]
    BY <1>2, <1>3
  <2> QED  BY <1>1, <1>3, <2>1, WriteFrame
<1>4. CASE UNCHANGED row /\ Goto(a, err)
  <2>1. act' = [act EXCEPT ![a] = x(err)]
    BY <1>2, <1>4
  <2> QED  BY <1>1, <1>4, <2>1, MoveFrame
<1> QED
  BY <1>3, <1>4, CalmFacts DEF TryWrite

\* The record of an actor that only moves.
LEMMA MovedFields ==
    ASSUME NEW x \in Action, NEW pc
    PROVE  LET y == [x EXCEPT !.pc = pc] IN
           /\ y.pc = pc /\ y.tx = x.tx /\ y.grp = x.grp /\ y.doc = x.doc
           /\ y.att = x.att /\ y.out = x.out
BY DEF Action

LEMMA EndOK ==
    ASSUME NEW a, NEW x \in Action, NEW r, NEW p, NEW d
    PROVE  ActOK(a, [x EXCEPT !.pc = "end"], r, p, d)
<1> DEFINE y == [x EXCEPT !.pc = "end"]
<1>1. y.pc = "end"
  BY MovedFields
<1> HIDE DEF y
<1>2. ActOK(a, y, r, p, d)
  BY <1>1, FreePcs
<1> QED
  BY <1>2 DEF y

\* The exception handler may be entered with a row in flight, or one that was
\* not sent.
LEMMA ExcOK ==
    ASSUME NEW a, NEW x \in Action, NEW r, NEW p, NEW d, r.status = "processing",
           r.data.att = 0 \/ NeedsUnresolvedHold(r)
    PROVE  ActOK(a, [x EXCEPT !.pc = "exc"], r, p, d)
BY MovedFields DEF ActOK

LEMMA ReleaseCalm ==
    ASSUME Calm, IInv, TypeInv', NEW w \in Workers, Release(w)
    PROVE  IInv'
<1> DEFINE r == row[act[w].tx]
           q == WithAttempt(r, 0)
           x(pc) == [act[w] EXCEPT !.pc = pc, !.out = "try", !.doc = WithAttempt(act[w].doc, 0)]
<1>0. /\ w \in Actors /\ ~At(w, "idle") /\ act[w] \in Action /\ UNCHANGED money
      /\ r \in Row
  BY OnRow DEF Release, At, Actors, IInv
<1>1. /\ act[w].doc = r /\ r.status = "processing" /\ r.group = act[w].grp
      /\ r.data.outcome = "none" /\ r.data.result = "none" /\ ~r.data.unres
      /\ r.data.att = act[w].att /\ act[w].att # 0 /\ paid[act[w].tx] = 0
  BY <1>0, OnItsRow DEF Release, At, ActorHolds, ActOK
<1>2. ASSUME NEW pc,
             act' = [act EXCEPT ![w].pc = pc, ![w].out = "try", ![w].doc = WithAttempt(@, 0)]
      PROVE  act' = [act EXCEPT ![w] = x(pc)]
  BY <1>2 DEF IInv, TypeInv, ActTyped
<1>3. ASSUME NEW pc
      PROVE  /\ x(pc).pc = pc /\ x(pc).tx = act[w].tx /\ x(pc).grp = act[w].grp
             /\ x(pc).doc = WithAttempt(act[w].doc, 0)
  BY <1>0 DEF Action
<1>4. CASE /\ row' = [row EXCEPT ![act[w].tx] = q]
           /\ act' = [act EXCEPT ![w].pc = "saveRelease", ![w].out = "try",
                                 ![w].doc = WithAttempt(@, 0)]
  <2>1. act' = [act EXCEPT ![w] = x("saveRelease")]
    BY <1>2, <1>4
  <2>2. RowHolds(act[w].tx)
    BY <1>0, OnItsRow
  <2>3. r.data.ref = "none"
    BY <1>1, <2>2 DEF RowHolds, RowOK
  <2> HIDE DEF x, q
  <2>4. RowOK(q, paid[act[w].tx], handed[act[w].tx], debits[act[w].tx], refunded[act[w].tx])
    BY <1>0, <1>1, <2>2, <2>3, WithAttemptFields DEF RowHolds, RowOK, q
  <2>5. ActOK(w, x("saveRelease"), q, paid[act[w].tx], debits[act[w].tx])
    BY <1>0, <1>1, <1>3, WithAttemptFields DEF ActOK, q
  <2> QED  BY <1>0, <1>3, <1>4, <2>1, <2>4, <2>5, WriteFrame
<1>5. CASE /\ UNCHANGED row
           /\ act' = [act EXCEPT ![w].pc = "mark", ![w].out = "try",
                                 ![w].doc = WithAttempt(@, 0)]
  <2>1. act' = [act EXCEPT ![w] = x("mark")]
    BY <1>2, <1>5
  <2> HIDE DEF x
  <2>2. ActOK(w, x("mark"), r, paid[act[w].tx], debits[act[w].tx])
    BY <1>3, FreePcs
  <2> QED  BY <1>0, <1>3, <1>5, <2>1, <2>2, MoveFrame
<1> QED
  BY <1>0, <1>1, <1>4, <1>5, CalmFacts DEF Release

\* A row nothing was sent for goes back to the pool.
LEMMA PooledOK ==
    ASSUME NEW r \in Row, NEW s \in Row, NEW p \in Nat, NEW h \in Nat, NEW d, NEW f,
           RowOK(r, p, h, d, f), r.data.att = 0, r.status \in {"processing", "accepted"},
           s.status = "pending", s.group = NoGroup, ~s.op, ~s.mgr, s.data = r.data
    PROVE  RowOK(s, p, h, d, f)
BY GroupsAssumption DEF RowOK, Groups

LEMMA SaveReleaseCalm ==
    ASSUME Calm, IInv, TypeInv', NEW w \in Workers, SaveRelease(w)
    PROVE  IInv'
<1> DEFINE r == row[act[w].tx]
           new == [r EXCEPT !.status = SetStatus(r, act[w].doc, "pending"),
                            !.group = UnsetGroup(r, act[w].doc),
                            !.data = IF act[w].att # 0 THEN act[w].doc.data ELSE @]
<1>0. /\ w \in Actors /\ ~At(w, "idle") /\ act[w] \in Action /\ UNCHANGED money
      /\ r \in Row
  BY OnRow DEF SaveRelease, At, Actors, IInv
<1>1. /\ act[w].doc = r /\ r.status = "processing" /\ r.data.att = 0
  BY <1>0, OnItsRow DEF SaveRelease, At, ActorHolds, ActOK
<1>2. TryWrite(w, new, "end", "exc")
  BY DEF SaveRelease
<1>3. /\ RowHolds(act[w].tx) /\ new \in Row
      /\ paid[act[w].tx] \in Nat /\ handed[act[w].tx] \in Nat
  <2>1. new \in Row
    <3>1. /\ UnsetGroup(r, act[w].doc) \in Groups \cup {NoGroup}
          /\ SetStatus(r, act[w].doc, "pending") \in Statuses
          /\ (IF act[w].att # 0 THEN act[w].doc.data ELSE r.data) \in ApiResultData
      BY <1>0, <1>1, UnsetGroupTyped, SetStatusTyped DEF Row, Statuses
    <3> HIDE DEF r
    <3> QED  BY <1>0, <3>1, PoolSaveTyped DEF new
  <2> QED  BY <1>0, <2>1, OnRow, OnItsRow DEF IInv, TypeInv, CountersTyped
<1>4. /\ new.status = "pending" /\ new.group = NoGroup /\ new.op = r.op
      /\ new.mgr = r.mgr /\ new.data = r.data
  BY <1>0, <1>1, GroupsAssumption DEF Row, SetStatus, UnsetGroup
<1> HIDE DEF new
<1>5. RowOK(new, paid[act[w].tx], handed[act[w].tx], debits[act[w].tx], refunded[act[w].tx])
  <2>1. ~r.op /\ ~r.mgr
    BY <1>1, <1>3 DEF RowHolds, RowOK
  <2> QED  BY <1>0, <1>1, <1>3, <1>4, <2>1, PooledOK DEF RowHolds
<1> QED
  BY <1>0, <1>1, <1>2, <1>5, EndOK, ExcOK, TryWriteFrame

LEMMA SaveMismatchCalm ==
    ASSUME Calm, IInv, TypeInv', NEW w \in Workers, SaveMismatch(w)
    PROVE  IInv'
<1> DEFINE r == row[act[w].tx]
           new == [r EXCEPT !.status = SetStatus(r, act[w].doc, "pending"),
                            !.group = UnsetGroup(r, act[w].doc),
                            !.mgr = IF act[w].doc.mgr THEN FALSE ELSE @]
<1>0. /\ w \in Actors /\ ~At(w, "idle") /\ act[w] \in Action /\ UNCHANGED money
      /\ r \in Row
  BY OnRow DEF SaveMismatch, At, Actors, IInv
<1>1. /\ act[w].doc = r /\ r.status = "processing" /\ r.data.att = 0
  BY <1>0, OnItsRow DEF SaveMismatch, At, ActorHolds, ActOK
<1>2. TryWrite(w, new, "end", "exc")
  BY DEF SaveMismatch
<1>3. /\ RowHolds(act[w].tx) /\ paid[act[w].tx] \in Nat /\ handed[act[w].tx] \in Nat
  BY <1>0, OnRow, OnItsRow DEF IInv, TypeInv, CountersTyped
<1>4. ~r.op /\ ~r.mgr
  BY <1>1, <1>3 DEF RowHolds, RowOK
<1>5. new \in Row
  <2>1. /\ UnsetGroup(r, act[w].doc) \in Groups \cup {NoGroup}
        /\ SetStatus(r, act[w].doc, "pending") \in Statuses
        /\ (IF act[w].doc.mgr THEN FALSE ELSE r.mgr) \in BOOLEAN
    BY <1>0, <1>1, UnsetGroupTyped, SetStatusTyped DEF Row, Statuses
  <2> HIDE DEF r
  <2> QED  BY <1>0, <2>1, ManagerSaveTyped DEF new
<1>6. /\ new.status = "pending" /\ new.group = NoGroup /\ ~new.op
      /\ ~new.mgr /\ new.data = r.data
  BY <1>0, <1>1, <1>4, GroupsAssumption DEF Row, SetStatus, UnsetGroup
<1> HIDE DEF new
<1>7. RowOK(new, paid[act[w].tx], handed[act[w].tx], debits[act[w].tx], refunded[act[w].tx])
  BY <1>0, <1>1, <1>3, <1>5, <1>6, PooledOK DEF RowHolds
<1> QED
  BY <1>0, <1>1, <1>2, <1>7, EndOK, ExcOK, TryWriteFrame

LEMMA ExcSaveCalm ==
    ASSUME Calm, IInv, TypeInv', NEW w \in Workers, ExcSave(w)
    PROVE  IInv'
<1> DEFINE r == row[act[w].tx]
           new == [r EXCEPT !.status = SetStatus(r, act[w].doc, "pending"),
                            !.group = UnsetGroup(r, act[w].doc)]
<1>0. /\ w \in Actors /\ ~At(w, "idle") /\ act[w] \in Action /\ UNCHANGED money
      /\ r \in Row
  BY OnRow DEF ExcSave, At, Actors, IInv
<1>1. /\ act[w].doc = r /\ r.status = "processing" /\ r.data.att = 0
  BY <1>0, OnItsRow DEF ExcSave, At, ActorHolds, ActOK
<1>2. TryWrite(w, new, "end", "end")
  BY DEF ExcSave
<1>3. /\ RowHolds(act[w].tx) /\ paid[act[w].tx] \in Nat /\ handed[act[w].tx] \in Nat
  BY <1>0, OnRow, OnItsRow DEF IInv, TypeInv, CountersTyped
<1>4. ~r.op /\ ~r.mgr
  BY <1>1, <1>3 DEF RowHolds, RowOK
<1>5. new \in Row
  <2>1. /\ UnsetGroup(r, act[w].doc) \in Groups \cup {NoGroup}
        /\ SetStatus(r, act[w].doc, "pending") \in Statuses
        /\ r.data \in ApiResultData
    BY <1>0, <1>1, UnsetGroupTyped, SetStatusTyped DEF Row, Statuses
  <2> HIDE DEF r
  <2> QED  BY <1>0, <2>1, StatusSaveTyped, BoundAssumption DEF new
<1>6. /\ new.status = "pending" /\ new.group = NoGroup /\ ~new.op
      /\ ~new.mgr /\ new.data = r.data
  BY <1>0, <1>1, <1>4, GroupsAssumption DEF Row, SetStatus, UnsetGroup
<1> HIDE DEF new
<1>7. RowOK(new, paid[act[w].tx], handed[act[w].tx], debits[act[w].tx], refunded[act[w].tx])
  BY <1>0, <1>1, <1>3, <1>5, <1>6, PooledOK DEF RowHolds
<1> QED
  BY <1>0, <1>1, <1>2, <1>7, EndOK, TryWriteFrame

\* The fields of a row whose data are replaced.
LEMMA SetDataFields ==
    ASSUME NEW r \in Row, NEW d \in ApiResultData
    PROVE  LET s == [r EXCEPT !.data = d] IN
           /\ s.data = d /\ s.status = r.status /\ s.group = r.group /\ s.op = r.op
           /\ s.mgr = r.mgr /\ s.v = r.v
BY DEF Row

LEMMA SaveHoldCalm ==
    ASSUME Calm, IInv, TypeInv', NEW w \in Workers, SaveHold(w)
    PROVE  IInv'
<1> DEFINE r == row[act[w].tx]
           d == [act[w].doc.data EXCEPT !.result = "pending_reference",
                                        !.unres = TRUE, !.ref = act[w].out]
           new == [r EXCEPT !.data = d]
<1>0. /\ w \in Actors /\ ~At(w, "idle") /\ act[w] \in Action /\ UNCHANGED money
      /\ r \in Row
  BY OnRow DEF SaveHold, At, Actors, IInv
<1>1. /\ act[w].doc = r /\ r.status = "processing"
      /\ r.data.outcome = "none" /\ r.data.result = "none" /\ ~r.data.unres
      /\ paid[act[w].tx] = 1 /\ act[w].out \in {"full", "none"}
  BY <1>0, OnItsRow DEF SaveHold, At, ActorHolds, ActOK
<1>2. TryWrite(w, new, "end", "exc")
  BY DEF SaveHold
<1>3. RowHolds(act[w].tx) /\ r.data.att # 0 /\ r.data \in ApiResultData
  BY <1>0, <1>1, OnItsRow DEF RowHolds, RowOK, Row
<1>4. /\ d \in ApiResultData /\ d.att = r.data.att /\ d.result = "pending_reference"
      /\ d.unres /\ d.outcome = "none" /\ d.effect = r.data.effect
  BY <1>1, <1>3 DEF ApiResultData
<1>5. NeedsUnresolvedHold(r)
  BY <1>1, <1>3 DEF NeedsUnresolvedHold, HasDispatchMarker, HasDefinitiveProviderResult
<1> HIDE DEF d
<1>6. RowOK(new, paid[act[w].tx], handed[act[w].tx], debits[act[w].tx], refunded[act[w].tx])
  BY <1>0, <1>1, <1>3, <1>4, SetDataFields DEF RowHolds, RowOK
<1> HIDE DEF new
<1> QED
  BY <1>0, <1>1, <1>2, <1>5, <1>6, EndOK, ExcOK, TryWriteFrame

\* What an actor that is completing the transfer knows of its row.
LEMMA Completing ==
    ASSUME IInv, NEW a \in Actors, NEW r, r = row[act[a].tx],
           act[a].pc \in {"findDebit", "postDebit", "saveDone"}
    PROVE  /\ ~At(a, "idle") /\ act[a] \in Action /\ r \in Row /\ act[a].tx \in Tx
           /\ act[a].doc = r /\ r.status = "processing" /\ r.group = act[a].grp
           /\ paid[act[a].tx] = 1 /\ r.data.att # 0
           /\ act[a].grp \in Groups /\ debits[act[a].tx] \in [Groups -> Nat]
           /\ \/ /\ a \in Workers /\ act[a].out = "masked"
                 /\ r.data.outcome = "none" /\ r.data.result = "none" /\ ~r.data.unres
              \/ a \in Admins /\ act[a].out = "paid" /\ r.data.outcome = "paid"
<1>1. ~At(a, "idle")
  BY DEF At
<1>2. /\ act[a] \in Action /\ r \in Row /\ act[a].tx \in Tx /\ RowHolds(act[a].tx)
      /\ debits[act[a].tx] \in [Groups -> Nat]
  BY <1>1, OnRow, OnItsRow DEF IInv, TypeInv, CountersTyped
<1>3. /\ act[a].doc = r /\ r.status = "processing" /\ r.group = act[a].grp
      /\ paid[act[a].tx] = 1
      /\ \/ /\ a \in Workers /\ act[a].out = "masked"
            /\ r.data.outcome = "none" /\ r.data.result = "none" /\ ~r.data.unres
         \/ a \in Admins /\ act[a].out = "paid" /\ r.data.outcome = "paid"
  BY <1>1, OnItsRow DEF ActorHolds, ActOK
<1> QED
  BY <1>1, <1>2, <1>3 DEF RowHolds, RowOK

LEMMA FindDebitCalm ==
    ASSUME Calm, IInv, TypeInv', NEW a \in Actors, FindDebit(a)
    PROVE  IInv'
<1> DEFINE r == row[act[a].tx]
           d == debits[act[a].tx]
<1>1. PICK pc \in {"postDebit", "saveDone"} :
        Goto(a, pc) /\ (pc = "postDebit" => d[act[a].grp] = 0)
  BY CalmFacts DEF FindDebit
<1>2. UNCHANGED <<row, money>> /\ act[a].pc = "findDebit"
  BY DEF FindDebit, At
<1> DEFINE x == [act[a] EXCEPT !.pc = pc]
<1>3. act' = [act EXCEPT ![a] = x]
  BY <1>1 DEF Goto
<1>4. pc = "postDebit" => \A g \in Groups : d[g] = 0
  <2>1. RowHolds(act[a].tx) /\ r.group = act[a].grp
    BY <1>2, Completing, OnItsRow DEF At
  <2> QED  BY <1>1, <2>1 DEF RowHolds, RowOK
<1>5. ActOK(a, x, r, paid[act[a].tx], d) /\ x.tx = act[a].tx
  <2>1. act[a] \in Action
    BY <1>2, Completing
  <2>2. /\ x.pc = pc /\ x.tx = act[a].tx /\ x.grp = act[a].grp /\ x.doc = act[a].doc
        /\ x.out = act[a].out
    BY <2>1, MovedFields
  <2> HIDE DEF x, d
  <2> QED  BY <1>2, <1>4, <2>2, Completing DEF ActOK
<1> QED
  BY <1>2, <1>3, <1>5, MoveFrame DEF At

LEMMA PostDebitCalm ==
    ASSUME Calm, IInv, TypeInv', NEW a \in Actors, PostDebit(a)
    PROVE  IInv'
<1> DEFINE r == row[act[a].tx]
           d == debits[act[a].tx]
           x == [act[a] EXCEPT !.pc = "saveDone"]
           e == [d EXCEPT ![act[a].grp] = 1]
<1>1. /\ UNCHANGED <<row, paid, handed, refunded>> /\ act[a].pc = "postDebit"
      /\ act' = [act EXCEPT ![a] = x]
  BY DEF PostDebit, At, Goto
<1>2. act[a] \in Action /\ act[a].tx \in Tx /\ act[a].grp \in Groups /\ d \in [Groups -> Nat]
  BY <1>1, Completing
<1>3. /\ x.pc = "saveDone" /\ x.tx = act[a].tx /\ x.grp = act[a].grp
      /\ x.doc = act[a].doc /\ x.out = act[a].out
  BY <1>2, MovedFields
<1>4. \A g \in Groups : d[g] = 0
  BY <1>1, OnItsRow DEF ActorHolds, ActOK, At
<1>5. RowHolds(act[a].tx) /\ paid[act[a].tx] = 1 /\ r.group = act[a].grp
  BY <1>1, Completing, OnItsRow DEF At
<1>6. ASSUME NEW q
      PROVE  ActOK(a, x, r, paid[act[a].tx], q)
  <2> HIDE DEF x
  <2> QED  BY <1>1, <1>3, Completing DEF ActOK
<1>7. CASE debits' = [debits EXCEPT ![act[a].tx][act[a].grp] = @ + 1]
  <2>1. debits' = [debits EXCEPT ![act[a].tx] = e]
    <3>1. d[act[a].grp] + 1 = 1
      BY <1>2, <1>4
    <3> QED  BY <1>7, <3>1
  <2>2. \A g \in Groups : e[g] = IF g = act[a].grp THEN 1 ELSE 0
    BY <1>2, <1>4
  <2>3. paid' = [paid EXCEPT ![act[a].tx] = paid[act[a].tx]]
    BY <1>1 DEF IInv, TypeInv, CountersTyped
  <2> HIDE DEF e, x
  <2>4. RowOK(r, paid[act[a].tx], handed[act[a].tx], e, refunded[act[a].tx])
    BY <1>5, <2>2 DEF RowHolds, RowOK
  <2> QED  BY <1>1, <1>3, <1>6, <2>1, <2>3, <2>4, MoneyFrame DEF At
<1>8. CASE UNCHANGED debits
  <2> HIDE DEF x
  <2> QED  BY <1>1, <1>3, <1>6, <1>8, MoveFrame DEF At, money
<1> QED
  BY <1>7, <1>8 DEF PostDebit

LEMMA SaveDoneCalm ==
    ASSUME Calm, IInv, TypeInv', NEW a \in Actors, NEW err \in {"exc", "end"},
           a \in Workers <=> err = "exc", SaveDone(a, err)
    PROVE  IInv'
<1> DEFINE r == row[act[a].tx]
           p == paid[act[a].tx]
           h == handed[act[a].tx]
           d == debits[act[a].tx]
           f == refunded[act[a].tx]
           data(ref, o) == [r.data EXCEPT !.result = "accepted", !.unres = FALSE,
                                          !.ref = ref, !.outcome = o]
           done(ref, o) == [r EXCEPT !.status = "completed", !.data = data(ref, o),
                                     !.v = r.v + 1]
           done0(ref, o) == [r EXCEPT !.status = "completed", !.data = data(ref, o)]
           Written(s) == /\ s.status = "completed" /\ s.group = r.group /\ s.mgr = r.mgr
                         /\ s.data.att = r.data.att /\ s.data.result = "accepted"
                         /\ ~s.data.unres /\ s.data.ref # "none"
                         /\ s.data.outcome \in {"none", "paid"}
                         /\ s.data.effect = r.data.effect
                         /\ s.data.effect => s.data.outcome # "none"
<1>0. act[a].pc = "saveDone" /\ UNCHANGED money /\ ~At(a, "idle")
  BY DEF SaveDone, At
<1>1. /\ act[a] \in Action /\ r \in Row /\ act[a].tx \in Tx /\ act[a].doc = r
      /\ r.status = "processing" /\ p = 1 /\ r.data.att # 0
      /\ \/ /\ a \in Workers /\ act[a].out = "masked"
            /\ r.data.outcome = "none" /\ r.data.result = "none" /\ ~r.data.unres
         \/ a \in Admins /\ act[a].out = "paid" /\ r.data.outcome = "paid"
  BY <1>0, Completing
<1>2. RowOK(r, p, h, d, f) /\ r.data \in ApiResultData /\ r.v \in Nat /\ h \in Nat
  BY <1>0, <1>1, OnItsRow DEF RowHolds, Row, IInv, TypeInv, CountersTyped
<1>3. ASSUME NEW ref \in {"masked", "full"}, NEW o \in {"none", "paid"},
             r.data.outcome = o
      PROVE  Written(done(ref, o)) /\ Written(done0(ref, o))
  <2>1. r.data.effect => o # "none"
    BY <1>2, <1>3 DEF RowOK
  <2>2. /\ data(ref, o).att = r.data.att /\ data(ref, o).result = "accepted"
        /\ ~data(ref, o).unres /\ data(ref, o).ref = ref /\ data(ref, o).outcome = o
        /\ data(ref, o).effect = r.data.effect
    BY <1>2 DEF ApiResultData
  <2> HIDE DEF data
  <2> QED  BY <1>1, <2>1, <2>2 DEF Row
<1>4. ASSUME NEW s, Written(s)
      PROVE  RowOK(s, p, h, d, f)
  <2>1. s.status = "completed" /\ s.group \in ApiGroups
    BY <1>1, <1>2, <1>4 DEF RowOK
  <2>2. h = 0 /\ f = "no"
    BY <1>1, <1>2 DEF RowOK
  <2> HIDE DEF r, p, h, d, f
  <2> QED  BY <1>1, <1>2, <1>4, <2>1, <2>2 DEF RowOK
<1>5. ActOK(a, [act[a] EXCEPT !.pc = err], r, p, d)
  <2>1. CASE err = "end"
    BY <1>1, <2>1, EndOK
  <2>2. CASE err = "exc"
    <3>1. NeedsUnresolvedHold(r)
      BY <1>1, <2>2, ActorsAssumption
      DEF NeedsUnresolvedHold, HasDispatchMarker, HasDefinitiveProviderResult
    <3> QED  BY <1>1, <2>2, <3>1, ExcOK
  <2> QED  BY <2>1, <2>2
<1>6. ASSUME NEW s, Written(s), TryWrite(a, s, "end", err)
      PROVE  IInv'
  <2> HIDE DEF r, p, h, d, f, Written
  <2> QED  BY <1>0, <1>1, <1>4, <1>5, <1>6, EndOK, TryWriteFrame DEF r, p, h, d, f
<1>7. PICK ref \in {"masked", "full"}, o \in {"none", "paid"} :
         /\ r.data.outcome = o
         /\ \/ TryWrite(a, done(ref, o), "end", err)
            \/ TryWrite(a, done0(ref, o), "end", err)
  <2> DEFINE doc == act[a].doc
             st == SetStatus(r, doc, "completed")
             row0(ref, o) == [r EXCEPT !.status = st,
                                !.data = [doc.data EXCEPT !.result = "accepted",
                                            !.unres = FALSE, !.ref = ref, !.outcome = o]]
  <2>1. PICK ref \in {"masked", "full"}, o \in {"none", "paid"} :
          /\ r.data.outcome = o
          /\ \/ TryWrite(a, [row0(ref, o) EXCEPT !.v = @ + 1], "end", err)
             \/ TryWrite(a, row0(ref, o), "end", err)
    <3>1. PICK s \in IF act[a].out = "paid"
                     THEN {row0(ref, "paid") : ref \in {"masked", "full"}}
                     ELSE {row0("masked", doc.data.outcome)} :
            \/ r.v = doc.v /\ TryWrite(a, [s EXCEPT !.v = @ + 1], "end", err)
            \/ r.v # doc.v /\ Goto(a, err) /\ UNCHANGED row
            \/ "writeError" \in Env /\ TryWrite(a, s, "end", err)
      BY DEF SaveDone
    <3>2. \/ TryWrite(a, [s EXCEPT !.v = @ + 1], "end", err)
          \/ TryWrite(a, s, "end", err)
      BY <1>1, <3>1
    <3>3. PICK ref \in {"masked", "full"}, o \in {"none", "paid"} :
            r.data.outcome = o /\ s = row0(ref, o)
      <4> HIDE DEF row0
      <4> QED  BY <1>1, <3>1
    <3> QED  BY <3>2, <3>3
  <2>2. row0(ref, o) = done0(ref, o)
    BY <1>1 DEF SetStatus
  <2>3. [row0(ref, o) EXCEPT !.v = @ + 1] = done(ref, o)
    <3>1. done0(ref, o).v = r.v
      BY <1>1 DEF Row
    <3>2. [done0(ref, o) EXCEPT !.v = @ + 1] = [done0(ref, o) EXCEPT !.v = r.v + 1]
      <4> HIDE DEF done0
      <4> QED  BY <3>1
    <3> QED  BY <2>2, <3>2
  <2> DEFINE e == [row0(ref, o) EXCEPT !.v = @ + 1]
  <2>4. \/ TryWrite(a, done(ref, o), "end", err)
        \/ TryWrite(a, done0(ref, o), "end", err)
    <3>1. TryWrite(a, e, "end", err) \/ TryWrite(a, row0(ref, o), "end", err)
      BY <2>1
    <3>2. e = done(ref, o)
      BY <2>3
    <3> HIDE DEF e, row0, done, done0
    <3> QED  BY <2>2, <3>1, <3>2
  <2>5. r.data.outcome = o
    BY <2>1
  <2> HIDE DEF row0, done, done0
  <2> QED  BY <2>4, <2>5
<1>8. Written(done(ref, o)) /\ Written(done0(ref, o))
  <2> HIDE DEF Written, done, done0
  <2> QED  BY <1>3, <1>7
<1> QED
  <2> HIDE DEF Written, done, done0
  <2> QED  BY <1>6, <1>7, <1>8

LEMMA ExcCalm ==
    ASSUME Calm, IInv, TypeInv', NEW w \in Workers, Exc(w)
    PROVE  IInv'
<1> DEFINE r == row[act[w].tx]
           x == [act[w] EXCEPT !.pc = "excSave", !.doc = r]
<1>0. w \in Actors /\ ~At(w, "idle") /\ UNCHANGED <<row, money>> /\ act[w] \in Action
  BY OnRow DEF Exc, At, Actors, IInv
<1>1. CASE GotoWith(w, "mark", "exc")
  BY <1>0, <1>1, FreeGoto DEF Outs
<1>2. CASE /\ ~NeedsUnresolvedHold(r)
           /\ act' = [act EXCEPT ![w].pc = "excSave", ![w].doc = r]
  <2>1. act' = [act EXCEPT ![w] = x]
    BY <1>2 DEF IInv, TypeInv, ActTyped
  <2>2. x.pc = "excSave" /\ x.tx = act[w].tx /\ x.grp = act[w].grp /\ x.doc = r
    BY <1>0 DEF Action
  <2>3. r.status = "processing" /\ r.data.att = 0
    BY <1>0, <1>2, OnItsRow DEF Exc, At, ActorHolds, ActOK
  <2> HIDE DEF x
  <2>4. ActOK(w, x, r, paid[act[w].tx], debits[act[w].tx])
    BY <2>2, <2>3 DEF ActOK
  <2> QED  BY <1>0, <2>1, <2>2, <2>4, MoveFrame
<1> QED
  BY <1>1, <1>2, CalmFacts DEF Exc

\* An actor leaves: its run or request ended, or its process stopped.
LEMMA LeaveCalm ==
    ASSUME Calm, IInv, TypeInv', NEW a \in Actors, ~At(a, "idle"), UNCHANGED <<row, money>>,
           act' = [act EXCEPT ![a] = Idle]
    PROVE  IInv'
<1>1. Idle.tx = NoTx /\ act[a].tx # NoTx
  BY OnItsRow DEF Idle
<1> QED
  BY <1>1, MoveFrame

LEMMA MarkThrowsCalm ==
    ASSUME Calm, IInv, TypeInv', NEW a \in Actors, ~At(a, "idle"), UNCHANGED <<row, money>>,
           row[act[a].tx].status = "processing", NeedsUnresolvedHold(row[act[a].tx]),
           MarkThrows(a)
    PROVE  IInv'
<1>0. act[a] \in Action
  BY OnRow DEF IInv
<1>1. CASE Goto(a, "exc")
  <2> DEFINE x == [act[a] EXCEPT !.pc = "exc"]
  <2>1. act' = [act EXCEPT ![a] = x]
    BY <1>1 DEF Goto
  <2>2. x.tx = act[a].tx
    BY <1>0, MovedFields
  <2>3. ActOK(a, x, row[act[a].tx], paid[act[a].tx], debits[act[a].tx])
    BY <1>0, ExcOK
  <2> HIDE DEF x
  <2> QED  BY <2>1, <2>2, <2>3, MoveFrame
<1>2. CASE Goto(a, "end")
  BY <1>2, FreeGoto
<1>3. CASE JobThrows(a)
  BY <1>3, LeaveCalm DEF JobThrows
<1> QED
  BY <1>1, <1>2, <1>3 DEF MarkThrows

LEMMA MarkCalm ==
    ASSUME Calm, IInv, TypeInv', NEW a \in Actors, Mark(a)
    PROVE  IInv'
<1> DEFINE r == row[act[a].tx]
           x == [act[a] EXCEPT !.pc = "markCas", !.att = r.data.att]
<1>0. ~At(a, "idle") /\ UNCHANGED <<row, money>> /\ act[a] \in Action
  BY OnRow DEF Mark, At, IInv
<1>1. CASE Goto(a, "end")
  BY <1>0, <1>1, FreeGoto
<1>2. CASE /\ r.status = "processing" /\ NeedsUnresolvedHold(r)
           /\ act' = [act EXCEPT ![a].pc = "markCas", ![a].att = r.data.att]
  <2>1. act' = [act EXCEPT ![a] = x]
    BY <1>2 DEF IInv, TypeInv, ActTyped
  <2>2. x.pc = "markCas" /\ x.tx = act[a].tx /\ x.att = r.data.att
    BY <1>0 DEF Action
  <2> HIDE DEF x
  <2>3. ActOK(a, x, r, paid[act[a].tx], debits[act[a].tx])
    BY <1>2, <2>2 DEF ActOK
  <2> QED  BY <1>0, <2>1, <2>2, <2>3, MoveFrame
<1> QED
  BY <1>1, <1>2, CalmFacts DEF Mark, NeedsUnresolvedHold

LEMMA FlaggedFields ==
    ASSUME NEW r \in Row
    PROVE  LET s == Flagged(r) IN
           /\ s.data.unres
           /\ s.status = r.status /\ s.group = r.group /\ s.op = r.op /\ s.mgr = r.mgr
           /\ s.v = r.v /\ s.data.result = r.data.result /\ s.data.att = r.data.att
           /\ s.data.ref = r.data.ref /\ s.data.outcome = r.data.outcome
           /\ s.data.effect = r.data.effect
BY DEF Flagged, Row, ApiResultData

LEMMA MarkCasCalm ==
    ASSUME Calm, IInv, TypeInv', NEW a \in Actors, MarkCas(a)
    PROVE  IInv'
<1> DEFINE r == row[act[a].tx]
           x == [act[a] EXCEPT !.pc = "end"]
<1>0. /\ ~At(a, "idle") /\ UNCHANGED money /\ act[a] \in Action /\ r \in Row
  BY OnRow DEF MarkCas, At, IInv
<1>1. r.status = "processing" /\ NeedsUnresolvedHold(r) /\ r.data.att = act[a].att
  BY <1>0, OnItsRow DEF MarkCas, At, ActorHolds, ActOK
<1>2. CASE row' = [row EXCEPT ![act[a].tx] = Flagged(@)] /\ Goto(a, "end")
  <2>1. act' = [act EXCEPT ![a] = x] /\ row' = [row EXCEPT ![act[a].tx] = Flagged(r)]
    BY <1>2 DEF Goto
  <2>2. x.tx = act[a].tx
    BY <1>0, MovedFields
  <2>3. RowOK(Flagged(r), paid[act[a].tx], handed[act[a].tx], debits[act[a].tx],
              refunded[act[a].tx])
    <3>1. RowHolds(act[a].tx) /\ r.data.att # 0
      BY <1>0, <1>1, OnItsRow DEF NeedsUnresolvedHold, HasDispatchMarker
    <3> QED  BY <1>0, <1>1, <3>1, FlaggedFields DEF RowHolds, RowOK
  <2>4. ActOK(a, x, Flagged(r), paid[act[a].tx], debits[act[a].tx])
    BY <1>0, EndOK
  <2> HIDE DEF x
  <2> QED  BY <1>0, <2>1, <2>2, <2>3, <2>4, WriteFrame
<1>3. CASE UNCHANGED row /\ Goto(a, "end")
  BY <1>0, <1>3, FreeGoto
<1>4. CASE UNCHANGED row /\ MarkThrows(a)
  BY <1>0, <1>1, <1>4, MarkThrowsCalm
<1> QED
  BY <1>0, <1>2, <1>3, <1>4, CalmFacts DEF MarkCas

LEMMA LeaveStepsCalm ==
    ASSUME Calm, IInv, TypeInv', NEW a \in Actors,
           EndJob(a) \/ Crash(a) \/ RequestDies(a) \/ EndRequest(a)
    PROVE  IInv'
BY LeaveCalm DEF EndJob, Crash, RequestDies, EndRequest, At

\* A job or a request begins on a row nobody is on.
LEMMA BeginFrame ==
    ASSUME IInv, TypeInv', NEW a \in Actors, NEW t \in Tx, \A b \in Actors : act[b].tx # t,
           UNCHANGED <<row, money>>,
           NEW pc, NEW g, NEW d, NEW o, Begin(a, pc, t, g, d, o),
           ActOK(a, [pc |-> pc, tx |-> t, grp |-> g, doc |-> d, att |-> 0, out |-> o],
                 row[t], paid[t], debits[t])
    PROVE  IInv'
<1> DEFINE x == [pc |-> pc, tx |-> t, grp |-> g, doc |-> d, att |-> 0, out |-> o]
<1>1. act' = [act EXCEPT ![a] = x] /\ x.tx = t
  BY DEF Begin
<1> HIDE DEF x
<1>2. act'[a] = x /\ OnlyActor(a) /\ OnlyRow(t)
  BY <1>1 DEF IInv, TypeInv, ActTyped, OnlyActor, OnlyRow, money
<1>3. RowHolds(t)'
  BY DEF IInv, RowsOK, RowHolds, money
<1>4. ActOK(a, act'[a], row'[t], paid'[t], debits'[t])
  BY <1>2 DEF money, x
<1> QED
  BY <1>1, <1>2, <1>3, <1>4, ActorFrame

LEMMA NobodyOn ==
    ASSUME Calm, NEW t \in Tx, PeopleMayAct(t) \/ JobMayRun(t)
    PROVE  \A b \in Actors : act[b].tx # t
BY CalmFacts DEF PeopleMayAct, JobMayRun, Working, Serving, Actors

LEMMA StartJobCalm ==
    ASSUME Calm, IInv, TypeInv', NEW w \in Workers, NEW t \in Tx, NEW g \in ApiGroups,
           StartJob(w, t, g)
    PROVE  IInv'
<1>1. ActOK(w, [pc |-> "guard", tx |-> t, grp |-> g, doc |-> NewRow, att |-> 0, out |-> "none"],
            row[t], paid[t], debits[t])
  BY DEF ActOK
<1> QED
  BY <1>1, NobodyOn, BeginFrame DEF StartJob, Actors

LEMMA RouteCalm ==
    ASSUME Calm, IInv, TypeInv', NEW a \in Admins, NEW t \in Tx, NEW g \in Groups,
           Route(a, t, g)
    PROVE  IInv'
<1>1. ActOK(a, [pc |-> "routeCas", tx |-> t, grp |-> g, doc |-> row[t], att |-> 0,
                out |-> "none"], row[t], paid[t], debits[t])
  BY DEF ActOK
<1> QED
  BY <1>1, NobodyOn, BeginFrame DEF Route, Actors

\* A row in the hands of nobody, that is not held, was not sent.
LEMMA NotHeldNotSent ==
    ASSUME NEW r \in Row, NEW p, NEW h, NEW d, NEW f, RowOK(r, p, h, d, f),
           r.status \in {"pending", "processing", "accepted"}, ~ProviderMoneyHold(r)
    PROVE  r.data.att = 0
BY DEF RowOK, ProviderMoneyHold, NeedsUnresolvedHold, HasDispatchMarker,
       HasDefinitiveProviderResult, Row, ApiResultData

LEMMA PullCalm ==
    ASSUME Calm, IInv, TypeInv', NEW a \in Admins, NEW t \in Tx, Pull(a, t)
    PROVE  IInv'
<1>1. row[t].data.att = 0 /\ row[t].status \in {"processing", "accepted"}
  BY NotHeldNotSent DEF Pull, IInv, TypeInv, RowTyped, RowsOK
<1>2. ActOK(a, [pc |-> "pullSave", tx |-> t, grp |-> row[t].group, doc |-> row[t],
                att |-> 0, out |-> "none"], row[t], paid[t], debits[t])
  BY <1>1 DEF ActOK
<1> QED
  BY <1>2, NobodyOn, BeginFrame DEF Pull, Actors

LEMMA ResolveCalm ==
    ASSUME Calm, IInv, TypeInv', NEW a \in Admins, NEW t \in Tx, NEW o \in {"paid", "notpaid"},
           Resolve(a, t, o)
    PROVE  IInv'
<1> DEFINE r == row[t]
<1>1. RowHolds(t) /\ r \in Row /\ paid[t] \in Nat /\ handed[t] \in Nat
  BY DEF IInv, TypeInv, RowTyped, CountersTyped, RowsOK, RowHolds
<1>2. /\ r.status \in {"pending", "processing", "accepted"}
      /\ r.data.unres \/ r.data.result = "pending_reference" \/ r.data.att # 0
            \/ r.data.ref # "none"
  BY DEF Resolve, CanReviewProviderOperation, HasDispatchMarker
<1>3. r.status = "processing" /\ r.data.att # 0
  BY <1>1, <1>2 DEF RowHolds, RowOK
<1>4. o = "paid" <=> paid[t] = 1
  BY <1>1 DEF Resolve, Evidence, RowHolds, RowOK
<1>5. ActOK(a, [pc |-> "resClaim", tx |-> t, grp |-> row[t].group, doc |-> row[t],
                att |-> 0, out |-> o], row[t], paid[t], debits[t])
  BY <1>3, <1>4 DEF ActOK
<1> QED
  BY <1>5, NobodyOn, BeginFrame DEF Resolve, Actors

LEMMA RoutedFields ==
    ASSUME Calm, NEW r \in Row, NEW g
    PROVE  LET s == RoutedTo(r, g) IN
           /\ s.status = "processing" /\ s.group = g /\ ~s.mgr
           /\ s.op = r.op /\ s.v = r.v /\ s.data = r.data
BY CalmFacts DEF RoutedTo, Row

LEMMA RouteCasCalm ==
    ASSUME Calm, IInv, TypeInv', NEW a \in Admins, RouteCas(a)
    PROVE  IInv'
<1> DEFINE r == row[act[a].tx]
           q == RoutedTo(r, act[a].grp)
           x(pc) == [act[a] EXCEPT !.pc = pc]
<1>0. /\ a \in Actors /\ ~At(a, "idle") /\ act[a] \in Action /\ UNCHANGED money
      /\ r \in Row
  BY OnRow DEF RouteCas, At, Actors, IInv
<1>1. CASE Goto(a, "end") /\ UNCHANGED row
  BY <1>0, <1>1, FreeGoto
<1>2. ASSUME NEW pc \in {"enqueue", "end"}, Goto(a, pc), r.status = "pending",
             row' = [row EXCEPT ![act[a].tx] = q]
      PROVE  IInv'
  <2>1. act' = [act EXCEPT ![a] = x(pc)]
    BY <1>2 DEF Goto
  <2>2. x(pc).pc = pc /\ x(pc).tx = act[a].tx
    BY <1>0, MovedFields
  <2>3. act[a].grp \in Groups
    BY <1>0, OnItsRow DEF RouteCas, At, ActorHolds, ActOK
  <2>4. RowHolds(act[a].tx) /\ paid[act[a].tx] \in Nat /\ handed[act[a].tx] \in Nat
    BY <1>0, OnRow, OnItsRow DEF IInv, TypeInv, CountersTyped
  <2>5. r.data.att = 0 /\ \A g \in Groups : debits[act[a].tx][g] = 0
    BY <1>2, <2>4, GroupsAssumption DEF RowHolds, RowOK
  <2> HIDE DEF x, q
  <2>6. RowOK(q, paid[act[a].tx], handed[act[a].tx], debits[act[a].tx], refunded[act[a].tx])
    BY <1>0, <1>2, <2>3, <2>4, <2>5, RoutedFields DEF RowHolds, RowOK, q
  <2>7. ActOK(a, x(pc), q, paid[act[a].tx], debits[act[a].tx])
    BY <1>2, <2>2, FreePcs
  <2> QED  BY <1>0, <1>2, <2>1, <2>2, <2>6, <2>7, WriteFrame
<1> QED
  BY <1>1, <1>2, CalmFacts DEF RouteCas

LEMMA EnqueueCalm ==
    ASSUME Calm, IInv, TypeInv', NEW a \in Admins, Enqueue(a)
    PROVE  IInv'
<1>1. a \in Actors /\ ~At(a, "idle") /\ UNCHANGED <<row, money>>
  BY DEF Enqueue, At, Actors
<1>2. Goto(a, "end") \/ GotoWith(a, "mark", "guard")
  BY DEF Enqueue
<1> QED
  BY <1>1, <1>2, FreeGoto DEF Outs

LEMMA PullSaveCalm ==
    ASSUME Calm, IInv, TypeInv', NEW a \in Admins, PullSave(a)
    PROVE  IInv'
<1> DEFINE r == row[act[a].tx]
           new == [r EXCEPT !.status = SetStatus(r, act[a].doc, "pending"),
                            !.group = UnsetGroup(r, act[a].doc),
                            !.op = IF act[a].doc.op THEN FALSE ELSE @,
                            !.mgr = IF act[a].doc.mgr THEN FALSE ELSE @]
<1>0. /\ a \in Actors /\ ~At(a, "idle") /\ act[a] \in Action /\ UNCHANGED money
      /\ r \in Row
  BY OnRow DEF PullSave, At, Actors, IInv
<1>1. act[a].doc = r /\ r.status \in {"processing", "accepted"} /\ r.data.att = 0
  BY <1>0, OnItsRow DEF PullSave, At, ActorHolds, ActOK
<1>2. TryWrite(a, new, "end", "end")
  BY DEF PullSave
<1>3. /\ RowHolds(act[a].tx) /\ paid[act[a].tx] \in Nat /\ handed[act[a].tx] \in Nat
  BY <1>0, OnRow, OnItsRow DEF IInv, TypeInv, CountersTyped
<1>4. ~r.mgr
  BY <1>1, <1>3 DEF RowHolds, RowOK
<1>5. new \in Row
  <2>1. /\ UnsetGroup(r, act[a].doc) \in Groups \cup {NoGroup}
        /\ SetStatus(r, act[a].doc, "pending") \in Statuses
        /\ (IF act[a].doc.op THEN FALSE ELSE r.op) \in BOOLEAN
        /\ (IF act[a].doc.mgr THEN FALSE ELSE r.mgr) \in BOOLEAN
    BY <1>0, <1>1, UnsetGroupTyped, SetStatusTyped DEF Row, Statuses
  <2> HIDE DEF r
  <2> QED  BY <1>0, <2>1, PullSaveTyped DEF new
<1>6. /\ new.status = "pending" /\ new.group = NoGroup /\ ~new.op
      /\ ~new.mgr /\ new.data = r.data
  BY <1>0, <1>1, <1>4, GroupsAssumption DEF Row, SetStatus, UnsetGroup
<1> HIDE DEF new
<1>7. RowOK(new, paid[act[a].tx], handed[act[a].tx], debits[act[a].tx], refunded[act[a].tx])
  BY <1>0, <1>1, <1>3, <1>5, <1>6, PooledOK DEF RowHolds
<1> QED
  BY <1>0, <1>1, <1>2, <1>7, EndOK, TryWriteFrame

LEMMA OutcomeFields ==
    ASSUME NEW r \in Row, NEW o
    PROVE  LET s == WithOutcome(r, o) IN
           /\ s.data.outcome = o
           /\ s.status = r.status /\ s.group = r.group /\ s.op = r.op /\ s.mgr = r.mgr
           /\ s.v = r.v /\ s.data.result = r.data.result /\ s.data.att = r.data.att
           /\ s.data.ref = r.data.ref /\ s.data.unres = r.data.unres
           /\ s.data.effect = r.data.effect
BY DEF WithOutcome, Row, ApiResultData

LEMMA ResClaimCalm ==
    ASSUME Calm, IInv, TypeInv', NEW a \in Admins, ResClaim(a)
    PROVE  IInv'
<1> DEFINE r == row[act[a].tx]
           q == WithOutcome(r, act[a].out)
           x == [act[a] EXCEPT !.pc = "resEffect"]
<1>0. /\ a \in Actors /\ ~At(a, "idle") /\ act[a] \in Action /\ UNCHANGED money
      /\ r \in Row
  BY OnRow DEF ResClaim, At, Actors, IInv
<1>1. /\ r.status = "processing" /\ r.data.att # 0
      /\ act[a].out \in {"paid", "notpaid"} /\ (act[a].out = "paid" <=> paid[act[a].tx] = 1)
  BY <1>0, OnItsRow DEF ResClaim, At, ActorHolds, ActOK
<1>2. /\ RowHolds(act[a].tx) /\ paid[act[a].tx] \in Nat /\ handed[act[a].tx] \in Nat
  BY <1>0, OnRow, OnItsRow DEF IInv, TypeInv, CountersTyped
<1>3. CASE Goto(a, "end") /\ UNCHANGED row
  BY <1>0, <1>3, FreeGoto
<1>4. CASE TryWrite(a, q, "resEffect", "end")
  <2>1. x.pc = "resEffect" /\ x.out = act[a].out
    BY <1>0, MovedFields
  <2> HIDE DEF x
  <2>2. ActOK(a, x, q, paid[act[a].tx], debits[act[a].tx])
    BY <1>0, <1>1, <2>1, OutcomeFields DEF ActOK
  <2>3. RowOK(q, paid[act[a].tx], handed[act[a].tx], debits[act[a].tx], refunded[act[a].tx])
    BY <1>0, <1>1, <1>2, OutcomeFields DEF RowHolds, RowOK
  <2> HIDE DEF q
  <2> QED  BY <1>0, <1>4, <2>2, <2>3, EndOK, TryWriteFrame DEF x
<1> QED
  BY <1>3, <1>4 DEF ResClaim

LEMMA EffectFields ==
    ASSUME NEW r \in Row
    PROVE  LET s == EffectStarted(r) IN
           /\ s.data.effect
           /\ s.status = r.status /\ s.group = r.group /\ s.op = r.op /\ s.mgr = r.mgr
           /\ s.v = r.v /\ s.data.result = r.data.result /\ s.data.att = r.data.att
           /\ s.data.ref = r.data.ref /\ s.data.unres = r.data.unres
           /\ s.data.outcome = r.data.outcome
BY DEF EffectStarted, Row, ApiResultData

LEMMA ResEffectCalm ==
    ASSUME Calm, IInv, TypeInv', NEW a \in Admins, ResEffect(a)
    PROVE  IInv'
<1> DEFINE r == row[act[a].tx]
           q == EffectStarted(r)
           x == [act[a] EXCEPT !.pc = "resRead"]
<1>0. /\ a \in Actors /\ ~At(a, "idle") /\ act[a] \in Action /\ UNCHANGED money
      /\ r \in Row
  BY OnRow DEF ResEffect, At, Actors, IInv
<1>1. /\ r.status = "processing" /\ r.data.att # 0
      /\ act[a].out \in {"paid", "notpaid"} /\ r.data.outcome = act[a].out
  BY <1>0, OnItsRow DEF ResEffect, At, ActorHolds, ActOK
<1>2. RowHolds(act[a].tx)
  BY <1>0, OnItsRow
<1>3. CASE Goto(a, "end") /\ UNCHANGED row
  BY <1>0, <1>3, FreeGoto
<1>4. CASE TryWrite(a, q, "resRead", "end")
  <2>1. x.pc = "resRead" /\ x.out = act[a].out
    BY <1>0, MovedFields
  <2> HIDE DEF x
  <2>2. ActOK(a, x, q, paid[act[a].tx], debits[act[a].tx])
    BY <1>0, <1>1, <2>1, EffectFields DEF ActOK
  <2>3. RowOK(q, paid[act[a].tx], handed[act[a].tx], debits[act[a].tx], refunded[act[a].tx])
    BY <1>0, <1>1, <1>2, EffectFields DEF RowHolds, RowOK
  <2> HIDE DEF q
  <2> QED  BY <1>0, <1>4, <2>2, <2>3, EndOK, TryWriteFrame DEF x
<1> QED
  BY <1>3, <1>4 DEF ResEffect

LEMMA ResReadCalm ==
    ASSUME Calm, IInv, TypeInv', NEW a \in Admins, ResRead(a)
    PROVE  IInv'
<1> DEFINE r == row[act[a].tx]
           x == [act[a] EXCEPT !.pc = "saveNotPaid", !.doc = r]
           y == [act[a] EXCEPT !.pc = "findDebit", !.doc = r, !.grp = r.group]
<1>0. a \in Actors /\ ~At(a, "idle") /\ act[a] \in Action /\ UNCHANGED <<row, money>>
  BY OnRow DEF ResRead, At, Actors, IInv
<1>1. /\ r.status = "processing" /\ r.data.att # 0
      /\ act[a].out \in {"paid", "notpaid"} /\ r.data.outcome = act[a].out
  BY <1>0, OnItsRow DEF ResRead, At, ActorHolds, ActOK
<1>2. CASE Goto(a, "end")
  BY <1>0, <1>2, FreeGoto
<1>3. CASE act[a].out = "notpaid" /\ act' = [act EXCEPT ![a].pc = "saveNotPaid", ![a].doc = r]
  <2>1. act' = [act EXCEPT ![a] = x]
    BY <1>3 DEF IInv, TypeInv, ActTyped
  <2>2. x.pc = "saveNotPaid" /\ x.tx = act[a].tx /\ x.doc = r
    BY <1>0 DEF Action
  <2> HIDE DEF x
  <2>3. ActOK(a, x, r, paid[act[a].tx], debits[act[a].tx])
    BY <1>1, <1>3, <2>2 DEF ActOK
  <2> QED  BY <1>0, <2>1, <2>2, <2>3, MoveFrame
<1>4. CASE /\ act[a].out = "paid"
           /\ act' = [act EXCEPT ![a].pc = "findDebit", ![a].doc = r, ![a].grp = r.group]
  <2>1. act' = [act EXCEPT ![a] = y]
    BY <1>4 DEF IInv, TypeInv, ActTyped
  <2>2. /\ y.pc = "findDebit" /\ y.tx = act[a].tx /\ y.doc = r /\ y.grp = r.group
        /\ y.out = act[a].out
    BY <1>0 DEF Action
  <2>3. paid[act[a].tx] = 1
    BY <1>0, <1>1, <1>4, OnItsRow DEF RowHolds, RowOK
  <2> HIDE DEF y
  <2>4. ActOK(a, y, r, paid[act[a].tx], debits[act[a].tx])
    BY <1>1, <1>4, <2>2, <2>3 DEF ActOK
  <2> QED  BY <1>0, <2>1, <2>2, <2>4, MoveFrame
<1> QED
  BY <1>2, <1>3, <1>4, CalmFacts DEF ResRead

LEMMA SaveNotPaidCalm ==
    ASSUME Calm, IInv, TypeInv', NEW a \in Admins, SaveNotPaid(a)
    PROVE  IInv'
<1> DEFINE r == row[act[a].tx]
           d == [act[a].doc.data EXCEPT !.att = 0, !.result = "rejected",
                                        !.unres = FALSE, !.outcome = "notpaid"]
           new == [r EXCEPT !.status = SetStatus(r, act[a].doc, "pending"),
                            !.group = UnsetGroup(r, act[a].doc), !.data = d]
<1>0. /\ a \in Actors /\ ~At(a, "idle") /\ act[a] \in Action /\ UNCHANGED money
      /\ r \in Row
  BY OnRow DEF SaveNotPaid, At, Actors, IInv
<1>1. /\ act[a].doc = r /\ r.status = "processing" /\ r.data.att # 0
      /\ r.data.outcome = "notpaid"
  BY <1>0, OnItsRow DEF SaveNotPaid, At, ActorHolds, ActOK
<1>2. TryWrite(a, new, "end", "end")
  BY DEF SaveNotPaid
<1>3. /\ RowHolds(act[a].tx) /\ paid[act[a].tx] \in Nat /\ handed[act[a].tx] \in Nat
      /\ r.data \in ApiResultData /\ debits[act[a].tx] \in [Groups -> Nat]
  BY <1>0, OnRow, OnItsRow DEF IInv, TypeInv, CountersTyped, Row
<1>4. /\ d.att = 0 /\ d.result = "rejected" /\ ~d.unres /\ d.outcome = "notpaid"
      /\ d.ref = r.data.ref
  BY <1>1, <1>3 DEF ApiResultData
<1> HIDE DEF d
<1>5. /\ new.status = "pending" /\ new.group = NoGroup /\ new.op = r.op
      /\ new.mgr = r.mgr /\ new.data = d
  BY <1>0, <1>1, GroupsAssumption DEF Row, SetStatus, UnsetGroup
<1> HIDE DEF new
<1>6. RowOK(new, paid[act[a].tx], handed[act[a].tx], debits[act[a].tx], refunded[act[a].tx])
  BY <1>1, <1>3, <1>4, <1>5 DEF RowHolds, RowOK
<1> QED
  BY <1>0, <1>2, <1>6, EndOK, TryWriteFrame

------------------------------------------------------------------------------
(* Steps of nobody's actor: the reversal and the human executors.          *)

\* A row that is held by nobody and is about to leave the open statuses.
LEMMA UnpaidOpen ==
    ASSUME NEW r \in Row, NEW p \in Nat, NEW h \in Nat, NEW d, NEW f, RowOK(r, p, h, d, f),
           r.status \in {"pending", "processing", "accepted"}, r.data.att = 0
    PROVE  p = 0 /\ h = 0 /\ f = "no"
BY DEF RowOK

\* A row whose status alone changes.
LEMMA StatusFields ==
    ASSUME NEW r \in Row, NEW st
    PROVE  LET s == [r EXCEPT !.status = st] IN
           /\ s.status = st /\ s.group = r.group /\ s.op = r.op /\ s.mgr = r.mgr
           /\ s.data = r.data
BY DEF Row

LEMMA ClosedOK ==
    ASSUME NEW r \in Row, NEW s \in Row, NEW p \in Nat, NEW h \in Nat, NEW d, NEW f,
           NEW st \in {"rejected", "cancelled_by_admin"},
           RowOK(r, p, h, d, f), r.status \in {"pending", "processing", "accepted"},
           r.data.att = 0, s = [r EXCEPT !.status = st]
    PROVE  RowOK(s, p, h, d, "open")
<1>1. p = 0 /\ h = 0
  BY UnpaidOpen
<1>2. /\ s.status = st /\ s.group = r.group /\ s.op = r.op /\ s.mgr = r.mgr
      /\ s.data = r.data
  BY StatusFields
<1> QED
  BY <1>1, <1>2 DEF RowOK

LEMMA ReverseCalm ==
    ASSUME Calm, IInv, TypeInv', NEW t \in Tx, Reverse(t)
    PROVE  IInv'
<1> DEFINE r == row[t]
           s == [r EXCEPT !.status = "cancelled_by_admin"]
           f == IF r.status = "completed" THEN "settled" ELSE "open"
<1>0. /\ r \in Row /\ paid[t] \in Nat /\ handed[t] \in Nat /\ RowHolds(t)
  BY DEF IInv, TypeInv, RowTyped, CountersTyped, RowsOK, RowHolds
<1>1. row' = [row EXCEPT ![t] = s] /\ refunded' = [refunded EXCEPT ![t] = f]
  BY DEF Reverse
<1>2. s \in Row
  BY <1>0 DEF Row, Statuses
<1>3. RowOK(s, paid[t], handed[t], debits[t], f)
  <2>1. CASE r.status = "completed"
    <3>1. /\ s.status = "cancelled_by_admin" /\ s.group = r.group /\ s.op = r.op
          /\ s.mgr = r.mgr /\ s.data = r.data
      BY <1>0, StatusFields
    <3> HIDE DEF s
    <3> QED  BY <1>0, <2>1, <3>1 DEF RowHolds, RowOK
  <2>2. CASE r.status # "completed"
    <3>1. r.status \in {"pending", "processing", "accepted"} /\ ~ProviderMoneyHold(r)
      BY <2>2 DEF Reverse
    <3>2. r.data.att = 0
      BY <1>0, <3>1, NotHeldNotSent DEF RowHolds
    <3>3. f = "open"
      BY <2>2
    <3> HIDE DEF f
    <3> QED  BY <1>0, <1>2, <3>1, <3>2, <3>3, ClosedOK DEF RowHolds
  <2> QED  BY <2>1, <2>2
<1> HIDE DEF s, f
<1>4. OnlyRow(t) /\ UNCHANGED act
  BY <1>1 DEF Reverse, OnlyRow, IInv, TypeInv, RowTyped, CountersTyped
<1>5. RowHolds(t)'
  <2>1. /\ row'[t] = s /\ refunded'[t] = f /\ paid' = paid /\ handed' = handed
        /\ debits' = debits
    BY <1>1 DEF Reverse, IInv, TypeInv, RowTyped, CountersTyped
  <2> QED  BY <1>3, <2>1 DEF RowHolds
<1> QED
  BY <1>4, <1>5, NobodyOn, FreeFrame DEF Reverse

\* A step that writes row t, on which nobody is, and moves its counters.
LEMMA TaskFrame ==
    ASSUME Calm, IInv, TypeInv', NEW t \in Tx, PeopleMayAct(t),
           UNCHANGED <<act, paid, debits>>,
           NEW s, row' = [row EXCEPT ![t] = s],
           NEW h, handed' = [handed EXCEPT ![t] = h],
           NEW f, refunded' = [refunded EXCEPT ![t] = f],
           RowOK(s, paid[t], h, debits[t], f)
    PROVE  IInv'
<1>1. OnlyRow(t)
  BY DEF OnlyRow, IInv, TypeInv, RowTyped, CountersTyped
<1>2. RowHolds(t)'
  BY DEF RowHolds, IInv, TypeInv, RowTyped, CountersTyped
<1> QED
  BY <1>1, <1>2, NobodyOn, FreeFrame

LEMMA HumanTaskCalm ==
    ASSUME Calm, IInv, TypeInv', NEW t \in Tx, HumanTask(t)
    PROVE  IInv'
<1> DEFINE r == row[t]
<1>0. /\ r \in Row /\ paid[t] \in Nat /\ handed[t] \in Nat /\ RowHolds(t)
      /\ handed = [handed EXCEPT ![t] = handed[t]]
      /\ refunded = [refunded EXCEPT ![t] = refunded[t]]
      /\ debits[t] \in [Groups -> Nat]
  BY DEF IInv, TypeInv, RowTyped, CountersTyped, RowsOK, RowHolds
<1>1. CASE AcceptTask(t)
  <2> DEFINE s == [r EXCEPT !.status = "accepted", !.op = TRUE]
  <2>1. row' = [row EXCEPT ![t] = s]
    BY <1>1 DEF AcceptTask, IInv, TypeInv, RowTyped
  <2>2. r.status \in {"pending", "processing"} /\ r.group \in ManualGroups
    BY <1>0, <1>1 DEF AcceptTask, StaffSee, RowHolds, RowOK
  <2>3. r.data.att = 0
    BY <1>0, <2>2, GroupsAssumption DEF RowHolds, RowOK
  <2>4. /\ s.status = "accepted" /\ s.group = r.group /\ s.op /\ s.mgr = r.mgr
        /\ s.data = r.data
    BY <1>0 DEF Row
  <2> HIDE DEF s
  <2>5. RowOK(s, paid[t], handed[t], debits[t], refunded[t])
    BY <1>0, <2>2, <2>3, <2>4 DEF RowHolds, RowOK
  <2> QED  BY <1>0, <1>1, <2>1, <2>5, TaskFrame DEF AcceptTask, money
<1>2. CASE CompleteTask(t)
  <2> DEFINE s == [r EXCEPT !.status = "completed", !.v = r.v + 1]
  <2>1. row' = [row EXCEPT ![t] = s] /\ handed' = [handed EXCEPT ![t] = handed[t] + 1]
    BY <1>0, <1>2 DEF CompleteTask, IInv, TypeInv, RowTyped, Row
  <2>2. r.status = "accepted"
    BY <1>2 DEF CompleteTask
  <2>3. r.data.att = 0 /\ paid[t] = 0 /\ handed[t] = 0 /\ refunded[t] = "no"
    BY <1>0, <2>2, UnpaidOpen DEF RowHolds, RowOK
  <2>4. /\ s.status = "completed" /\ s.group = r.group /\ s.op = r.op /\ s.mgr = r.mgr
        /\ s.data = r.data
    BY <1>0 DEF Row
  <2> HIDE DEF s
  <2>5. RowOK(s, paid[t], 1, debits[t], refunded[t])
    BY <1>0, <2>2, <2>3, <2>4 DEF RowHolds, RowOK
  <2>6. handed[t] + 1 = 1
    BY <2>3
  <2> QED  BY <1>0, <1>2, <2>1, <2>5, <2>6, TaskFrame DEF CompleteTask
<1>3. CASE CancelTask(t)
  <2> DEFINE s == [r EXCEPT !.status = "rejected"]
  <2>1. row' = [row EXCEPT ![t] = s] /\ refunded' = [refunded EXCEPT ![t] = "open"]
    BY <1>3 DEF CancelTask
  <2>2. r.status = "accepted" /\ r.data.att = 0 /\ s \in Row
    BY <1>0, <1>3, NotHeldNotSent DEF CancelTask, RowHolds, Row, Statuses
  <2>3. RowOK(s, paid[t], handed[t], debits[t], "open")
    BY <1>0, <2>2, ClosedOK DEF RowHolds
  <2> HIDE DEF s
  <2> QED  BY <1>0, <1>3, <2>1, <2>3, TaskFrame DEF CancelTask
<1>4. CASE ReturnTask(t)
  <2> DEFINE s == [r EXCEPT !.status = "pending", !.group = NoGroup,
                            !.op = FALSE, !.mgr = FALSE]
  <2>1. row' = [row EXCEPT ![t] = s]
    BY <1>4 DEF ReturnTask, IInv, TypeInv, RowTyped
  <2>2. r.status = "accepted" /\ r.data.att = 0
    BY <1>0, <1>4, NotHeldNotSent DEF ReturnTask, RowHolds
  <2>3. /\ s.status = "pending" /\ s.group = NoGroup /\ ~s.op /\ ~s.mgr
        /\ s.data = r.data
    BY <1>0 DEF Row
  <2>4. s \in Row
    BY <1>0, PullSaveTyped DEF Statuses
  <2> HIDE DEF s
  <2>5. RowOK(s, paid[t], handed[t], debits[t], refunded[t])
    BY <1>0, <2>2, <2>3, <2>4, PooledOK DEF RowHolds
  <2> QED  BY <1>0, <1>4, <2>1, <2>5, TaskFrame DEF ReturnTask, money
<1> QED
  BY <1>1, <1>2, <1>3, <1>4 DEF HumanTask

------------------------------------------------------------------------------
LEMMA InitCalm ==
    ASSUME Calm, Init
    PROVE  IInv
<1>1. TypeInv
  BY InitTyped
<1>2. Exclusive /\ ActorsOK
  BY DEF Init, Exclusive, ActorsOK, Idle
<1>3. ASSUME NEW t \in Tx
      PROVE  RowHolds(t)
  <2>1. /\ paid[t] = 0 /\ handed[t] = 0 /\ refunded[t] = "no"
        /\ \A g \in Groups : debits[t][g] = 0
    BY <1>3 DEF Init
  <2>2. CASE row[t] = NewRow
    BY <2>1, <2>2 DEF RowHolds, RowOK, NewRow, NoData
  <2>3. ASSUME NEW g \in Groups, row[t] = RoutedTo(NewRow, g)
        PROVE  RowHolds(t)
    <3>1. /\ row[t].status = "processing" /\ row[t].group = g /\ ~row[t].mgr
          /\ row[t].op = FALSE /\ row[t].data = NoData
      BY <2>3, NewRowTyped, RoutedFields DEF NewRow
    <3> QED  BY <2>1, <3>1 DEF RowHolds, RowOK, NoData
  <2> QED  BY <1>3, <2>2, <2>3 DEF Init
<1> QED
  BY <1>1, <1>2, <1>3 DEF IInv, RowsOK, RowHolds

LEMMA NextCalm ==
    ASSUME Calm, IInv, [Next]_vars
    PROVE  IInv'
<1>0. TypeInv'
  BY NextTyped DEF IInv
<1>1. ASSUME NEW w \in Workers, WorkerStep(w) \/ Crash(w)
      PROVE  IInv'
  <2>1. w \in Actors
    BY DEF Actors
  <2>2. (w \in Workers) <=> ("exc" = "exc")
    OBVIOUS
  <2> QED
    BY <1>0, <1>1, <2>1, <2>2, GuardCalm, ReadCalm, ClaimCalm, PayCalm, ReleaseCalm,
       SaveReleaseCalm, SaveMismatchCalm, SaveHoldCalm, FindDebitCalm, PostDebitCalm,
       SaveDoneCalm, ExcCalm, ExcSaveCalm, MarkCalm, MarkCasCalm, LeaveStepsCalm
    DEF WorkerStep
<1>2. ASSUME NEW a \in Admins, AdminStep(a) \/ RequestDies(a)
      PROVE  IInv'
  <2>1. a \in Actors /\ a \notin Workers
    BY ActorsAssumption DEF Actors
  <2> QED
    BY <1>0, <1>2, <2>1, RouteCasCalm, EnqueueCalm, PullSaveCalm, ResClaimCalm,
       ResEffectCalm, ResReadCalm, SaveNotPaidCalm, FindDebitCalm, PostDebitCalm,
       SaveDoneCalm, MarkCalm, MarkCasCalm, LeaveStepsCalm
    DEF AdminStep
<1>3. ASSUME NEW a \in Admins, NEW t \in Tx, AdminRequest(a, t)
      PROVE  IInv'
  BY <1>0, <1>3, RouteCalm, PullCalm, ResolveCalm DEF AdminRequest
<1>4. CASE UNCHANGED vars
  BY <1>0, <1>4 DEF vars, IInv, Exclusive, RowsOK, ActorsOK
<1>5. ASSUME NEW t \in Tx, NEW g \in ApiGroups, Redeliver(t, g)
      PROVE  IInv'
  BY <1>5, CalmFacts DEF Redeliver
<1> QED
  BY <1>0, <1>1, <1>2, <1>3, <1>4, <1>5, StartJobCalm, ReverseCalm, HumanTaskCalm
  DEF Next

LEMMA CalmSpec ==
    ASSUME Calm
    PROVE  Spec => []IInv
<1>1. Init => IInv
  BY InitCalm
<1>2. IInv /\ [Next]_vars => IInv'
  BY NextCalm
<1> QED
  BY <1>1, <1>2, PTL DEF Spec

\* With one actor at a time on a row, and a database that answers truthfully,
\* every state of the dispatch satisfies CalmInv.
THEOREM CalmInvariant ==
    ASSUME Calm
    PROVE  Spec => []CalmInv
<1>1. IInv => CalmInv
  BY TypeInvTypeOK DEF IInv, CalmInv
<1> QED
  BY <1>1, CalmSpec, PTL

\* What CalmInv says of one row, with the types of its parts.
LEMMA RowFacts ==
    ASSUME IInv, NEW t \in Tx
    PROVE  /\ RowHolds(t) /\ row[t] \in Row
           /\ paid[t] \in Nat /\ handed[t] \in Nat /\ debits[t] \in [Groups -> Nat]
           /\ refunded[t] \in {"no", "open", "settled"}
BY DEF IInv, TypeInv, RowTyped, CountersTyped, RowsOK, RowHolds

\* A recipient is paid at most once, through the provider or by hand: the claim
\* and its guards suffice while jobs on a row do not overlap.
THEOREM CalmOnePayout ==
    ASSUME Calm
    PROVE  Spec => []OnePayout
<1>1. IInv => OnePayout
  BY RowFacts DEF OnePayout, RowHolds, RowOK
<1> QED
  BY <1>1, CalmSpec, PTL

\* An uncompleted transfer is refunded only if nobody paid it, whichever of
\* the cancel, reverse and return paths is taken.
THEOREM CalmRefundOnlyUnpaid ==
    ASSUME Calm
    PROVE  Spec => []RefundOnlyUnpaid
<1>1. IInv => RefundOnlyUnpaid
  BY RowFacts DEF RefundOnlyUnpaid, RowHolds, RowOK
<1> QED
  BY <1>1, CalmSpec, PTL

\* One executor is debited, once, and only for a Payment that was executed,
\* although the debit is found and inserted in two steps.
THEOREM CalmOneDebit ==
    ASSUME Calm
    PROVE  Spec => []OneDebit
<1>1. IInv => OneDebit
  <2> SUFFICES ASSUME IInv, NEW t \in Tx, NEW g \in Groups, NEW h \in Groups
               PROVE  /\ debits[t][g] <= 1
                      /\ debits[t][g] # 0 => paid[t] = 1
                      /\ debits[t][g] # 0 /\ debits[t][h] # 0 => g = h
    BY DEF OneDebit
  <2>1. /\ debits[t][g] \in Nat
        /\ debits[t][g] # 0 => debits[t][g] = 1 /\ paid[t] = 1 /\ row[t].group = g
        /\ debits[t][h] # 0 => row[t].group = h
    BY RowFacts DEF RowHolds, RowOK
  <2> QED  BY <2>1
<1> QED
  BY <1>1, CalmSpec, PTL

\* A transfer the provider has paid, and that is still open, is held: nobody
\* can pull, refund or pay it again.
THEOREM CalmPaidRowsHeld ==
    ASSUME Calm
    PROVE  Spec => []PaidRowsHeld
<1>1. IInv => PaidRowsHeld
  <2> SUFFICES ASSUME IInv, NEW t \in Tx, paid[t] > 0,
                      row[t].status \in {"pending", "processing", "accepted"}
               PROVE  ProviderMoneyHold(row[t])
    BY DEF PaidRowsHeld
  <2>1. RowHolds(t) /\ paid[t] = 1 /\ row[t] \in Row
    BY RowFacts DEF RowHolds, RowOK
  <2>2. row[t].data.att # 0
    BY <2>1 DEF RowHolds, RowOK
  <2> QED
    BY <2>1, <2>2, NotHeldNotSent DEF RowHolds
<1> QED
  BY <1>1, CalmSpec, PTL

\* A transfer shown as completed was paid by the provider or by hand.
THEOREM CalmCompletedMeansPaidOut ==
    ASSUME Calm
    PROVE  Spec => []CompletedMeansPaidOut
<1>1. IInv => CompletedMeansPaidOut
  BY RowFacts DEF CompletedMeansPaidOut, RowHolds, RowOK
<1> QED
  BY <1>1, CalmSpec, PTL

------------------------------------------------------------------------------
(* What a step may do to the status of a row and to the money.             *)

Open == {"pending", "processing", "accepted"}

\* A step that closes no row and moves no money.
Quiet(t) ==
    \/ row'[t].status = row[t].status
    \/ /\ row[t].status \in Open /\ row'[t].status \in Open
       /\ row[t].data.unres => row[t].data.outcome # "none"
QuietStep == UNCHANGED money /\ \A t \in Tx : Quiet(t)

LEMMA OneRowQuiet ==
    ASSUME IInv, NEW t \in Tx, NEW s,
           row' = row \/ row' = [row EXCEPT ![t] = s],
           \/ s.status = row[t].status
           \/ /\ row[t].status \in Open /\ s.status \in Open
              /\ row[t].data.unres => row[t].data.outcome # "none"
    PROVE  \A u \in Tx : Quiet(u)
BY DEF Quiet, IInv, TypeInv, RowTyped

LEMMA NoRowQuiet ==
    ASSUME UNCHANGED row
    PROVE  \A u \in Tx : Quiet(u)
BY DEF Quiet

LEMMA TryWriteRow ==
    ASSUME NEW a, NEW r, NEW ok, NEW err, TryWrite(a, r, ok, err)
    PROVE  row' = row \/ row' = [row EXCEPT ![act[a].tx] = r]
BY DEF TryWrite

\* Steps that write the row but not its status.
LEMMA StatusKept ==
    ASSUME IInv, NEW a \in Actors,
           \/ Claim(a) \/ Release(a) \/ SaveHold(a) \/ MarkCas(a)
           \/ ResClaim(a) \/ ResEffect(a)
    PROVE  QuietStep
<1> DEFINE t == act[a].tx
           r == row[t]
<1>0. ~At(a, "idle") /\ t \in Tx /\ r \in Row /\ UNCHANGED money
  BY OnRow DEF Claim, Release, SaveHold, MarkCas, ResClaim, ResEffect, At, IInv
<1>1. /\ \A n : WithAttempt(r, n).status = r.status
      /\ Flagged(r).status = r.status /\ EffectStarted(r).status = r.status
      /\ \A o : WithOutcome(r, o).status = r.status
      /\ \A d : [r EXCEPT !.data = d].status = r.status
  BY <1>0 DEF WithAttempt, Flagged, EffectStarted, WithOutcome, Row
<1>2. \E s : s.status = r.status /\ (row' = row \/ row' = [row EXCEPT ![t] = s])
  <2>1. CASE Claim(a)
    BY <1>1, <2>1 DEF Claim
  <2>2. CASE Release(a)
    BY <1>1, <2>2 DEF Release
  <2>3. CASE SaveHold(a)
    <3> DEFINE d == [act[a].doc.data EXCEPT !.result = "pending_reference",
                                            !.unres = TRUE, !.ref = act[a].out]
    <3>1. TryWrite(a, [r EXCEPT !.data = d], "end", "exc")
      BY <2>3 DEF SaveHold
    <3> HIDE DEF d
    <3> QED  BY <1>1, <3>1, TryWriteRow
  <2>4. CASE MarkCas(a)
    BY <1>1, <2>4 DEF MarkCas
  <2>5. CASE ResClaim(a)
    BY <1>1, <2>5, TryWriteRow DEF ResClaim
  <2>6. CASE ResEffect(a)
    BY <1>1, <2>6, TryWriteRow DEF ResEffect
  <2> QED  BY <2>1, <2>2, <2>3, <2>4, <2>5, <2>6
<1> QED
  BY <1>0, <1>2, OneRowQuiet DEF QuietStep

\* Steps that return the row of actor a to the pool, or send it to a group.
LEMMA PoolSteps ==
    ASSUME Calm, IInv, NEW a \in Actors,
           \/ SaveRelease(a) \/ SaveMismatch(a) \/ ExcSave(a) \/ PullSave(a)
           \/ SaveNotPaid(a) \/ RouteCas(a)
    PROVE  QuietStep
<1> DEFINE t == act[a].tx
           r == row[t]
           p == SetStatus(r, act[a].doc, "pending")
<1>0. ~At(a, "idle") /\ t \in Tx /\ r \in Row /\ UNCHANGED money /\ RowHolds(t)
  BY OnRow, OnItsRow
  DEF SaveRelease, SaveMismatch, ExcSave, PullSave, SaveNotPaid, RouteCas, At, IInv
<1>1. \A g, d : [r EXCEPT !.status = p, !.group = g, !.data = d].status = p
  BY <1>0 DEF Row
<1>2. CASE SaveRelease(a) \/ SaveMismatch(a) \/ ExcSave(a) \/ PullSave(a) \/ SaveNotPaid(a)
  <2>1. /\ act[a].doc = r /\ r.status \in {"processing", "accepted"}
        /\ r.data.att = 0 \/ r.data.outcome = "notpaid"
    BY <1>0, <1>2, OnItsRow
    DEF SaveRelease, SaveMismatch, ExcSave, PullSave, SaveNotPaid, At, ActorHolds, ActOK
  <2>2. p = "pending" /\ (r.data.unres => r.data.outcome # "none")
    BY <1>0, <2>1 DEF SetStatus, RowHolds, RowOK
  <2>3. \E s : s.status = p /\ (row' = row \/ row' = [row EXCEPT ![t] = s])
    <3> DEFINE g == UnsetGroup(r, act[a].doc)
    <3>1. CASE SaveRelease(a)
      <4> DEFINE d == IF act[a].att # 0 THEN act[a].doc.data ELSE r.data
                 s == [r EXCEPT !.status = p, !.group = g, !.data = d]
      <4>1. TryWrite(a, s, "end", "exc")
        BY <1>0, <3>1 DEF SaveRelease, Row
      <4>2. s.status = p
        BY <1>0 DEF Row
      <4> HIDE DEF s
      <4> QED  BY <4>1, <4>2, TryWriteRow
    <3>2. CASE SaveMismatch(a)
      <4> DEFINE s == [r EXCEPT !.status = p, !.group = g,
                                !.mgr = IF act[a].doc.mgr THEN FALSE ELSE @]
      <4>1. TryWrite(a, s, "end", "exc")
        BY <3>2 DEF SaveMismatch
      <4>2. s.status = p
        BY <1>0 DEF Row
      <4> HIDE DEF s
      <4> QED  BY <4>1, <4>2, TryWriteRow
    <3>3. CASE ExcSave(a)
      <4> DEFINE s == [r EXCEPT !.status = p, !.group = g]
      <4>1. TryWrite(a, s, "end", "end")
        BY <3>3 DEF ExcSave
      <4>2. s.status = p
        BY <1>0 DEF Row
      <4> HIDE DEF s
      <4> QED  BY <4>1, <4>2, TryWriteRow
    <3>4. CASE PullSave(a)
      <4> DEFINE s == [r EXCEPT !.status = p, !.group = g,
                                !.op = IF act[a].doc.op THEN FALSE ELSE @,
                                !.mgr = IF act[a].doc.mgr THEN FALSE ELSE @]
      <4>1. TryWrite(a, s, "end", "end")
        BY <3>4 DEF PullSave
      <4>2. s.status = p
        BY <1>0 DEF Row
      <4> HIDE DEF s
      <4> QED  BY <4>1, <4>2, TryWriteRow
    <3>5. CASE SaveNotPaid(a)
      <4> DEFINE s == [r EXCEPT !.status = p, !.group = g,
                         !.data = [act[a].doc.data EXCEPT !.att = 0, !.result = "rejected",
                                     !.unres = FALSE, !.outcome = "notpaid"]]
      <4>1. TryWrite(a, s, "end", "end")
        BY <3>5 DEF SaveNotPaid
      <4>2. s.status = p
        BY <1>0 DEF Row
      <4> HIDE DEF s
      <4> QED  BY <4>1, <4>2, TryWriteRow
    <3> QED  BY <1>2, <3>1, <3>2, <3>3, <3>4, <3>5
  <2> HIDE DEF p
  <2> QED  BY <1>0, <2>1, <2>2, <2>3, OneRowQuiet DEF QuietStep, Open
<1>3. CASE RouteCas(a)
  <2>1. CASE UNCHANGED row
    BY <1>0, <2>1, NoRowQuiet DEF QuietStep
  <2>2. CASE r.status = "pending" /\ row' = [row EXCEPT ![t] = RoutedTo(r, act[a].grp)]
    <3>1. RoutedTo(r, act[a].grp).status = "processing"
      BY <1>0, RoutedFields
    <3>2. ~r.data.unres
      BY <1>0, <2>2 DEF RowHolds, RowOK
    <3> QED  BY <1>0, <2>2, <3>1, <3>2, OneRowQuiet DEF QuietStep, Open
  <2> QED  BY <1>3, <2>1, <2>2 DEF RouteCas
<1> QED
  BY <1>2, <1>3

\* Steps that write neither rows nor money.
LEMMA NoWriteSteps ==
    ASSUME NEW a, NEW t, NEW g, NEW o,
           \/ Guard(a) \/ Read(a) \/ FindDebit(a) \/ Exc(a) \/ Mark(a) \/ EndJob(a)
           \/ Crash(a) \/ RequestDies(a) \/ StartJob(a, t, g) \/ Redeliver(t, g)
           \/ Enqueue(a) \/ ResRead(a) \/ EndRequest(a)
           \/ Route(a, t, g) \/ Pull(a, t) \/ Resolve(a, t, o)
    PROVE  QuietStep
BY NoRowQuiet
DEF Guard, Read, FindDebit, Exc, Mark, EndJob, Crash, RequestDies, StartJob, Redeliver,
    Enqueue, ResRead, EndRequest, Route, Pull, Resolve, QuietStep, money

LEMMA TaskSteps ==
    ASSUME Calm, IInv, NEW t \in Tx, AcceptTask(t) \/ ReturnTask(t)
    PROVE  QuietStep
<1>1. RowHolds(t) /\ row[t] \in Row
  BY RowFacts
<1>2. CASE AcceptTask(t)
  <2> DEFINE s == [row[t] EXCEPT !.status = "accepted", !.op = TRUE]
  <2>1. row' = [row EXCEPT ![t] = s] /\ UNCHANGED money
    BY <1>2 DEF AcceptTask, IInv, TypeInv, RowTyped
  <2>2. s.status = "accepted"
    BY <1>1 DEF Row
  <2>3. row[t].status \in Open /\ ~row[t].data.unres
    BY <1>1, <1>2, GroupsAssumption DEF AcceptTask, StaffSee, RowHolds, RowOK, Open
  <2> HIDE DEF s
  <2> QED  BY <2>1, <2>2, <2>3, OneRowQuiet DEF QuietStep, Open
<1>3. CASE ReturnTask(t)
  <2> DEFINE s == [row[t] EXCEPT !.status = "pending", !.group = NoGroup,
                                 !.op = FALSE, !.mgr = FALSE]
  <2>1. row' = [row EXCEPT ![t] = s] /\ UNCHANGED money
    BY <1>3 DEF ReturnTask, IInv, TypeInv, RowTyped
  <2>2. s.status = "pending"
    BY <1>1 DEF Row
  <2>3. row[t].status \in Open /\ ~row[t].data.unres
    BY <1>1, <1>3 DEF ReturnTask, RowHolds, RowOK, Open
  <2> HIDE DEF s
  <2> QED  BY <2>1, <2>2, <2>3, OneRowQuiet DEF QuietStep, Open
<1> QED
  BY <1>2, <1>3

\* The row a completion's save writes.
Completed(s) == s.status = "completed" /\ s.data.result = "accepted"

LEMMA SaveDoneRow ==
    ASSUME IInv, NEW a \in Actors, NEW err, SaveDone(a, err)
    PROVE  /\ act[a].tx \in Tx /\ row[act[a].tx].status = "processing"
           /\ paid[act[a].tx] = 1 /\ UNCHANGED money
           /\ \/ row' = row
              \/ \E s : Completed(s) /\ row' = [row EXCEPT ![act[a].tx] = s]
<1> DEFINE r == row[act[a].tx]
           data(ref, o) == [act[a].doc.data EXCEPT !.result = "accepted", !.unres = FALSE,
                                                   !.ref = ref, !.outcome = o]
           done(ref, o) == [r EXCEPT !.status = SetStatus(r, act[a].doc, "completed"),
                                     !.data = data(ref, o)]
<1>0. act[a].pc = "saveDone" /\ UNCHANGED money
  BY DEF SaveDone, At
<1>1. /\ r \in Row /\ act[a].tx \in Tx /\ act[a].doc = r /\ r.status = "processing"
      /\ paid[act[a].tx] = 1
  BY <1>0, Completing
<1>2. \A ref, o : Completed(done(ref, o)) /\ Completed([done(ref, o) EXCEPT !.v = @ + 1])
  <2>1. \A ref, o : data(ref, o).result = "accepted"
    BY <1>1 DEF Row, ApiResultData
  <2> HIDE DEF data
  <2> QED  BY <1>1, <2>1 DEF Completed, SetStatus, Row
<1>3. PICK ref, o : \/ \E x : TryWrite(a, [done(ref, o) EXCEPT !.v = @ + 1], "end", x)
                    \/ UNCHANGED row
                    \/ \E x : TryWrite(a, done(ref, o), "end", x)
  <2>1. PICK s \in IF act[a].out = "paid"
                   THEN {done(ref, "paid") : ref \in {"masked", "full"}}
                   ELSE {done("masked", act[a].doc.data.outcome)} :
          \/ r.v = act[a].doc.v /\ TryWrite(a, [s EXCEPT !.v = @ + 1], "end", err)
          \/ r.v # act[a].doc.v /\ Goto(a, err) /\ UNCHANGED row
          \/ "writeError" \in Env /\ TryWrite(a, s, "end", err)
    BY DEF SaveDone
  <2>2. \E ref, o : s = done(ref, o)
    <3> HIDE DEF done
    <3> QED  BY <2>1
  <2> HIDE DEF done
  <2> QED  BY <2>1, <2>2
<1> HIDE DEF done
<1>4. \/ row' = row
      \/ row' = [row EXCEPT ![act[a].tx] = done(ref, o)]
      \/ row' = [row EXCEPT ![act[a].tx] = [done(ref, o) EXCEPT !.v = @ + 1]]
  BY <1>3, TryWriteRow
<1> QED
  BY <1>0, <1>1, <1>2, <1>4

LEMMA NextKinds ==
    ASSUME Calm, IInv, [Next]_vars
    PROVE  \/ QuietStep
           \/ \E w \in Workers : Pay(w)
           \/ \E a \in Actors : PostDebit(a)
           \/ \E a \in Actors, err \in {"exc", "end"} : SaveDone(a, err)
           \/ \E t \in Tx : CompleteTask(t) \/ CancelTask(t) \/ Reverse(t)
<1>1. ASSUME NEW w \in Workers, WorkerStep(w) \/ Crash(w), ~Pay(w), ~PostDebit(w),
             ~SaveDone(w, "exc")
      PROVE  QuietStep
  BY <1>1, NoWriteSteps, PoolSteps, StatusKept DEF WorkerStep, Actors
<1>2. ASSUME NEW a \in Admins, AdminStep(a) \/ RequestDies(a), ~PostDebit(a),
             ~SaveDone(a, "end")
      PROVE  QuietStep
  BY <1>2, NoWriteSteps, PoolSteps, StatusKept DEF AdminStep, Actors
<1>3. ASSUME NEW a \in Admins, NEW t \in Tx, AdminRequest(a, t)
      PROVE  QuietStep
  BY <1>3, NoWriteSteps DEF AdminRequest
<1>4. ASSUME NEW w, NEW t, NEW g, StartJob(w, t, g) \/ Redeliver(t, g)
      PROVE  QuietStep
  BY <1>4, NoWriteSteps
<1>5. CASE UNCHANGED vars
  BY <1>5, NoRowQuiet DEF vars, QuietStep, money
<1> QED
  BY <1>1, <1>2, <1>3, <1>4, <1>5, TaskSteps DEF Next, HumanTask, Actors

\* How a step may close a row, when it is not quiet.
Closes(t) ==
    \/ row[t].status = "completed" /\ row'[t].status = "cancelled_by_admin" /\ ~row[t].data.unres
    \/ row[t].status \in Open /\ row'[t].status \in {"completed", "rejected", "cancelled_by_admin"}
          /\ ~row[t].data.unres
    \/ row[t].status \in Open /\ Completed(row'[t])

LEMMA StatusSteps ==
    ASSUME Calm, IInv, [Next]_vars, NEW t \in Tx
    PROVE  Quiet(t) \/ Closes(t)
<1>1. CASE QuietStep
  BY <1>1 DEF QuietStep
<1>2. CASE UNCHANGED row
  BY <1>2, NoRowQuiet
<1>3. ASSUME NEW a \in Actors, NEW err, SaveDone(a, err)
      PROVE  Quiet(t) \/ Closes(t)
  BY <1>3, SaveDoneRow DEF Quiet, Closes, Open, IInv, TypeInv, RowTyped
<1>4. ASSUME NEW u \in Tx, CompleteTask(u) \/ CancelTask(u) \/ Reverse(u)
      PROVE  Quiet(t) \/ Closes(t)
  <2>1. RowHolds(u) /\ row[u] \in Row
    BY RowFacts
  <2>2. \A st, n : /\ [row[u] EXCEPT !.status = st].status = st
                   /\ [row[u] EXCEPT !.status = st, !.v = n].status = st
    BY <2>1 DEF Row
  <2>3. CASE t # u
    BY <1>4, <2>3 DEF CompleteTask, CancelTask, Reverse, Quiet, IInv, TypeInv, RowTyped
  <2>4. CASE t = u
    <3>1. CASE CompleteTask(u)
      <4>1. row[u].status = "accepted" /\ ~row[u].data.unres
        BY <2>1, <3>1 DEF CompleteTask, RowHolds, RowOK
      <4>2. row'[u].status = "completed"
        BY <2>1, <3>1 DEF CompleteTask, IInv, TypeInv, RowTyped, Row
      <4> QED  BY <2>4, <4>1, <4>2 DEF Closes, Open
    <3>2. CASE CancelTask(u)
      <4>1. row[u].status = "accepted" /\ ~row[u].data.unres
        BY <2>1, <3>2 DEF CancelTask, RowHolds, RowOK
      <4>2. row'[u].status = "rejected"
        BY <2>1, <3>2 DEF CancelTask, IInv, TypeInv, RowTyped, Row
      <4> QED  BY <2>4, <4>1, <4>2 DEF Closes, Open
    <3>3. CASE Reverse(u)
      <4>1. row[u].status \in Open \cup {"completed"} /\ ~row[u].data.unres
        <5>1. row[u].status \in Open => row[u].data.att = 0
          BY <2>1, <3>3, NotHeldNotSent DEF Reverse, RowHolds, Open
        <5> QED  BY <2>1, <3>3, <5>1 DEF Reverse, RowHolds, RowOK, Open
      <4>2. row'[u].status = "cancelled_by_admin"
        BY <2>1, <3>3 DEF Reverse, IInv, TypeInv, RowTyped, Row
      <4> QED  BY <2>4, <4>1, <4>2 DEF Closes
    <3> QED  BY <1>4, <3>1, <3>2, <3>3
  <2> QED  BY <2>3, <2>4
<1> QED
  BY <1>1, <1>2, <1>3, <1>4, NextKinds DEF Pay, PostDebit

\* No step of a job, a human executor or another request reopens a completed
\* transfer; only its reversal changes its status.
THEOREM CalmCompletedStays ==
    ASSUME Calm
    PROVE  Spec => CompletedStays
<1> DEFINE Kept == \A t \in Tx : row[t].status = "completed" =>
                      row'[t].status \in {"completed", "cancelled_by_admin"}
<1>1. ASSUME IInv, [Next]_vars
      PROVE  [Kept]_vars
  BY <1>1, StatusSteps DEF Quiet, Closes, Open
<1> QED
  BY <1>1, CalmSpec, PTL DEF Spec, CompletedStays

\* A refunded transfer that was not completed keeps its final status: no late
\* answer, save or retry of the worker revives it.
THEOREM CalmRefundedStays ==
    ASSUME Calm
    PROVE  Spec => RefundedStays
<1> DEFINE Kept == \A t \in Tx : refunded[t] = "open" => row'[t].status = row[t].status
<1>1. ASSUME IInv, [Next]_vars
      PROVE  [Kept]_vars
  <2>1. ASSUME NEW t \in Tx, refunded[t] = "open"
        PROVE  row'[t].status = row[t].status
    <3>1. row[t].status \in {"rejected", "cancelled_by_admin"}
      BY <1>1, <2>1, RowFacts DEF RowHolds, RowOK
    <3> QED  BY <1>1, <3>1, StatusSteps DEF Quiet, Closes, Open
  <2> QED  BY <2>1
<1> QED
  BY <1>1, CalmSpec, PTL DEF Spec, RefundedStays

\* A flagged row leaves "processing" only by the administrator's evidence, or
\* completed by the provider's own answer.
THEOREM CalmFlaggedNeedsEvidence ==
    ASSUME Calm
    PROVE  Spec => FlaggedNeedsEvidence
<1> DEFINE Kept == \A t \in Tx : row[t].data.unres /\ row'[t].status # row[t].status =>
                      \/ row[t].data.outcome # "none"
                      \/ row'[t].status = "completed" /\ row'[t].data.result = "accepted"
<1>1. ASSUME IInv, [Next]_vars
      PROVE  [Kept]_vars
  BY <1>1, StatusSteps DEF Quiet, Closes, Completed
<1> QED
  BY <1>1, CalmSpec, PTL DEF Spec, FlaggedNeedsEvidence

------------------------------------------------------------------------------
(* The dispatch implements TransferPromise.                                *)

LEMMA ReportedIs ==
    ASSUME NEW t \in Tx
    PROVE  reported[t] <=> row[t].status = "completed"
BY Zenon DEF reported

LEMMA InitPromise ==
    ASSUME Calm, Init
    PROVE  Promise!Init
<1>1. ASSUME NEW t \in Tx
      PROVE  (row[t].status = "completed") = FALSE
  <2>1. CASE row[t] = NewRow
    BY <2>1 DEF NewRow
  <2>2. ASSUME NEW g \in Groups, row[t] = RoutedTo(NewRow, g)
        PROVE  row[t].status # "completed"
    BY <2>2, NewRowTyped, RoutedFields
  <2>3. row[t] \in {NewRow} \cup {RoutedTo(NewRow, g) : g \in Groups}
    BY DEF Init
  <2>4. row[t].status # "completed"
    BY <2>1, <2>2, <2>3
  <2> QED  BY <2>4
<1>2. reported = [t \in Tx |-> FALSE]
  BY <1>1, Zenon DEF reported
<1>3. payouts = [t \in Tx |-> 0]
  BY DEF Init, payouts
<1> QED
  BY <1>2, <1>3 DEF Init, Promise!Init

\* What the promise sees of a step that leaves the money alone.
LEMMA SameReports ==
    ASSUME UNCHANGED money, \A t \in Tx : row'[t].status = "completed" <=> row[t].status = "completed"
    PROVE  UNCHANGED <<payouts, debits, reported, refunded>>
BY DEF money, payouts, reported

\* A row that becomes completed, or ceases to be, while the others stay.
LEMMA SetReport ==
    ASSUME NEW t \in Tx, NEW b \in BOOLEAN, (row'[t].status = "completed") <=> b,
           \A u \in Tx \ {t} : row'[u] = row[u]
    PROVE  reported' = [reported EXCEPT ![t] = b]
<1>1. /\ reported = [u \in Tx |-> row[u].status = "completed"]
      /\ reported' = [u \in Tx |-> row'[u].status = "completed"]
  BY DEF reported
<1>2. [reported EXCEPT ![t] = b] = [u \in Tx |-> IF u = t THEN b ELSE reported[u]]
  BY <1>1
<1>3. ASSUME NEW u \in Tx
      PROVE  (row'[u].status = "completed") = (IF u = t THEN b ELSE reported[u])
  <2>1. CASE u = t
    BY <2>1
  <2>2. CASE u # t
    <3>1. reported[u] = (row[u].status = "completed")
      BY <1>1, Zenon
    <3> QED  BY <2>2, <3>1
  <2> QED  BY <2>1, <2>2
<1> QED
  BY <1>1, <1>2, <1>3, Zenon

LEMMA QuietPromise ==
    ASSUME QuietStep
    PROVE  UNCHANGED Promise!vars
BY SameReports DEF QuietStep, Quiet, Open, Promise!vars, money

LEMMA PayPromise ==
    ASSUME Calm, IInv, NEW w \in Workers, Pay(w)
    PROVE  [Promise!Next]_Promise!vars
<1> PICK t \in Tx : t = act[w].tx
  BY OnRow DEF Pay, At, Actors, IInv
<1>1. /\ paid[t] = 0 /\ row[t].status = "processing" /\ RowHolds(t)
      /\ handed[t] \in Nat /\ \A u \in Tx : paid[u] \in Nat /\ handed[u] \in Nat
  BY OnItsRow, RowFacts DEF Pay, At, Actors, ActorHolds, ActOK
<1>2. handed[t] = 0 /\ refunded[t] = "no"
  BY <1>1 DEF RowHolds, RowOK
<1>3. UNCHANGED <<row, handed, debits, refunded>>
  BY DEF Pay
<1>4. CASE paid' = [paid EXCEPT ![t] = @ + 1]
  <2>1. payouts[t] = 0 /\ ~reported[t] /\ refunded[t] = "no"
    BY <1>1, <1>2, ReportedIs DEF payouts
  <2>2. payouts' = [payouts EXCEPT ![t] = 1]
    <3>1. \A u \in Tx : payouts'[u] = IF u = t THEN 1 ELSE payouts[u]
      BY <1>1, <1>2, <1>3, <1>4 DEF payouts, IInv, TypeInv, CountersTyped
    <3> QED  BY <3>1 DEF payouts
  <2>3. UNCHANGED <<debits, reported, refunded>>
    BY <1>3 DEF reported
  <2> QED  BY <2>1, <2>2, <2>3 DEF Promise!Next, Promise!Pay
<1>5. CASE UNCHANGED paid
  BY <1>3, <1>5, SameReports DEF money, Promise!vars
<1> QED
  BY <1>4, <1>5 DEF Pay

LEMMA ChargePromise ==
    ASSUME Calm, IInv, NEW a \in Actors, PostDebit(a)
    PROVE  [Promise!Next]_Promise!vars
<1> PICK t \in Tx : t = act[a].tx
  BY OnRow DEF PostDebit, At, IInv
<1> PICK g \in Groups : g = act[a].grp
  BY Completing DEF PostDebit, At
<1>1. /\ paid[t] = 1 /\ RowHolds(t) /\ handed[t] \in Nat
      /\ debits[t] \in [Groups -> Nat] /\ \A h \in Groups : debits[t][h] = 0
  BY SMTT(20), OnItsRow, RowFacts, Completing DEF PostDebit, At, ActorHolds, ActOK
<1>2. payouts[t] = 1
  BY <1>1 DEF payouts, RowHolds, RowOK
<1>3. UNCHANGED <<row, paid, handed, refunded>>
  BY DEF PostDebit
<1>4. UNCHANGED <<payouts, reported, refunded>>
  BY <1>3 DEF payouts, reported
<1>5. CASE debits' = [debits EXCEPT ![t][g] = @ + 1]
  <2>1. debits' = [debits EXCEPT ![t][g] = 1]
    <3>1. debits[t][g] + 1 = 1
      BY <1>1
    <3> QED  BY <1>5, <3>1
  <2> QED  BY <1>1, <1>2, <1>4, <2>1 DEF Promise!Next, Promise!Charge
<1>6. CASE UNCHANGED debits
  BY <1>4, <1>6 DEF Promise!vars
<1> QED
  BY <1>5, <1>6 DEF PostDebit

LEMMA DonePromise ==
    ASSUME Calm, IInv, NEW a \in Actors, NEW err, SaveDone(a, err)
    PROVE  [Promise!Next]_Promise!vars
<1> PICK t \in Tx : t = act[a].tx
  BY SaveDoneRow
<1>1. /\ row[t].status = "processing" /\ paid[t] = 1 /\ UNCHANGED money
      /\ RowHolds(t) /\ handed[t] \in Nat
  BY SaveDoneRow, RowFacts
<1>2. CASE row' = row
  BY <1>1, <1>2, SameReports DEF Promise!vars, money
<1>3. ASSUME NEW s, Completed(s), row' = [row EXCEPT ![t] = s]
      PROVE  Promise!Next
  <2>1. payouts[t] = 1 /\ refunded[t] = "no" /\ ~reported[t]
    BY <1>1, ReportedIs DEF RowHolds, RowOK, payouts
  <2>2. reported' = [reported EXCEPT ![t] = TRUE]
    <3>1. \A u \in Tx : row'[u] = IF u = t THEN s ELSE row[u]
      BY <1>3 DEF IInv, TypeInv, RowTyped
    <3> QED  BY <1>3, <3>1, SetReport DEF Completed
  <2>3. UNCHANGED <<payouts, debits, refunded>>
    BY <1>1 DEF payouts, money
  <2> QED  BY <2>1, <2>2, <2>3 DEF Promise!Next, Promise!Report
<1> QED
  BY <1>2, <1>3, SaveDoneRow

LEMMA TaskPromise ==
    ASSUME Calm, IInv, NEW t \in Tx, CompleteTask(t) \/ CancelTask(t) \/ Reverse(t)
    PROVE  [Promise!Next]_Promise!vars
<1>1. /\ RowHolds(t) /\ row[t] \in Row /\ paid[t] \in Nat /\ handed[t] \in Nat
  BY RowFacts
<1>2. /\ payouts[t] = paid[t] + handed[t] /\ (reported[t] <=> row[t].status = "completed")
  BY ReportedIs DEF payouts
<1>3. CASE CompleteTask(t)
  <2>1. row[t].status = "accepted" /\ paid[t] = 0 /\ handed[t] = 0 /\ refunded[t] = "no"
    <3>1. row[t].status = "accepted"
      BY <1>3 DEF CompleteTask
    <3> QED  BY <1>1, <3>1, UnpaidOpen DEF RowHolds, RowOK
  <2>2. row'[t].status = "completed" /\ \A u \in Tx \ {t} : row'[u] = row[u]
    BY <1>1, <1>3 DEF CompleteTask, IInv, TypeInv, RowTyped, Row
  <2>3. reported' = [reported EXCEPT ![t] = TRUE]
    BY <2>2, SetReport
  <2>4. payouts' = [payouts EXCEPT ![t] = 1]
    <3>1. \A u \in Tx : payouts'[u] = IF u = t THEN 1 ELSE payouts[u]
      BY <1>3, <2>1 DEF CompleteTask, payouts, IInv, TypeInv, CountersTyped
    <3> QED  BY <3>1 DEF payouts
  <2>5. UNCHANGED <<debits, refunded>>
    BY <1>3 DEF CompleteTask
  <2>6. payouts[t] = 0 /\ ~reported[t]
    BY <1>2, <2>1
  <2> QED  BY <2>1, <2>3, <2>4, <2>5, <2>6 DEF Promise!Next, Promise!Pay
<1>4. ASSUME row[t].status \in Open, row[t].data.att = 0,
             NEW st \in {"rejected", "cancelled_by_admin"},
             row' = [row EXCEPT ![t].status = st],
             refunded' = [refunded EXCEPT ![t] = "open"],
             UNCHANGED <<paid, handed, debits>>
      PROVE  Promise!Next
  <2>1. paid[t] = 0 /\ handed[t] = 0 /\ refunded[t] = "no"
    BY <1>1, <1>4, UnpaidOpen DEF RowHolds, Open
  <2>2. row'[t].status = st /\ \A u \in Tx \ {t} : row'[u] = row[u]
    BY <1>1, <1>4 DEF IInv, TypeInv, RowTyped, Row
  <2>3. \A u \in Tx : row'[u].status = "completed" <=> row[u].status = "completed"
    BY <1>4, <2>2 DEF Open
  <2>4. reported' = reported
    BY <2>3 DEF reported
  <2>5. UNCHANGED payouts
    BY <1>4 DEF payouts
  <2>6. payouts[t] = 0
    BY <1>2, <2>1
  <2>7. Promise!Refund(t)
    BY <1>4, <2>1, <2>4, <2>5, <2>6 DEF Promise!Refund
  <2> QED  BY <2>7 DEF Promise!Next
<1>5. CASE CancelTask(t)
  <2>1. row[t].status = "accepted" /\ row[t].data.att = 0
    BY <1>1, <1>5, NotHeldNotSent DEF CancelTask, RowHolds
  <2> QED  BY <1>4, <1>5, <2>1 DEF CancelTask, Open
<1>6. CASE Reverse(t) /\ row[t].status # "completed"
  <2>1. row[t].status \in Open /\ row[t].data.att = 0
    BY <1>1, <1>6, NotHeldNotSent DEF Reverse, RowHolds, Open
  <2> QED  BY <1>4, <1>6, <2>1 DEF Reverse
<1>7. CASE Reverse(t) /\ row[t].status = "completed"
  <2>1. row'[t].status # "completed" /\ \A u \in Tx \ {t} : row'[u] = row[u]
    BY <1>1, <1>7 DEF Reverse, IInv, TypeInv, RowTyped, Row
  <2>2. reported' = [reported EXCEPT ![t] = FALSE]
    BY <2>1, SetReport
  <2>3. refunded' = [refunded EXCEPT ![t] = "settled"] /\ UNCHANGED <<payouts, debits>>
    BY <1>7 DEF Reverse, payouts
  <2> QED  BY <1>2, <1>7, <2>2, <2>3 DEF Promise!Next, Promise!Settle
<1> QED
  BY <1>3, <1>5, <1>6, <1>7

\* The dispatch, with its queue, claims, retries and reversals, implements the
\* promise made of a transfer's money: at most one payout and one charge, no
\* charge or report without a payout, no refund of an open transfer with one.
THEOREM CalmKeepsPromise ==
    ASSUME Calm
    PROVE  Spec => KeepsPromise
<1>1. Init => Promise!Init
  BY InitPromise
<1>2. IInv /\ [Next]_vars => [Promise!Next]_Promise!vars
  <2> SUFFICES ASSUME IInv, [Next]_vars
               PROVE  [Promise!Next]_Promise!vars
    OBVIOUS
  <2> QED
    BY NextKinds, QuietPromise, PayPromise, ChargePromise, DonePromise, TaskPromise
<1> QED
  BY <1>1, <1>2, CalmSpec, PTL DEF Spec, KeepsPromise, Promise!Spec
==============================================================================
