----------------------- MODULE CompletionEffects_proofs -----------------------
(***************************************************************************)
(* Proofs about the effects of completions, for any numbers of transfers,  *)
(* ticks and faults.  EffectsInv strengthens DoneMeansDone: a tick past an *)
(* effect has caused it, whoever else works on the same record.            *)
(***************************************************************************)
EXTENDS CompletionEffects, TLAPS

\* A tick that is at work, or whose receipt is, is on a transfer.
Placed == \A k \in Ticks : pc[k] # "idle" \/ rpc[k] # "none" => task[k] \in Tx

\* A tick past the audit entry, or past the listeners, finds their work done.
Progress ==
    \A k \in Ticks :
        /\ pc[k] \in {"journal", "await", "finish"} => audited[task[k]]
        /\ pc[k] \in {"await", "finish"} => posted[task[k]]

EffectsInv == TypeOK /\ Placed /\ Progress /\ DoneMeansDone

LEMMA InitEffects == Init => EffectsInv
BY EnvAssumption
DEF Init, EffectsInv, TypeOK, Placed, Progress, DoneMeansDone, TickSteps, ReceiptSteps

LEMMA FaultTyped ==
    ASSUME TypeOK, NEW h, FaultOf(h) \/ NoFault
    PROVE  faults' \in Nat
BY DEF FaultOf, NoFault, TypeOK

------------------------------------------------------------------------------
(* Completions and reversals *)

LEMMA EnqueueTyped ==
    ASSUME TypeOK, NEW t \in Tx, Enqueue(t)
    PROVE  /\ outbox' \in [Tx -> {"none", "pending", "processing", "completed"}]
           /\ due' \in [Tx -> BOOLEAN] /\ stale' \in [Tx -> BOOLEAN]
           /\ queue' \in Seq(Tx)
           /\ \A s \in Tx : outbox'[s] = "completed" <=> outbox[s] = "completed"
<1>1. CASE outbox[t] = "none"
  <2>1. queue' \in Seq(Tx)
    <3>1. queue \in Seq(Tx) /\ queue' = Append(queue, t)
      BY <1>1 DEF Enqueue, TypeOK
    <3> QED  BY <3>1
  <2>2. /\ outbox' = [outbox EXCEPT ![t] = "pending"]
        /\ due' = [due EXCEPT ![t] = TRUE] /\ stale' = stale
    BY <1>1 DEF Enqueue
  <2> QED  BY <1>1, <2>1, <2>2 DEF TypeOK
<1>2. CASE outbox[t] # "none"
  BY <1>2 DEF Enqueue, TypeOK, records
<1> QED  BY <1>1, <1>2

LEMMA CompleteEffects ==
    ASSUME EffectsInv, NEW t \in Tx,
           Complete(t) \/ CompleteUntransacted(t) \/ Reverse(t)
    PROVE  EffectsInv'
<1>1. TypeOK'
  <2>1. CASE Complete(t)
    <3>1. CASE Enqueue(t) /\ UNCHANGED completing
      BY <2>1, <3>1, EnqueueTyped DEF EffectsInv, TypeOK, Complete, effects, receiver
    <3>2. CASE completing' = completing \cup {t} /\ UNCHANGED records
      BY <2>1, <3>2 DEF EffectsInv, TypeOK, Complete, effects, receiver, records
    <3> QED  BY <2>1, <3>1, <3>2 DEF Complete
  <2>2. CASE CompleteUntransacted(t)
    <3>1. CASE Enqueue(t) /\ NoFault
      BY <2>2, <3>1, EnqueueTyped, FaultTyped
      DEF EffectsInv, TypeOK, CompleteUntransacted, effects, receiver
    <3>2. CASE FaultOf("error") /\ UNCHANGED records
      BY <2>2, <3>2, FaultTyped
      DEF EffectsInv, TypeOK, CompleteUntransacted, effects, receiver, records
    <3> QED  BY <2>2, <3>1, <3>2 DEF CompleteUntransacted
  <2>3. CASE Reverse(t)
    BY <2>3 DEF EffectsInv, TypeOK, Reverse, effects, receiver, records
  <2> QED  BY <2>1, <2>2, <2>3
<1>2. \A s \in Tx : outbox'[s] = "completed" => outbox[s] = "completed"
  BY EnqueueTyped DEF EffectsInv, Complete, CompleteUntransacted, Reverse, records
<1>3. UNCHANGED <<effects, receiver, pc, task>>
  BY DEF Complete, CompleteUntransacted, Reverse
<1> QED
  BY <1>1, <1>2, <1>3 DEF EffectsInv, Placed, Progress, DoneMeansDone, effects, receiver

------------------------------------------------------------------------------
(* Ticks *)

LEMMA ClaimEffects ==
    ASSUME EffectsInv, NEW k \in Ticks, NEW t \in Tx, Claim(k, t)
    PROVE  EffectsInv'
<1>1. TypeOK'
  BY DEF EffectsInv, TypeOK, Claim, orders, effects, receiver, TickSteps
<1>2. Placed'
  BY DEF EffectsInv, TypeOK, Claim, Placed, receiver
<1>3. Progress'
  BY DEF EffectsInv, TypeOK, Claim, Progress, effects
<1>4. DoneMeansDone'
  BY DEF EffectsInv, TypeOK, Claim, DoneMeansDone, effects
<1> QED  BY <1>1, <1>2, <1>3, <1>4 DEF EffectsInv

LEMMA LoadEffects ==
    ASSUME EffectsInv, NEW k \in Ticks, Load(k)
    PROVE  EffectsInv'
<1>1. TypeOK'
  BY FaultTyped
  DEF EffectsInv, TypeOK, Load, Goto, orders, records, effects, receiver, TickSteps
<1>2. Placed'
  BY DEF EffectsInv, TypeOK, Load, Goto, Placed, receiver
<1>3. Progress'
  BY DEF EffectsInv, TypeOK, Load, Goto, Progress, effects
<1>4. DoneMeansDone'
  BY DEF EffectsInv, Load, DoneMeansDone, effects, records
<1> QED  BY <1>1, <1>2, <1>3, <1>4 DEF EffectsInv

LEMMA AuditEffects ==
    ASSUME EffectsInv, NEW k \in Ticks, Audit(k)
    PROVE  EffectsInv'
<1>1. task[k] \in Tx
  BY DEF EffectsInv, Placed, Audit
<1>2. TypeOK'
  BY <1>1, FaultTyped
  DEF EffectsInv, TypeOK, Audit, Goto, orders, records, TickSteps, ReceiptSteps
<1>3. Placed'
  BY <1>1 DEF EffectsInv, TypeOK, Audit, Goto, Placed
<1>4. /\ \A s \in Tx : audited[s] => audited'[s]
      /\ audited'[task[k]] \/ pc'[k] = "fail"
  BY <1>1 DEF EffectsInv, TypeOK, Audit, Goto
<1>5. Progress'
  <2> SUFFICES ASSUME NEW j \in Ticks
               PROVE  /\ pc'[j] \in {"journal", "await", "finish"} => audited'[task[j]]
                      /\ pc'[j] \in {"await", "finish"} => posted[task[j]]
    BY DEF Progress, Audit
  <2>1. CASE j = k
    BY <2>1, <1>4 DEF EffectsInv, TypeOK, Audit, Goto
  <2>2. CASE j # k
    BY <2>2, <1>4 DEF EffectsInv, TypeOK, Audit, Goto, Progress, Placed
  <2> QED  BY <2>1, <2>2
<1>6. DoneMeansDone'
  BY <1>4 DEF EffectsInv, Audit, DoneMeansDone, records
<1> QED  BY <1>2, <1>3, <1>5, <1>6 DEF EffectsInv

LEMMA JournalEffects ==
    ASSUME EffectsInv, NEW k \in Ticks, Journal(k)
    PROVE  EffectsInv'
<1>1. task[k] \in Tx
  BY DEF EffectsInv, Placed, Journal
<1>2. TypeOK'
  BY <1>1, FaultTyped
  DEF EffectsInv, TypeOK, Journal, Goto, orders, records, receiver, TickSteps
<1>3. Placed'
  BY <1>1 DEF EffectsInv, TypeOK, Journal, Goto, Placed, receiver
<1>4. /\ \A s \in Tx : posted[s] => posted'[s]
      /\ posted'[task[k]] \/ pc'[k] = "fail"
  BY <1>1 DEF EffectsInv, TypeOK, Journal, Goto
<1>5. Progress'
  <2> SUFFICES ASSUME NEW j \in Ticks
               PROVE  /\ pc'[j] \in {"journal", "await", "finish"} => audited[task[j]]
                      /\ pc'[j] \in {"await", "finish"} => posted'[task[j]]
    BY DEF Progress, Journal
  <2>1. CASE j = k
    BY <2>1, <1>4 DEF EffectsInv, TypeOK, Journal, Goto, Progress
  <2>2. CASE j # k
    BY <2>2, <1>4 DEF EffectsInv, TypeOK, Journal, Goto, Progress, Placed
  <2> QED  BY <2>1, <2>2
<1>6. DoneMeansDone'
  BY <1>4 DEF EffectsInv, Journal, DoneMeansDone, records
<1> QED  BY <1>2, <1>3, <1>5, <1>6 DEF EffectsInv

LEMMA AwaitEffects ==
    ASSUME EffectsInv, NEW k \in Ticks, AwaitReceipt(k)
    PROVE  EffectsInv'
<1>1. TypeOK'
  BY DEF EffectsInv, TypeOK, AwaitReceipt, Goto, orders, records, effects, receiver,
         TickSteps
<1>2. Placed'
  BY DEF EffectsInv, TypeOK, AwaitReceipt, Goto, Placed, receiver
<1>3. Progress'
  BY DEF EffectsInv, TypeOK, AwaitReceipt, Goto, Progress, effects
<1>4. DoneMeansDone'
  BY DEF EffectsInv, AwaitReceipt, DoneMeansDone, effects, records
<1> QED  BY <1>1, <1>2, <1>3, <1>4 DEF EffectsInv

LEMMA FinishEffects ==
    ASSUME EffectsInv, NEW k \in Ticks, Finish(k)
    PROVE  EffectsInv'
<1>1. task[k] \in Tx /\ audited[task[k]] /\ posted[task[k]]
  BY DEF EffectsInv, Placed, Progress, Finish
<1>2. TypeOK'
  BY ZenonT(30), <1>1, FaultTyped
  DEF EffectsInv, TypeOK, Finish, SetDone, Goto, orders, effects, receiver, TickSteps
<1>3. Placed'
  BY DEF EffectsInv, TypeOK, Finish, Goto, Placed, receiver
<1>4. Progress'
  BY DEF EffectsInv, TypeOK, Finish, Goto, Progress, effects
<1>5. DoneMeansDone'
  BY <1>1 DEF EffectsInv, TypeOK, Finish, SetDone, DoneMeansDone, effects
<1> QED  BY <1>2, <1>3, <1>4, <1>5 DEF EffectsInv

LEMMA FailEffects ==
    ASSUME EffectsInv, NEW k \in Ticks, Fail(k)
    PROVE  EffectsInv'
<1>1. task[k] \in Tx
  BY DEF EffectsInv, Placed, Fail
<1>2. TypeOK'
  BY ZenonT(30), <1>1, FaultTyped
  DEF EffectsInv, TypeOK, Fail, Reschedule, Goto, orders, effects, receiver, TickSteps
<1>3. Placed'
  BY DEF EffectsInv, TypeOK, Fail, Goto, Placed, receiver
<1>4. Progress'
  BY DEF EffectsInv, TypeOK, Fail, Goto, Progress, effects
<1>5. DoneMeansDone'
  BY <1>1 DEF EffectsInv, TypeOK, Fail, Reschedule, DoneMeansDone, effects
<1> QED  BY <1>2, <1>3, <1>4, <1>5 DEF EffectsInv

------------------------------------------------------------------------------
(* Receipts *)

LEMMA SaveDeliveryTyped ==
    ASSUME TypeOK, NEW k \in Ticks, task[k] \in Tx,
           NEW status \in {"sending", "sent", "failed"}, SaveDelivery(k, status)
    PROVE  /\ delivery' \in [Tx -> {"none", "sending", "sent", "failed"}]
           /\ unsaved' \in [Ticks -> BOOLEAN]
<1>1. CASE unsaved[k] /\ delivery[task[k]] # "none"
  BY <1>1 DEF SaveDelivery, TypeOK
<1>2. CASE ~(unsaved[k] /\ delivery[task[k]] # "none")
  <2>1. /\ delivery' = [delivery EXCEPT ![task[k]] = status]
        /\ unsaved' = [unsaved EXCEPT ![k] = FALSE]
    BY <1>2 DEF SaveDelivery
  <2> QED  BY <2>1 DEF TypeOK
<1> QED  BY <1>1, <1>2

LEMMA ReceiptTyped ==
    ASSUME EffectsInv, NEW k \in Ticks, ReceiptStep(k)
    PROVE  TypeOK'
<1>1. task[k] \in Tx
  BY DEF EffectsInv, Placed, ReceiptStep, LockReceipt, CheckReceipt, MarkReceipt,
         SendReceipt, RecordReceipt, ReleaseReceipt
<1>2. CASE LockReceipt(k)
  <2>1. lock' \in [Tx -> Ticks \cup {NoTick, Orphan}]
    <3>1. \/ lock' = lock
          \/ \E h \in Ticks \cup {Orphan} : lock' = [lock EXCEPT ![task[k]] = h]
      BY <1>2 DEF LockReceipt
    <3> QED  BY <3>1 DEF EffectsInv, TypeOK
  <2>2. rpc' \in [Ticks -> ReceiptSteps] /\ faults' \in Nat
    BY <1>2, FaultTyped DEF EffectsInv, TypeOK, LockReceipt, ReceiptGoto, ReceiptSteps
  <2> QED
    BY <1>2, <2>1, <2>2 DEF EffectsInv, TypeOK, LockReceipt, orders, records, effects
<1>3. CASE CheckReceipt(k)
  <2>1. /\ delivery' \in [Tx -> {"none", "sending", "sent", "failed"}]
        /\ unsaved' \in [Ticks -> BOOLEAN]
    BY <1>1, <1>3 DEF EffectsInv, TypeOK, CheckReceipt
  <2>2. /\ rpc' \in [Ticks -> ReceiptSteps]
        /\ faults' \in Nat
    BY <1>3, FaultTyped DEF EffectsInv, TypeOK, CheckReceipt, ReceiptGoto, ReceiptSteps
  <2> QED
    BY <1>3, <2>1, <2>2 DEF EffectsInv, TypeOK, CheckReceipt, orders, records, effects
<1>4. CASE MarkReceipt(k)
  BY <1>1, <1>4, FaultTyped, SaveDeliveryTyped DEF EffectsInv, TypeOK, MarkReceipt,
                    ReceiptGoto, ReceiptSteps, orders, records, effects
<1>5. CASE SendReceipt(k)
  <2>1. receipts' \in [Tx -> Nat]
    <3>1. receipts \in [Tx -> Nat] /\ receipts[task[k]] + 1 \in Nat
      BY <1>1 DEF EffectsInv, TypeOK
    <3>2. \/ receipts' = receipts
          \/ receipts' = [receipts EXCEPT ![task[k]] = receipts[task[k]] + 1]
      BY <1>5 DEF SendReceipt
    <3> QED  BY <1>1, <3>1, <3>2
  <2>2. /\ rpc' \in [Ticks -> ReceiptSteps]
        /\ faults' \in Nat
    BY <1>5, FaultTyped DEF EffectsInv, TypeOK, SendReceipt, ReceiptGoto, ReceiptSteps
  <2> QED
    BY <1>5, <2>1, <2>2 DEF EffectsInv, TypeOK, SendReceipt, orders, records, effects
<1>6. CASE RecordReceipt(k)
  BY <1>1, <1>6, FaultTyped, SaveDeliveryTyped DEF EffectsInv, TypeOK, RecordReceipt,
                    ReceiptGoto, ReceiptSteps, orders, records, effects
<1>7. CASE ReleaseReceipt(k)
  <2>1. lock' \in [Tx -> Ticks \cup {NoTick, Orphan}]
    <3>1. \E h \in {NoTick, Orphan, lock[task[k]]} :
             lock' = [lock EXCEPT ![task[k]] = h]
      BY <1>7 DEF ReleaseReceipt
    <3> QED  BY <1>1, <3>1 DEF EffectsInv, TypeOK
  <2>2. rpc' \in [Ticks -> ReceiptSteps] /\ faults' \in Nat
    BY <1>7, FaultTyped
    DEF EffectsInv, TypeOK, ReleaseReceipt, ReceiptGoto, ReceiptSteps
  <2> QED
    BY <1>7, <2>1, <2>2
    DEF EffectsInv, TypeOK, ReleaseReceipt, orders, records, effects
<1> QED
  BY <1>2, <1>3, <1>4, <1>5, <1>6, <1>7 DEF ReceiptStep

LEMMA ReceiptEffects ==
    ASSUME EffectsInv, NEW k \in Ticks, ReceiptStep(k)
    PROVE  EffectsInv'
<1>1. UNCHANGED <<outbox, audited, posted, pc, task>>
  BY DEF ReceiptStep, LockReceipt, CheckReceipt, MarkReceipt, SendReceipt,
         RecordReceipt, ReleaseReceipt, records, effects
<1>2. rpc[k] # "none" /\ \A j \in Ticks : j # k => rpc'[j] = rpc[j]
  BY DEF EffectsInv, TypeOK, ReceiptStep, LockReceipt, CheckReceipt, MarkReceipt,
         SendReceipt, RecordReceipt, ReleaseReceipt, ReceiptGoto
<1>3. Placed'
  BY <1>1, <1>2 DEF EffectsInv, Placed
<1>4. Progress' /\ DoneMeansDone'
  BY <1>1 DEF EffectsInv, Progress, DoneMeansDone
<1> QED  BY <1>3, <1>4, ReceiptTyped DEF EffectsInv

------------------------------------------------------------------------------
(* Time, and the process *)

LEMMA TimeEffects ==
    ASSUME EffectsInv, NEW t \in Tx, BecomeDue(t) \/ BecomeStale(t) \/ LockExpires(t)
    PROVE  EffectsInv'
<1>1. TypeOK'
  <2>1. CASE BecomeDue(t)
    BY <2>1 DEF EffectsInv, TypeOK, BecomeDue, orders, effects, receiver
  <2>2. CASE BecomeStale(t)
    BY <2>2 DEF EffectsInv, TypeOK, BecomeStale, orders, effects, receiver
  <2>3. CASE LockExpires(t)
    BY <2>3, FaultTyped DEF EffectsInv, TypeOK, LockExpires, orders, effects, records
  <2> QED  BY <2>1, <2>2, <2>3
<1>2. UNCHANGED <<outbox, audited, posted, pc, task, rpc>>
  BY DEF BecomeDue, BecomeStale, LockExpires, effects, records, receiver
<1> QED  BY <1>1, <1>2 DEF EffectsInv, Placed, Progress, DoneMeansDone

LEMMA ProcessEffects ==
    ASSUME EffectsInv, Crash \/ Restart
    PROVE  EffectsInv'
<1>1. CASE Crash
  BY <1>1, FaultTyped DEF EffectsInv, TypeOK, Crash, Placed, Progress, DoneMeansDone,
                          records, effects, TickSteps, ReceiptSteps
<1>2. CASE Restart
  BY <1>2 DEF EffectsInv, TypeOK, Restart, Placed, Progress, DoneMeansDone,
              orders, effects, receiver
<1> QED  BY <1>1, <1>2

LEMMA NextEffects == EffectsInv /\ [Next]_vars => EffectsInv'
<1> SUFFICES ASSUME EffectsInv, [Next]_vars
             PROVE  EffectsInv'
  OBVIOUS
<1>1. ASSUME NEW k \in Ticks, TickStep(k)
      PROVE  EffectsInv'
  BY <1>1, LoadEffects, AuditEffects, JournalEffects, AwaitEffects, FinishEffects,
     FailEffects
  DEF TickStep
<1>2. CASE UNCHANGED vars
  BY <1>2 DEF vars, orders, records, effects, receiver, EffectsInv, TypeOK, Placed,
              Progress, DoneMeansDone
<1> QED
  BY <1>1, <1>2, CompleteEffects, ClaimEffects, ReceiptEffects, TimeEffects,
     ProcessEffects
  DEF Next

LEMMA EffectsInvariant == Spec => []EffectsInv
BY InitEffects, NextEffects, PTL DEF Spec

\* Every variable of the effects of completions keeps its type.
THEOREM EffectsTypeCorrect == Spec => []TypeOK
<1>1. EffectsInv => TypeOK
  BY DEF EffectsInv
<1> QED  BY <1>1, EffectsInvariant, PTL

\* A completed outbox record stands for effects that were caused, in every
\* environment: stops, stale claims, overlapping ticks and failing effects.
THEOREM EffectsDoneMeansDone == Spec => []DoneMeansDone
<1>1. EffectsInv => DoneMeansDone
  BY DEF EffectsInv
<1> QED  BY <1>1, EffectsInvariant, PTL

------------------------------------------------------------------------------
(* Steps: completed records, transfers taken back *)

LEMMA DoneStep ==
    ASSUME EffectsInv, Next, NEW t \in Tx, outbox[t] = "completed"
    PROVE  outbox'[t] = "completed"
<1>1. ASSUME NEW s \in Tx, Complete(s) \/ CompleteUntransacted(s)
      PROVE  outbox'[t] = "completed"
  BY <1>1, EnqueueTyped DEF EffectsInv, Complete, CompleteUntransacted, records
<1>2. ASSUME NEW s \in Tx, Reverse(s) \/ BecomeDue(s) \/ BecomeStale(s) \/ LockExpires(s)
      PROVE  outbox'[t] = "completed"
  BY <1>2 DEF Reverse, BecomeDue, BecomeStale, LockExpires, records
<1>3. ASSUME NEW k \in Ticks, NEW s \in Tx, Claim(k, s)
      PROVE  outbox'[t] = "completed"
  BY <1>3 DEF EffectsInv, TypeOK, Claim, Claimable
<1>4. ASSUME NEW k \in Ticks, TickStep(k)
      PROVE  outbox'[t] = "completed"
  <2>1. CASE Load(k) \/ Audit(k) \/ Journal(k) \/ AwaitReceipt(k)
    BY <2>1 DEF Load, Audit, Journal, AwaitReceipt, records
  <2>2. CASE Finish(k)
    BY <2>2 DEF EffectsInv, TypeOK, Finish, SetDone
  <2>3. CASE Fail(k)
    <3>1. CASE Reschedule(task[k]) /\ outbox[task[k]] = "processing"
      <4>1. outbox' = [outbox EXCEPT ![task[k]] = "pending"] /\ task[k] # t
        BY <3>1 DEF Reschedule
      <4> QED  BY <4>1 DEF EffectsInv, TypeOK
    <3>2. CASE Reschedule(task[k]) /\ outbox[task[k]] # "processing"
      BY <3>2 DEF Reschedule
    <3> QED  BY <2>3, <3>1, <3>2 DEF Fail
  <2> QED  BY <1>4, <2>1, <2>2, <2>3 DEF TickStep
<1>5. ASSUME NEW k \in Ticks, ReceiptStep(k)
      PROVE  outbox'[t] = "completed"
  BY <1>5 DEF ReceiptStep, LockReceipt, CheckReceipt, MarkReceipt, SendReceipt,
              RecordReceipt, ReleaseReceipt, records
<1>6. CASE Crash \/ Restart
  BY <1>6 DEF EffectsInv, TypeOK, Crash, Restart, records
<1> QED
  BY <1>1, <1>2, <1>3, <1>4, <1>5, <1>6 DEF Next

\* No step takes a completed record back, whatever overlaps.
THEOREM EffectsDoneStaysDone == Spec => DoneStaysDone
<1>1. EffectsInv /\ [Next]_vars =>
        [\A t \in Tx : outbox[t] = "completed" => outbox'[t] = "completed"]_vars
  BY DoneStep
<1> QED
  BY <1>1, EffectsInvariant, PTL DEF Spec, DoneStaysDone

LeftAlone(t) ==
    /\ ~Publishing(t)'
    /\ UNCHANGED <<audited[t], posted[t], receipts[t]>>

LEMMA UndoneStep ==
    ASSUME EffectsInv, Next, NEW t \in Tx, tx[t] = "undone", ~Publishing(t)
    PROVE  LeftAlone(t)
<1>1. ASSUME UNCHANGED <<audited, posted, receipts, pc, task, rpc>>
      PROVE  LeftAlone(t)
  BY <1>1 DEF LeftAlone, Publishing, SendingReceipt
<1>2. ASSUME NEW s \in Tx,
             \/ Complete(s) \/ CompleteUntransacted(s) \/ Reverse(s)
             \/ BecomeDue(s) \/ BecomeStale(s) \/ LockExpires(s)
      PROVE  LeftAlone(t)
  BY <1>1, <1>2 DEF Complete, CompleteUntransacted, Reverse, BecomeDue, BecomeStale,
                    LockExpires, effects, receiver
<1>3. ASSUME NEW k \in Ticks, NEW s \in Tx, Claim(k, s)
      PROVE  LeftAlone(t)
  BY <1>3 DEF EffectsInv, TypeOK, Claim, effects, receiver, LeftAlone, Publishing,
              SendingReceipt
<1>4. ASSUME NEW k \in Ticks, Load(k) \/ AwaitReceipt(k) \/ Finish(k) \/ Fail(k)
      PROVE  LeftAlone(t)
  <2>1. UNCHANGED <<audited, posted, receipts, task, rpc>>
    BY <1>4 DEF Load, AwaitReceipt, Finish, Fail, effects, receiver
  <2>2. /\ \A j \in Ticks : j # k => pc'[j] = pc[j]
        /\ pc'[k] \in {"audit", "journal"} => task[k] # t
    BY <1>4 DEF EffectsInv, TypeOK, Load, AwaitReceipt, Finish, Fail, Goto
  <2> QED  BY <2>1, <2>2 DEF LeftAlone, Publishing, SendingReceipt
<1>5. ASSUME NEW k \in Ticks, Audit(k) \/ Journal(k)
      PROVE  LeftAlone(t)
  <2>1. task[k] # t
    BY <1>5 DEF Publishing, Audit, Journal
  <2>2. /\ UNCHANGED <<receipts, task>>
        /\ audited'[t] = audited[t] /\ posted'[t] = posted[t]
    BY <1>5, <2>1 DEF EffectsInv, TypeOK, Audit, Journal, receiver
  <2>3. \A j \in Ticks : j # k => pc'[j] = pc[j] /\ rpc'[j] = rpc[j]
    BY <1>5 DEF EffectsInv, TypeOK, Audit, Journal, Goto, receiver
  <2> QED  BY <2>1, <2>2, <2>3 DEF LeftAlone, Publishing, SendingReceipt
<1>6. ASSUME NEW k \in Ticks, ReceiptStep(k)
      PROVE  LeftAlone(t)
  <2>1. task[k] # t
    BY <1>6 DEF Publishing, SendingReceipt, ReceiptStep, LockReceipt, CheckReceipt,
                MarkReceipt, SendReceipt, RecordReceipt, ReleaseReceipt
  <2>2. UNCHANGED <<audited, posted, pc, task>>
    BY <1>6 DEF ReceiptStep, LockReceipt, CheckReceipt, MarkReceipt, SendReceipt,
                RecordReceipt, ReleaseReceipt, effects
  <2>3. \A j \in Ticks : j # k => rpc'[j] = rpc[j]
    BY <1>6 DEF EffectsInv, TypeOK, ReceiptStep, LockReceipt, CheckReceipt,
                MarkReceipt, SendReceipt, RecordReceipt, ReleaseReceipt, ReceiptGoto
  <2>4. receipts'[t] = receipts[t]
    <3>1. CASE SendReceipt(k)
      BY <2>1, <3>1 DEF EffectsInv, TypeOK, SendReceipt
    <3>2. CASE ~SendReceipt(k)
      BY <1>6, <3>2 DEF ReceiptStep, LockReceipt, CheckReceipt, MarkReceipt,
                        RecordReceipt, ReleaseReceipt
    <3> QED  BY <3>1, <3>2
  <2> QED  BY <2>1, <2>2, <2>3, <2>4 DEF LeftAlone, Publishing, SendingReceipt
<1>7. CASE Crash
  BY <1>7 DEF Crash, LeftAlone, Publishing, SendingReceipt, effects
<1>8. CASE Restart
  BY <1>1, <1>8 DEF Restart, effects, receiver
<1> QED
  BY <1>2, <1>3, <1>4, <1>5, <1>6, <1>7, <1>8 DEF Next, TickStep

\* Retries of a transfer that was taken back announce nothing.
THEOREM EffectsUndoneIsLeftAlone == Spec => UndoneIsLeftAlone
<1>1. EffectsInv /\ [Next]_vars =>
        [\A t \in Tx : tx[t] = "undone" /\ ~Publishing(t) =>
            /\ ~Publishing(t)'
            /\ UNCHANGED <<audited[t], posted[t], receipts[t]>>]_vars
  BY UndoneStep DEF LeftAlone
<1> QED
  BY <1>1, EffectsInvariant, PTL DEF Spec, UndoneIsLeftAlone

------------------------------------------------------------------------------
(* Receipts, while the lock outlives its holder's work.  Then a receipt    *)
(* past the lock holds it, the receipts of a transfer whose row does not   *)
(* say "sent" have each been paid for by a fault, but for one that is      *)
(* about to be recorded, and a receipt about to go out is the first since. *)

Early == \A k \in Ticks : pc[k] \in {"load", "audit"} => rpc[k] = "none"

Holding == \A k \in Ticks : rpc[k] \notin {"none", "lock"} => lock[task[k]] = k

NewRows ==
    \A k \in Ticks :
        /\ rpc[k] = "mark" /\ unsaved[k] => delivery[task[k]] = "none"
        /\ rpc[k] \in {"send", "sent", "refused"} => ~unsaved[k]

Unsent ==
    \A k \in Ticks : rpc[k] \in {"mark", "send", "refused"} => receipts[task[k]] <= faults

Recording(t) == \E k \in Ticks : task[k] = t /\ rpc[k] = "sent"

Accounted ==
    \A t \in Tx : delivery[t] # "sent" => receipts[t] <= faults \/ Recording(t)

ReceiptInv ==
    EffectsInv /\ Early /\ Holding /\ NewRows /\ Unsent /\ Accounted /\ ReceiptsBounded

LEMMA InitReceipts == Init => ReceiptInv
BY InitEffects
DEF Init, ReceiptInv, Early, Holding, NewRows, Unsent, Accounted, Recording, ReceiptsBounded

LEMMA FaultsGrow ==
    ASSUME TypeOK, NEW h, FaultOf(h) \/ NoFault
    PROVE  /\ faults' \in Nat /\ faults \in Nat /\ faults <= faults'
           /\ FaultOf(h) => faults' = faults + 1
BY DEF FaultOf, NoFault, TypeOK

\* A step that touches no receipt.
LEMMA ReceiptsUntouched ==
    ASSUME ReceiptInv, EffectsInv', faults <= faults', faults' \in Nat,
           UNCHANGED <<delivery, receipts, lock, rpc, unsaved>>, Early',
           \A k \in Ticks : rpc[k] # "none" => task'[k] = task[k]
    PROVE  ReceiptInv'
<1>1. \A t \in Tx : receipts[t] \in Nat /\ faults \in Nat
  BY DEF ReceiptInv, EffectsInv, TypeOK
<1>2. \A k \in Ticks : rpc[k] # "none" => task[k] \in Tx
  BY DEF ReceiptInv, EffectsInv, Placed
<1>3. Holding' /\ NewRows'
  BY DEF ReceiptInv, Holding, NewRows
<1>4. Unsent' /\ Accounted' /\ ReceiptsBounded'
  BY <1>1, <1>2 DEF ReceiptInv, Unsent, Accounted, Recording, ReceiptsBounded
<1> QED  BY <1>3, <1>4 DEF ReceiptInv

LEMMA LockReceipts ==
    ASSUME ReceiptInv, EffectsInv', NEW k \in Ticks, LockReceipt(k)
    PROVE  ReceiptInv'
<1>1. task[k] \in Tx /\ pc[k] \notin {"load", "audit"}
  BY DEF ReceiptInv, EffectsInv, Placed, Early, LockReceipt
<1>2. /\ UNCHANGED <<delivery, receipts, unsaved, pc, task>>
      /\ faults' \in Nat /\ faults \in Nat /\ faults <= faults'
      /\ \A t \in Tx : receipts[t] \in Nat
      /\ \A j \in Ticks : rpc[j] # "none" => task[j] \in Tx
  BY FaultsGrow DEF LockReceipt, ReceiptInv, EffectsInv, TypeOK, Placed
<1>3. /\ \A j \in Ticks : j # k => rpc'[j] = rpc[j]
      /\ rpc[k] = "lock" /\ rpc'[k] \in {"check", "none"}
      /\ rpc'[k] = "check" => lock'[task[k]] = k
      /\ \A t \in Tx : lock[t] # NoTick => lock'[t] = lock[t]
  <2>1. rpc \in [Ticks -> ReceiptSteps] /\ lock \in [Tx -> Ticks \cup {NoTick, Orphan}]
    BY DEF ReceiptInv, EffectsInv, TypeOK
  <2>2. rpc[k] = "lock" /\ rpc' \in {[rpc EXCEPT ![k] = s] : s \in {"check", "none"}}
    BY DEF LockReceipt, ReceiptGoto
  <2>3. /\ \/ lock' = lock
           \/ /\ lock[task[k]] = NoTick
              /\ lock' \in {[lock EXCEPT ![task[k]] = h] : h \in {k, Orphan}}
        /\ rpc' = [rpc EXCEPT ![k] = "none"] \/ lock' = [lock EXCEPT ![task[k]] = k]
    BY DEF LockReceipt, ReceiptGoto
  <2> QED  BY <1>1, <2>1, <2>2, <2>3
<1>4. Early'
  BY <1>1, <1>2, <1>3 DEF ReceiptInv, Early
<1>5. Holding'
  <2> SUFFICES ASSUME NEW j \in Ticks, rpc'[j] \notin {"none", "lock"}
               PROVE  lock'[task[j]] = j
    BY <1>2 DEF Holding
  <2>1. CASE j = k
    BY <2>1, <1>3
  <2>2. CASE j # k
    BY <2>2, <1>3, EnvAssumption DEF ReceiptInv, Holding, EffectsInv, Placed
  <2> QED  BY <2>1, <2>2
<1>6. NewRows' /\ Unsent'
  BY <1>2, <1>3 DEF ReceiptInv, NewRows, Unsent
<1>7. Accounted' /\ ReceiptsBounded'
  BY <1>2, <1>3 DEF ReceiptInv, Accounted, Recording, ReceiptsBounded
<1> QED  BY <1>4, <1>5, <1>6, <1>7 DEF ReceiptInv

\* Two receipts past the lock are of different transfers.
LEMMA OneHolder ==
    ASSUME Holding, NEW j \in Ticks, NEW k \in Ticks, task[j] = task[k],
           rpc[j] \notin {"none", "lock"}, rpc[k] \notin {"none", "lock"}
    PROVE  j = k
BY DEF Holding

\* The steps past the lock: k moves on, its transfer's row and receipts change.
LEMMA HolderStep ==
    ASSUME ReceiptInv, EffectsInv', NEW k \in Ticks,
           rpc[k] \notin {"none", "lock"},
           rpc'[k] # "lock",
           \A j \in Ticks : j # k => rpc'[j] = rpc[j] /\ unsaved'[j] = unsaved[j],
           \A t \in Tx : t # task[k] => /\ delivery'[t] = delivery[t]
                                       /\ receipts'[t] = receipts[t]
                                       /\ lock'[t] = lock[t],
           rpc'[k] # "none" => lock'[task[k]] = lock[task[k]],
           UNCHANGED <<pc, task>>, faults' \in Nat, faults <= faults',
           rpc'[k] = "mark" /\ unsaved'[k] => delivery'[task[k]] = "none",
           rpc'[k] \in {"send", "sent", "refused"} => ~unsaved'[k],
           rpc'[k] \in {"mark", "send", "refused"} => receipts'[task[k]] <= faults',
           delivery'[task[k]] # "sent" =>
               receipts'[task[k]] <= faults' \/ rpc'[k] = "sent",
           receipts'[task[k]] <= 1 + faults'
    PROVE  ReceiptInv'
<1>1. /\ \A t \in Tx : receipts[t] \in Nat
      /\ faults \in Nat
      /\ task[k] \in Tx
      /\ \A j \in Ticks : rpc[j] # "none" => task[j] \in Tx
  BY DEF ReceiptInv, EffectsInv, TypeOK, Placed
<1>2. \A j \in Ticks : j # k /\ rpc[j] \notin {"none", "lock"} => task[j] # task[k]
  BY OneHolder DEF ReceiptInv
<1>3. Early'
  BY DEF ReceiptInv, Early
<1>4. Holding'
  <2> SUFFICES ASSUME NEW j \in Ticks, rpc'[j] \notin {"none", "lock"}
               PROVE  lock'[task[j]] = j
    BY DEF Holding
  <2>1. CASE j = k
    BY <2>1 DEF ReceiptInv, Holding
  <2>2. CASE j # k
    BY <2>2, <1>1, <1>2 DEF ReceiptInv, Holding
  <2> QED  BY <2>1, <2>2
<1>5. NewRows'
  <2> SUFFICES ASSUME NEW j \in Ticks
               PROVE  /\ rpc'[j] = "mark" /\ unsaved'[j] => delivery'[task[j]] = "none"
                      /\ rpc'[j] \in {"send", "sent", "refused"} => ~unsaved'[j]
    BY DEF NewRows
  <2>1. CASE j = k
    BY <2>1
  <2>2. CASE j # k
    BY <2>2, <1>1, <1>2 DEF ReceiptInv, NewRows
  <2> QED  BY <2>1, <2>2
<1>6. Unsent'
  <2> SUFFICES ASSUME NEW j \in Ticks, rpc'[j] \in {"mark", "send", "refused"}
               PROVE  receipts'[task[j]] <= faults'
    BY DEF Unsent
  <2>1. CASE j = k
    BY <2>1
  <2>2. CASE j # k
    <3>1. task[j] # task[k] /\ task[j] \in Tx /\ receipts[task[j]] <= faults
      BY <2>2, <1>1, <1>2 DEF ReceiptInv, Unsent
    <3> QED  BY <3>1, <1>1
  <2> QED  BY <2>1, <2>2
<1>7. Accounted' /\ ReceiptsBounded'
  <2> SUFFICES ASSUME NEW t \in Tx
               PROVE  /\ delivery'[t] # "sent" => receipts'[t] <= faults' \/ Recording(t)'
                      /\ receipts'[t] <= 1 + faults'
    BY DEF Accounted, ReceiptsBounded
  <2>1. CASE t = task[k]
    BY <2>1 DEF Recording
  <2>2. CASE t # task[k]
    <3>1. receipts[t] <= 1 + faults /\ receipts'[t] = receipts[t]
      BY <2>2 DEF ReceiptInv, ReceiptsBounded
    <3>2. Recording(t) => Recording(t)'
      BY <2>2 DEF Recording
    <3>3. delivery[t] # "sent" => receipts[t] <= faults \/ Recording(t)
      BY DEF ReceiptInv, Accounted
    <3> QED  BY <1>1, <2>2, <3>1, <3>2, <3>3
  <2> QED  BY <2>1, <2>2
<1> QED  BY <1>3, <1>4, <1>5, <1>6, <1>7 DEF ReceiptInv

LEMMA HolderFacts ==
    ASSUME ReceiptInv, NEW k \in Ticks, rpc[k] # "none"
    PROVE  /\ task[k] \in Tx /\ receipts[task[k]] \in Nat /\ faults \in Nat
           /\ rpc \in [Ticks -> ReceiptSteps] /\ unsaved \in [Ticks -> BOOLEAN]
           /\ delivery \in [Tx -> {"none", "sending", "sent", "failed"}]
           /\ receipts \in [Tx -> Nat] /\ lock \in [Tx -> Ticks \cup {NoTick, Orphan}]
           /\ receipts[task[k]] <= 1 + faults
BY DEF ReceiptInv, EffectsInv, TypeOK, Placed, ReceiptsBounded

\* Of a held transfer that is not being recorded, the faults have paid.
LEMMA HolderPaid ==
    ASSUME ReceiptInv, NEW k \in Ticks, rpc[k] \notin {"none", "lock", "sent"},
           delivery[task[k]] # "sent"
    PROVE  receipts[task[k]] <= faults
<1>1. task[k] \in Tx /\ ~Recording(task[k])
  BY OneHolder, HolderFacts DEF ReceiptInv, Recording
<1> QED  BY <1>1 DEF ReceiptInv, Accounted

LEMMA CheckReceipts ==
    ASSUME ReceiptInv, EffectsInv', NEW k \in Ticks, CheckReceipt(k)
    PROVE  ReceiptInv'
<1>1. rpc[k] = "check" /\ UNCHANGED <<receipts, lock, pc, task>>
  BY DEF CheckReceipt
<1>2. faults' \in Nat /\ faults <= faults'
  BY FaultsGrow DEF CheckReceipt, ReceiptInv, EffectsInv
<1>3. \/ /\ delivery[task[k]] # "sent" /\ delivery' = delivery
         /\ rpc' = [rpc EXCEPT ![k] = "mark"]
         /\ unsaved' = [unsaved EXCEPT ![k] = delivery[task[k]] = "none"]
      \/ /\ rpc' = [rpc EXCEPT ![k] = "release"] /\ unsaved' = unsaved
         /\ \/ delivery' = delivery
            \/ /\ delivery[task[k]] # "sent"
               /\ delivery' = [delivery EXCEPT ![task[k]] = "failed"]
  BY DEF CheckReceipt, ReceiptGoto
<1>4. delivery[task[k]] # "sent" => receipts[task[k]] <= faults
  BY <1>1, HolderPaid
<1>5. /\ rpc'[k] \in {"mark", "release"}
      /\ \A j \in Ticks : j # k => rpc'[j] = rpc[j] /\ unsaved'[j] = unsaved[j]
      /\ rpc'[k] = "mark" /\ unsaved'[k] => delivery'[task[k]] = "none"
  BY <1>1, <1>3, HolderFacts
<1>6. /\ \A t \in Tx : t # task[k] => delivery'[t] = delivery[t]
      /\ delivery'[task[k]] # "sent" \/ rpc'[k] = "mark" => delivery[task[k]] # "sent"
  BY <1>1, <1>3, HolderFacts
<1>7. /\ rpc'[k] = "mark" => receipts'[task[k]] <= faults'
      /\ delivery'[task[k]] # "sent" => receipts'[task[k]] <= faults'
      /\ receipts'[task[k]] <= 1 + faults'
  BY <1>1, <1>2, <1>4, <1>6, HolderFacts
<1> QED
  BY <1>1, <1>2, <1>5, <1>6, <1>7, HolderStep

LEMMA SaveDeliveryNew ==
    ASSUME ReceiptInv, NEW k \in Ticks, rpc[k] \in {"mark", "sent", "refused"},
           NEW status, SaveDelivery(k, status)
    PROVE  /\ delivery' = [delivery EXCEPT ![task[k]] = status]
           /\ unsaved' = [unsaved EXCEPT ![k] = FALSE]
<1>1. ~(unsaved[k] /\ delivery[task[k]] # "none")
  BY DEF ReceiptInv, NewRows
<1> QED  BY <1>1 DEF SaveDelivery

LEMMA MarkReceipts ==
    ASSUME ReceiptInv, EffectsInv', NEW k \in Ticks, MarkReceipt(k)
    PROVE  ReceiptInv'
<1>1. rpc[k] = "mark" /\ UNCHANGED <<receipts, lock, pc, task>>
  BY DEF MarkReceipt
<1>2. faults' \in Nat /\ faults <= faults'
  BY FaultsGrow DEF MarkReceipt, ReceiptInv, EffectsInv
<1>3. \/ /\ delivery' = [delivery EXCEPT ![task[k]] = "sending"]
         /\ unsaved' = [unsaved EXCEPT ![k] = FALSE]
         /\ rpc' = [rpc EXCEPT ![k] = "send"]
      \/ /\ rpc' = [rpc EXCEPT ![k] = "release"]
         /\ UNCHANGED <<delivery, unsaved>>
  BY <1>1, SaveDeliveryNew DEF MarkReceipt, ReceiptGoto
<1>4. receipts[task[k]] <= faults
  BY <1>1 DEF ReceiptInv, Unsent
<1>5. /\ rpc'[k] \in {"send", "release"}
      /\ \A j \in Ticks : j # k => rpc'[j] = rpc[j] /\ unsaved'[j] = unsaved[j]
      /\ \A t \in Tx : t # task[k] => delivery'[t] = delivery[t]
      /\ rpc'[k] = "send" => ~unsaved'[k]
  BY <1>1, <1>3, HolderFacts
<1>6. receipts'[task[k]] <= faults' /\ receipts'[task[k]] <= 1 + faults'
  BY <1>1, <1>2, <1>4, HolderFacts
<1> QED
  BY <1>1, <1>2, <1>5, <1>6, HolderStep

LEMMA SendReceipts ==
    ASSUME ReceiptInv, EffectsInv', NEW k \in Ticks, SendReceipt(k)
    PROVE  ReceiptInv'
<1>1. rpc[k] = "send" /\ UNCHANGED <<delivery, unsaved, lock, pc, task>>
  BY DEF SendReceipt
<1>2. faults' \in Nat /\ faults <= faults'
  BY FaultsGrow DEF SendReceipt, ReceiptInv, EffectsInv
<1>3. receipts[task[k]] <= faults /\ ~unsaved[k]
  BY <1>1 DEF ReceiptInv, Unsent, NewRows
<1>4. \/ /\ receipts' = [receipts EXCEPT ![task[k]] = receipts[task[k]] + 1]
         /\ rpc' = [rpc EXCEPT ![k] = "sent"]
      \/ /\ \/ receipts' = receipts
            \/ receipts' = [receipts EXCEPT ![task[k]] = receipts[task[k]] + 1]
         /\ rpc' = [rpc EXCEPT ![k] = "refused"]
         /\ faults' = faults + 1
  BY FaultsGrow DEF SendReceipt, ReceiptGoto, ReceiptInv, EffectsInv
<1>5. /\ rpc'[k] \in {"sent", "refused"}
      /\ \A j \in Ticks : j # k => rpc'[j] = rpc[j]
      /\ \A t \in Tx : t # task[k] => receipts'[t] = receipts[t]
  BY <1>1, <1>4, HolderFacts
<1>6. /\ receipts'[task[k]] <= 1 + faults'
      /\ rpc'[k] = "refused" => receipts'[task[k]] <= faults'
  BY <1>1, <1>2, <1>3, <1>4, HolderFacts
<1> QED
  BY <1>1, <1>2, <1>3, <1>5, <1>6, HolderStep

LEMMA RecordReceipts ==
    ASSUME ReceiptInv, EffectsInv', NEW k \in Ticks, RecordReceipt(k)
    PROVE  ReceiptInv'
<1>1. rpc[k] \in {"sent", "refused"} /\ UNCHANGED <<receipts, lock, pc, task>>
  BY DEF RecordReceipt
<1>2. faults' \in Nat /\ faults <= faults'
  BY FaultsGrow DEF RecordReceipt, ReceiptInv, EffectsInv
<1>3. rpc' = [rpc EXCEPT ![k] = "release"]
  BY DEF RecordReceipt, ReceiptGoto
<1>4. \/ /\ delivery' = [delivery EXCEPT
                           ![task[k]] = IF rpc[k] = "sent" THEN "sent" ELSE "failed"]
         /\ unsaved' = [unsaved EXCEPT ![k] = FALSE]
      \/ UNCHANGED <<delivery, unsaved>> /\ faults' = faults + 1
  BY <1>1, SaveDeliveryNew, FaultsGrow DEF RecordReceipt, ReceiptInv, EffectsInv
<1>5. /\ rpc'[k] = "release"
      /\ \A j \in Ticks : j # k => rpc'[j] = rpc[j] /\ unsaved'[j] = unsaved[j]
      /\ \A t \in Tx : t # task[k] => delivery'[t] = delivery[t]
  BY <1>1, <1>3, <1>4, HolderFacts
<1>6. rpc[k] = "refused" => receipts[task[k]] <= faults
  BY DEF ReceiptInv, Unsent
<1>7. delivery'[task[k]] # "sent" => receipts'[task[k]] <= faults'
  <2>1. CASE faults' = faults + 1
    BY <1>1, <2>1, HolderFacts
  <2>2. CASE delivery' = [delivery EXCEPT
                           ![task[k]] = IF rpc[k] = "sent" THEN "sent" ELSE "failed"]
    <3>1. delivery'[task[k]] # "sent" => rpc[k] = "refused"
      BY <1>1, <2>2, HolderFacts
    <3> QED  BY <3>1, <1>1, <1>2, <1>6, HolderFacts
  <2> QED  BY <1>4, <2>1, <2>2
<1>8. receipts'[task[k]] <= 1 + faults'
  BY <1>1, <1>2, HolderFacts
<1> QED
  BY <1>1, <1>2, <1>5, <1>7, <1>8, HolderStep

LEMMA ReleaseReceipts ==
    ASSUME ReceiptInv, EffectsInv', NEW k \in Ticks, ReleaseReceipt(k)
    PROVE  ReceiptInv'
<1>1. /\ rpc[k] = "release" /\ rpc' = [rpc EXCEPT ![k] = "none"]
      /\ UNCHANGED <<delivery, receipts, unsaved, pc, task>>
      /\ faults' \in Nat /\ faults <= faults'
  BY FaultsGrow DEF ReleaseReceipt, ReceiptGoto, ReceiptInv, EffectsInv
<1>2. /\ rpc'[k] = "none"
      /\ \A j \in Ticks : j # k => rpc'[j] = rpc[j]
      /\ \A t \in Tx : t # task[k] => lock'[t] = lock[t]
  <2>1. \A t \in Tx : t # task[k] => lock'[t] = lock[t]
    BY <1>1, HolderFacts DEF ReleaseReceipt
  <2> QED  BY <1>1, <2>1, HolderFacts
<1>3. delivery[task[k]] # "sent" => receipts[task[k]] <= faults
  BY <1>1, HolderPaid
<1>4. /\ receipts'[task[k]] <= 1 + faults'
      /\ delivery'[task[k]] # "sent" => receipts'[task[k]] <= faults'
  BY <1>1, <1>3, HolderFacts
<1>5. /\ \A j \in Ticks : j # k => unsaved'[j] = unsaved[j]
      /\ \A t \in Tx : delivery'[t] = delivery[t] /\ receipts'[t] = receipts[t]
      /\ pc' = pc /\ task' = task
  BY <1>1
<1> QED
  BY <1>1, <1>2, <1>4, <1>5, HolderStep

LEMMA ReceiptStepReceipts ==
    ASSUME ReceiptInv, EffectsInv', NEW k \in Ticks, ReceiptStep(k)
    PROVE  ReceiptInv'
BY LockReceipts, CheckReceipts, MarkReceipts, SendReceipts, RecordReceipts,
   ReleaseReceipts
DEF ReceiptStep

\* Steps that touch neither a receipt nor a tick's place.
LEMMA OtherReceipts ==
    ASSUME ReceiptInv, EffectsInv', faults' \in Nat, faults <= faults',
           UNCHANGED <<receiver, pc, task>>
    PROVE  ReceiptInv'
<1>1. Early'
  BY DEF ReceiptInv, Early, receiver
<1> QED  BY <1>1, ReceiptsUntouched DEF receiver

LEMMA ClaimReceipts ==
    ASSUME ReceiptInv, EffectsInv', NEW k \in Ticks, NEW t \in Tx, Claim(k, t)
    PROVE  ReceiptInv'
<1>1. /\ rpc[k] = "none" /\ UNCHANGED <<receiver, faults>>
      /\ task' = [task EXCEPT ![k] = t] /\ pc' = [pc EXCEPT ![k] = "load"]
  BY DEF Claim
<1>2. faults \in Nat /\ task \in [Ticks -> Tx \cup {NoTx}] /\ pc \in [Ticks -> TickSteps]
  BY DEF ReceiptInv, EffectsInv, TypeOK
<1>3. Early'
  BY <1>1, <1>2 DEF ReceiptInv, Early, receiver
<1>4. \A j \in Ticks : rpc[j] # "none" => task'[j] = task[j]
  BY <1>1, <1>2
<1> QED  BY <1>1, <1>2, <1>3, <1>4, ReceiptsUntouched DEF receiver

LEMMA TickReceipts ==
    ASSUME ReceiptInv, EffectsInv', NEW k \in Ticks,
           Load(k) \/ Journal(k) \/ AwaitReceipt(k) \/ Finish(k) \/ Fail(k)
    PROVE  ReceiptInv'
<1>1. UNCHANGED <<receiver, task>>
  BY DEF Load, Journal, AwaitReceipt, Finish, Fail
<1>2. faults' \in Nat /\ faults <= faults'
  <2>1. FaultOf("error") \/ NoFault
    BY DEF Load, Journal, AwaitReceipt, Finish, Fail, NoFault
  <2> QED  BY <2>1, FaultsGrow DEF ReceiptInv, EffectsInv
<1>3. pc'[k] = "audit" => pc[k] = "load"
  BY DEF Load, Journal, AwaitReceipt, Finish, Fail, Goto, ReceiptInv, EffectsInv, TypeOK
<1>4. pc'[k] # "load" /\ \A j \in Ticks : j # k => pc'[j] = pc[j]
  BY DEF Load, Journal, AwaitReceipt, Finish, Fail, Goto, ReceiptInv, EffectsInv, TypeOK
<1>5. Early'
  BY <1>1, <1>3, <1>4 DEF ReceiptInv, Early, receiver
<1> QED  BY <1>1, <1>2, <1>5, ReceiptsUntouched DEF receiver

LEMMA AuditReceipts ==
    ASSUME ReceiptInv, EffectsInv', NEW k \in Ticks, Audit(k)
    PROVE  ReceiptInv'
<1>1. /\ rpc[k] = "none" /\ task[k] \in Tx
      /\ UNCHANGED <<delivery, receipts, lock, unsaved, task>>
  BY DEF Audit, ReceiptInv, Early, EffectsInv, Placed
<1>2. faults \in Nat /\ faults' \in Nat /\ faults <= faults'
  BY FaultsGrow DEF Audit, ReceiptInv, EffectsInv
<1>3. /\ \A j \in Ticks : j # k => pc'[j] = pc[j] /\ rpc'[j] = rpc[j]
      /\ pc'[k] \in {"journal", "fail"} /\ rpc'[k] \in {"none", "lock"}
  BY <1>1 DEF Audit, Goto, ReceiptInv, EffectsInv, TypeOK
<1>4. /\ \A t \in Tx : receipts[t] \in Nat
      /\ \A j \in Ticks : rpc[j] # "none" => task[j] \in Tx
  BY DEF ReceiptInv, EffectsInv, TypeOK, Placed
<1>5. Early' /\ Holding' /\ NewRows'
  BY <1>1, <1>3 DEF ReceiptInv, Early, Holding, NewRows
<1>6. Unsent'
  BY <1>1, <1>2, <1>3, <1>4 DEF ReceiptInv, Unsent
<1>7. \A t \in Tx : Recording(t) => Recording(t)'
  BY <1>1, <1>3 DEF Recording
<1>8. Accounted' /\ ReceiptsBounded'
  BY <1>1, <1>2, <1>4, <1>7 DEF ReceiptInv, Accounted, ReceiptsBounded
<1> QED  BY <1>5, <1>6, <1>8 DEF ReceiptInv

\* No lock expires under a holder at work: it never does, or has not yet.
LockOutlives == "lockExpires" \notin Env \/ faults' = 0

LEMMA LockTimeReceipts ==
    ASSUME ReceiptInv, EffectsInv', LockOutlives,
           NEW t \in Tx, LockExpires(t)
    PROVE  ReceiptInv'
<1>0. faults \in Nat
  BY DEF ReceiptInv, EffectsInv, TypeOK
<1>1. /\ lock[t] = Orphan /\ lock' = [lock EXCEPT ![t] = NoTick]
      /\ UNCHANGED <<delivery, receipts, rpc, unsaved, pc, task, faults>>
  BY <1>0 DEF LockExpires, FaultOf, NoFault, LockOutlives
<1>2. lock \in [Tx -> Ticks \cup {NoTick, Orphan}] /\ Orphan \notin Ticks
  BY EnvAssumption DEF ReceiptInv, EffectsInv, TypeOK
<1>3. Holding'
  BY <1>1, <1>2 DEF ReceiptInv, Holding, EffectsInv, Placed
<1>4. Early' /\ NewRows' /\ Unsent' /\ Accounted' /\ ReceiptsBounded'
  BY <1>1 DEF ReceiptInv, Early, NewRows, Unsent, Accounted, Recording, ReceiptsBounded
<1> QED  BY <1>3, <1>4 DEF ReceiptInv

LEMMA CrashReceipts ==
    ASSUME ReceiptInv, EffectsInv', Crash
    PROVE  ReceiptInv'
<1>1. /\ rpc' = [k \in Ticks |-> "none"]
      /\ faults \in Nat /\ faults' = faults + 1
      /\ UNCHANGED <<delivery, receipts>>
  BY FaultsGrow DEF Crash, ReceiptInv, EffectsInv
<1>2. \A t \in Tx : receipts[t] \in Nat /\ receipts[t] <= 1 + faults
  BY DEF ReceiptInv, ReceiptsBounded, EffectsInv, TypeOK
<1>3. Early' /\ Holding' /\ NewRows' /\ Unsent'
  BY <1>1 DEF Early, Holding, NewRows, Unsent
<1>4. Accounted' /\ ReceiptsBounded'
  BY <1>1, <1>2 DEF Accounted, ReceiptsBounded
<1> QED  BY <1>3, <1>4 DEF ReceiptInv

LEMMA NextReceipts ==
    ASSUME ReceiptInv, [Next]_vars, LockOutlives
    PROVE  ReceiptInv'
<1>1. EffectsInv' /\ TypeOK
  BY NextEffects DEF ReceiptInv, EffectsInv
<1>2. ASSUME NEW t \in Tx,
             \/ Complete(t) \/ CompleteUntransacted(t) \/ Reverse(t)
             \/ BecomeDue(t) \/ BecomeStale(t)
      PROVE  ReceiptInv'
  <2>1. UNCHANGED <<receiver, pc, task>>
    BY <1>2 DEF Complete, CompleteUntransacted, Reverse, BecomeDue, BecomeStale
  <2>2. faults' \in Nat /\ faults <= faults'
    <3>1. FaultOf("error") \/ NoFault
      BY <1>2 DEF Complete, CompleteUntransacted, Reverse, BecomeDue, BecomeStale, NoFault
    <3> QED  BY <3>1, <1>1, FaultsGrow
  <2> QED  BY <1>1, <2>1, <2>2, OtherReceipts
<1>3. CASE Restart \/ UNCHANGED vars
  BY <1>1, <1>3, OtherReceipts DEF Restart, vars, receiver, TypeOK
<1> QED
  BY <1>1, <1>2, <1>3, LockTimeReceipts, ClaimReceipts, TickReceipts, AuditReceipts,
     ReceiptStepReceipts, CrashReceipts
  DEF Next, TickStep

\* While a receipt lock outlives its holder's work, a customer gets at most one
\* receipt more than there were faults, for any number of overlapping ticks.
THEOREM EffectsReceiptsBounded ==
    ASSUME "lockExpires" \notin Env
    PROVE  Spec => []ReceiptsBounded
<1>1. ReceiptInv /\ [Next]_vars => ReceiptInv'
  BY NextReceipts DEF LockOutlives
<1>2. ReceiptInv => ReceiptsBounded
  BY DEF ReceiptInv
<1> QED
  BY <1>1, <1>2, InitReceipts, PTL DEF Spec

------------------------------------------------------------------------------
(* No receipt is forgotten.  As long as there is no fault, a held lock is   *)
(* that of a receipt past it, a receipt gives its lock up only when it has  *)
(* been recorded as sent or has nothing to announce any more, and a tick    *)
(* past the start of its receipt finds the transfer attended to.            *)

Delivered(t) == delivery[t] = "sent" \/ SendingReceipt(t) \/ tx[t] = "undone"

HeldByReceipts ==
    \A t \in Tx :
        /\ lock[t] # Orphan
        /\ lock[t] \in Ticks => /\ task[lock[t]] = t
                                /\ rpc[lock[t]] \notin {"none", "lock"}

ReleasedWhenDone ==
    \A k \in Ticks :
        /\ rpc[k] # "refused"
        /\ rpc[k] = "release" => delivery[task[k]] = "sent" \/ tx[task[k]] = "undone"

AfterCompletion ==
    \A k \in Ticks :
        rpc[k] # "none" \/ pc[k] \in {"audit", "journal", "await", "finish"}
            => tx[task[k]] # "accepted"

Attended ==
    \A k \in Ticks : pc[k] \in {"journal", "await", "finish"} => Delivered(task[k])

DoneDelivered == \A t \in Tx : outbox[t] = "completed" => Delivered(t)

SentInv ==
    /\ HeldByReceipts /\ ReleasedWhenDone /\ AfterCompletion
    /\ Attended /\ DoneDelivered

LEMMA InitSent == Init => SentInv
BY EnvAssumption
DEF Init, SentInv, HeldByReceipts, ReleasedWhenDone, AfterCompletion, Attended,
    DoneDelivered

\* While there has been no fault, a step has none.
LEMMA CalmStep ==
    ASSUME TypeOK, faults' = 0, NEW h
    PROVE  ~FaultOf(h)
BY DEF TypeOK, FaultOf

LEMMA SentFacts ==
    ASSUME ReceiptInv
    PROVE  /\ tx \in [Tx -> {"accepted", "completed", "undone"}]
           /\ outbox \in [Tx -> {"none", "pending", "processing", "completed"}]
           /\ delivery \in [Tx -> {"none", "sending", "sent", "failed"}]
           /\ lock \in [Tx -> Ticks \cup {NoTick, Orphan}]
           /\ pc \in [Ticks -> TickSteps] /\ task \in [Ticks -> Tx \cup {NoTx}]
           /\ rpc \in [Ticks -> ReceiptSteps]
           /\ \A k \in Ticks : rpc[k] # "none" => task[k] \in Tx
           /\ \A k \in Ticks : pc[k] # "idle" => task[k] \in Tx
BY DEF ReceiptInv, EffectsInv, TypeOK, Placed

\* A step of no receipt: no lock, delivery row or receipt changes but that one
\* is started, transfers only move on, and whoever gets past the start of its
\* receipt, or completes a record, finds the transfer attended to.
LEMMA CalmSent ==
    ASSUME ReceiptInv, SentInv, UNCHANGED <<delivery, lock>>,
           \A k \in Ticks : rpc'[k] # rpc[k] => rpc[k] = "none" /\ rpc'[k] = "lock",
           \A k \in Ticks : rpc[k] # "none" => task'[k] = task[k],
           \A t \in Tx : tx[t] # "accepted" => tx'[t] # "accepted",
           \A t \in Tx : tx[t] = "undone" => tx'[t] = "undone",
           \A k \in Ticks : /\ pc'[k] \in {"audit", "journal", "await", "finish"}
                                  => /\ task'[k] = task[k]
                                     /\ tx[task[k]] # "accepted"
                                     /\ task[k] \in Tx
                            /\ rpc'[k] # rpc[k] => /\ tx[task[k]] # "accepted"
                                                   /\ task'[k] = task[k]
                                                   /\ task[k] \in Tx,
           \A k \in Ticks : pc'[k] \in {"journal", "await", "finish"}
                                => Delivered(task[k]) \/ rpc'[k] = "lock",
           \A t \in Tx : outbox'[t] = "completed" => Delivered(t)
    PROVE  SentInv'
<1>1. \A t \in Tx : Delivered(t) => Delivered(t)'
  BY SentFacts DEF Delivered, SendingReceipt
<1>2. HeldByReceipts'
  BY SentFacts, EnvAssumption DEF SentInv, HeldByReceipts
<1>3. ReleasedWhenDone'
  BY SentFacts DEF SentInv, ReleasedWhenDone
<1>4. AfterCompletion'
  BY SentFacts DEF SentInv, AfterCompletion
<1>5. Attended'
  BY <1>1, SentFacts DEF Attended, Delivered, SendingReceipt
<1>6. DoneDelivered'
  BY <1>1 DEF DoneDelivered
<1> QED  BY <1>2, <1>3, <1>4, <1>5, <1>6 DEF SentInv

LEMMA OrderSent ==
    ASSUME ReceiptInv, SentInv, NEW t \in Tx,
           Complete(t) \/ CompleteUntransacted(t) \/ Reverse(t) \/ BecomeDue(t) \/ BecomeStale(t)
    PROVE  SentInv'
<1>1. UNCHANGED <<receiver, pc, task>>
  BY DEF Complete, CompleteUntransacted, Reverse, BecomeDue, BecomeStale
<1>2. /\ \A u \in Tx : tx[u] # "accepted" => tx'[u] # "accepted"
      /\ \A u \in Tx : tx[u] = "undone" => tx'[u] = "undone"
  BY SentFacts DEF Complete, CompleteUntransacted, Reverse, BecomeDue, BecomeStale, orders
<1>3. \A u \in Tx : outbox'[u] = "completed" => outbox[u] = "completed"
  BY SentFacts
  DEF Complete, CompleteUntransacted, Enqueue, Reverse, BecomeDue, BecomeStale, records
<1>4. /\ delivery' = delivery /\ lock' = lock
      /\ rpc' = rpc /\ pc' = pc /\ task' = task
  BY <1>1 DEF receiver
<1>5. \A u \in Tx : outbox'[u] = "completed" => Delivered(u)
  BY <1>3 DEF SentInv, DoneDelivered
<1>6. \A k \in Ticks : pc'[k] \in {"journal", "await", "finish"} => Delivered(task[k])
  BY <1>4 DEF SentInv, Attended
<1>7. \A k \in Ticks : pc'[k] \in {"audit", "journal", "await", "finish"}
          => task[k] \in Tx /\ tx[task[k]] # "accepted"
  BY <1>4, SentFacts DEF SentInv, AfterCompletion
<1> QED  BY <1>2, <1>4, <1>5, <1>6, <1>7, CalmSent

LEMMA ClaimSent ==
    ASSUME ReceiptInv, SentInv, NEW k \in Ticks, NEW t \in Tx, Claim(k, t)
    PROVE  SentInv'
<1>1. /\ rpc[k] = "none" /\ delivery' = delivery /\ lock' = lock /\ rpc' = rpc /\ tx' = tx
      /\ task' = [task EXCEPT ![k] = t] /\ pc' = [pc EXCEPT ![k] = "load"]
      /\ outbox' = [outbox EXCEPT ![t] = "processing"]
  BY DEF Claim, receiver, orders
<1>2. /\ \A j \in Ticks : rpc[j] # "none" => task'[j] = task[j]
      /\ \A j \in Ticks : pc'[j] \in {"audit", "journal", "await", "finish"}
                            => j # k /\ pc'[j] = pc[j] /\ task'[j] = task[j]
      /\ \A u \in Tx : outbox'[u] = "completed" => outbox[u] = "completed"
  BY <1>1, SentFacts
<1>3. \A u \in Tx : outbox'[u] = "completed" => Delivered(u)
  BY <1>2 DEF SentInv, DoneDelivered
<1>4. \A j \in Ticks : pc'[j] \in {"journal", "await", "finish"} => Delivered(task[j])
  BY <1>2 DEF SentInv, Attended
<1>5. \A j \in Ticks : pc'[j] \in {"audit", "journal", "await", "finish"}
          => /\ task'[j] = task[j]
             /\ task[j] \in Tx /\ tx[task[j]] # "accepted"
  BY <1>2, SentFacts DEF SentInv, AfterCompletion
<1> QED  BY <1>1, <1>2, <1>3, <1>4, <1>5, CalmSent

\* The steps of a tick, but for the one that starts the receipt.
LEMMA TickSent ==
    ASSUME ReceiptInv, SentInv, faults' = 0, NEW k \in Ticks,
           Load(k) \/ Journal(k) \/ AwaitReceipt(k) \/ Finish(k) \/ Fail(k)
    PROVE  SentInv'
<1>1. ~FaultOf("error")
  BY CalmStep DEF ReceiptInv, EffectsInv
<1>2. /\ delivery' = delivery /\ lock' = lock /\ rpc' = rpc /\ tx' = tx /\ task' = task
  BY DEF Load, Journal, AwaitReceipt, Finish, Fail, receiver, orders
<1>3. /\ \A j \in Ticks : j # k => pc'[j] = pc[j]
      /\ pc'[k] = "audit" => pc[k] = "load" /\ tx[task[k]] = "completed"
      /\ pc'[k] \in {"journal", "await", "finish"} => pc[k] \in {"journal", "await"}
      /\ pc[k] # "idle"
  BY <1>1, SentFacts DEF Load, Journal, AwaitReceipt, Finish, Fail, Goto
<1>4. \A u \in Tx : outbox'[u] = "completed"
          => outbox[u] = "completed" \/ (pc[k] = "finish" /\ u = task[k])
  <2>1. CASE Load(k) \/ Journal(k) \/ AwaitReceipt(k)
    BY <2>1 DEF Load, Journal, AwaitReceipt, records
  <2>2. CASE Finish(k)
    BY <2>2, <1>1, SentFacts DEF Finish, SetDone
  <2>3. CASE Fail(k)
    BY <2>3, <1>1, SentFacts DEF Fail, Reschedule
  <2> QED  BY <2>1, <2>2, <2>3
<1>5. \A u \in Tx : outbox'[u] = "completed" => Delivered(u)
  BY <1>4 DEF SentInv, DoneDelivered, Attended
<1>6. \A j \in Ticks : pc'[j] \in {"journal", "await", "finish"} => Delivered(task[j])
  BY <1>3 DEF SentInv, Attended
<1>7. \A j \in Ticks : pc'[j] \in {"audit", "journal", "await", "finish"}
          => task[j] \in Tx /\ tx[task[j]] # "accepted"
  BY <1>3, SentFacts DEF SentInv, AfterCompletion
<1> QED  BY <1>2, <1>5, <1>6, <1>7, CalmSent

LEMMA AuditSent ==
    ASSUME ReceiptInv, SentInv, faults' = 0, NEW k \in Ticks, Audit(k)
    PROVE  SentInv'
<1>1. /\ rpc[k] = "none" /\ pc[k] = "audit" /\ task[k] \in Tx
      /\ delivery' = delivery /\ lock' = lock /\ tx' = tx /\ task' = task
      /\ outbox' = outbox
  BY SentFacts DEF Audit, ReceiptInv, Early, orders, records
<1>2. rpc' = [rpc EXCEPT ![k] = "lock"] /\ pc' = [pc EXCEPT ![k] = "journal"]
  BY CalmStep DEF Audit, Goto, ReceiptInv, EffectsInv
<1>3. /\ rpc'[k] = "lock" /\ pc'[k] = "journal"
      /\ \A j \in Ticks : j # k => pc'[j] = pc[j] /\ rpc'[j] = rpc[j]
  BY <1>2, SentFacts
<1>4. tx[task[k]] # "accepted"
  BY <1>1 DEF SentInv, AfterCompletion
<1>5. \A u \in Tx : outbox'[u] = "completed" => Delivered(u)
  BY <1>1 DEF SentInv, DoneDelivered
<1>6. \A j \in Ticks : pc'[j] \in {"journal", "await", "finish"}
          => Delivered(task[j]) \/ rpc'[j] = "lock"
  BY <1>3 DEF SentInv, Attended
<1>7. \A j \in Ticks : pc'[j] \in {"audit", "journal", "await", "finish"}
          => task[j] \in Tx /\ tx[task[j]] # "accepted"
  BY <1>1, <1>3, <1>4, SentFacts DEF SentInv, AfterCompletion
<1> QED  BY <1>1, <1>3, <1>4, <1>5, <1>6, <1>7, CalmSent

\* A receipt's step without a fault: it keeps going, or leaves the transfer
\* sent, taken back, or in the hands of another receipt.
LEMMA HolderSent ==
    ASSUME ReceiptInv, SentInv, NEW k \in Ticks, rpc[k] # "none",
           UNCHANGED <<tx, outbox, pc, task>>,
           \A j \in Ticks : j # k => rpc'[j] = rpc[j],
           \A t \in Tx : t # task[k] => delivery'[t] = delivery[t] /\ lock'[t] = lock[t],
           delivery'[task[k]] # delivery[task[k]] => rpc[k] # "lock",
           lock'[task[k]] # Orphan,
           lock'[task[k]] \in Ticks => LET h == lock'[task[k]] IN
               task[h] = task[k] /\ rpc'[h] \notin {"none", "lock"},
           rpc'[k] # "refused",
           rpc'[k] = "release" => delivery'[task[k]] = "sent" \/ tx[task[k]] = "undone",
           Delivered(task[k])'
    PROVE  SentInv'
<1>1. task[k] \in Tx
  BY SentFacts
<1>2. \A t \in Tx : Delivered(t) => Delivered(t)'
  <2> SUFFICES ASSUME NEW t \in Tx, t # task[k], Delivered(t)
               PROVE  Delivered(t)'
    OBVIOUS
  <2> QED  BY DEF Delivered, SendingReceipt
<1>3. HeldByReceipts'
  <2> SUFFICES ASSUME NEW t \in Tx
               PROVE  /\ lock'[t] # Orphan
                      /\ lock'[t] \in Ticks => /\ task[lock'[t]] = t
                                               /\ rpc'[lock'[t]] \notin {"none", "lock"}
    BY DEF HeldByReceipts
  <2>1. CASE t = task[k]
    BY <2>1
  <2>2. CASE t # task[k]
    <3>1. lock'[t] = lock[t] /\ (lock[t] \in Ticks => lock[t] # k)
      BY <2>2 DEF SentInv, HeldByReceipts
    <3> QED  BY <3>1 DEF SentInv, HeldByReceipts
  <2> QED  BY <2>1, <2>2
<1>4. ReleasedWhenDone'
  <2> SUFFICES ASSUME NEW j \in Ticks, j # k
               PROVE  /\ rpc'[j] # "refused"
                      /\ rpc'[j] = "release"
                             => delivery'[task[j]] = "sent" \/ tx[task[j]] = "undone"
    BY DEF ReleasedWhenDone
  <2>1. rpc'[j] = rpc[j]
    OBVIOUS
  <2>2. rpc[j] = "release" => delivery'[task[j]] = delivery[task[j]]
    BY OneHolder, SentFacts DEF ReceiptInv
  <2> QED  BY <2>1, <2>2 DEF SentInv, ReleasedWhenDone
<1>5. AfterCompletion'
  BY DEF SentInv, AfterCompletion
<1>6. Attended'
  BY <1>2, SentFacts DEF SentInv, Attended
<1>7. DoneDelivered'
  BY <1>2 DEF SentInv, DoneDelivered
<1> QED  BY <1>3, <1>4, <1>5, <1>6, <1>7 DEF SentInv

\* A free lock is taken, a held one is another receipt's, which delivers.
LEMMA LockSent ==
    ASSUME ReceiptInv, SentInv, faults' = 0, NEW k \in Ticks, LockReceipt(k)
    PROVE  SentInv'
<1>1. /\ rpc[k] = "lock" /\ task[k] \in Tx
      /\ delivery' = delivery /\ tx' = tx /\ outbox' = outbox /\ pc' = pc /\ task' = task
  BY SentFacts DEF LockReceipt, orders, records
<1>2. \/ /\ lock' = [lock EXCEPT ![task[k]] = k] /\ rpc' = [rpc EXCEPT ![k] = "check"]
      \/ /\ lock[task[k]] # NoTick
         /\ lock' = lock /\ rpc' = [rpc EXCEPT ![k] = "none"]
  BY CalmStep DEF LockReceipt, ReceiptGoto, ReceiptInv, EffectsInv
<1>3. \A j \in Ticks : j # k => rpc'[j] = rpc[j]
  BY <1>2, SentFacts
<1>4. \A t \in Tx : t # task[k] => delivery'[t] = delivery[t] /\ lock'[t] = lock[t]
  BY <1>1, <1>2, SentFacts
<1>5. PICK h \in Ticks : lock'[task[k]] = h /\ task[h] = task[k] /\ rpc'[h] \notin {"none", "lock"}
  <2>1. CASE rpc' = [rpc EXCEPT ![k] = "check"]
    BY <1>1, <1>2, <2>1, SentFacts
  <2>2. CASE lock[task[k]] # NoTick /\ lock' = lock
    <3>1. lock[task[k]] \in Ticks
      BY <1>1, <2>2, SentFacts DEF SentInv, HeldByReceipts
    <3>2. task[lock[task[k]]] = task[k] /\ rpc[lock[task[k]]] \notin {"none", "lock"}
      BY <3>1, <1>1 DEF SentInv, HeldByReceipts
    <3> QED  BY <1>1, <1>3, <2>2, <3>1, <3>2
  <2> QED  BY <1>2, <2>1, <2>2
<1>6. Delivered(task[k])'
  BY <1>1, <1>5 DEF Delivered, SendingReceipt
<1>7. lock'[task[k]] # Orphan /\ rpc'[k] \notin {"refused", "release"}
  BY <1>2, <1>5, SentFacts, EnvAssumption
<1> QED  BY <1>1, <1>3, <1>4, <1>5, <1>6, <1>7, HolderSent

\* The steps of a receipt that holds its lock, but for the release.
LEMMA WorkSent ==
    ASSUME ReceiptInv, SentInv, faults' = 0, NEW k \in Ticks,
           CheckReceipt(k) \/ MarkReceipt(k) \/ SendReceipt(k) \/ RecordReceipt(k)
    PROVE  SentInv'
<1>0. ~FaultOf("error")
  BY CalmStep DEF ReceiptInv, EffectsInv
<1>1. /\ rpc[k] \notin {"none", "lock", "refused"} /\ task[k] \in Tx
      /\ tx' = tx /\ outbox' = outbox /\ pc' = pc /\ task' = task /\ lock' = lock
  BY SentFacts DEF CheckReceipt, MarkReceipt, SendReceipt, RecordReceipt, orders, records,
     SentInv, ReleasedWhenDone
<1>2. lock[task[k]] = k
  BY <1>1 DEF ReceiptInv, Holding
<1>3. \/ /\ rpc' \in {[rpc EXCEPT ![k] = s] : s \in {"mark", "sent"}}
         /\ delivery' = delivery
      \/ /\ rpc' = [rpc EXCEPT ![k] = "send"]
         /\ delivery' = [delivery EXCEPT ![task[k]] = "sending"]
      \/ /\ rpc' = [rpc EXCEPT ![k] = "release"]
         /\ delivery' = delivery
         /\ tx[task[k]] # "completed" \/ delivery[task[k]] = "sent"
      \/ /\ rpc' = [rpc EXCEPT ![k] = "release"]
         /\ delivery' = [delivery EXCEPT ![task[k]] = "sent"]
  <2>1. CASE CheckReceipt(k)
    BY <1>0, <2>1 DEF CheckReceipt, ReceiptGoto
  <2>2. CASE MarkReceipt(k)
    BY <1>0, <2>2, SaveDeliveryNew DEF MarkReceipt, ReceiptGoto
  <2>3. CASE SendReceipt(k)
    BY <1>0, <2>3 DEF SendReceipt, ReceiptGoto
  <2>4. CASE RecordReceipt(k)
    <3>1. rpc[k] = "sent" /\ SaveDelivery(k, "sent") /\ rpc' = [rpc EXCEPT ![k] = "release"]
      BY <1>0, <1>1, <2>4 DEF RecordReceipt, ReceiptGoto
    <3> QED  BY <3>1, SaveDeliveryNew
  <2> QED  BY <2>1, <2>2, <2>3, <2>4
<1>4. /\ \A j \in Ticks : j # k => rpc'[j] = rpc[j]
      /\ \A t \in Tx : t # task[k] => delivery'[t] = delivery[t]
      /\ rpc'[k] \notin {"none", "lock", "refused"}
  BY <1>3, SentFacts
<1>5. rpc'[k] = "release" => delivery'[task[k]] = "sent" \/ tx[task[k]] = "undone"
  BY <1>1, <1>3, SentFacts DEF SentInv, AfterCompletion
<1>6. Delivered(task[k])'
  BY <1>1, <1>4 DEF Delivered, SendingReceipt
<1>7. lock'[task[k]] = k /\ k # Orphan
  BY <1>1, <1>2, EnvAssumption
<1> QED  BY <1>1, <1>4, <1>5, <1>6, <1>7, HolderSent

LEMMA ReleaseSent ==
    ASSUME ReceiptInv, SentInv, faults' = 0, NEW k \in Ticks, ReleaseReceipt(k)
    PROVE  SentInv'
<1>1. /\ rpc[k] = "release" /\ task[k] \in Tx /\ delivery' = delivery
      /\ tx' = tx /\ outbox' = outbox /\ pc' = pc /\ task' = task
      /\ rpc' = [rpc EXCEPT ![k] = "none"]
  BY SentFacts DEF ReleaseReceipt, ReceiptGoto, orders, records
<1>2. lock[task[k]] = k
  BY <1>1 DEF ReceiptInv, Holding
<1>3. lock' = [lock EXCEPT ![task[k]] = NoTick]
  BY <1>2, CalmStep DEF ReleaseReceipt, ReceiptInv, EffectsInv
<1>4. /\ rpc'[k] = "none" /\ lock'[task[k]] = NoTick
      /\ \A j \in Ticks : j # k => rpc'[j] = rpc[j]
      /\ \A t \in Tx : t # task[k] => delivery'[t] = delivery[t] /\ lock'[t] = lock[t]
  BY <1>1, <1>3, SentFacts
<1>5. Delivered(task[k])'
  BY <1>1 DEF SentInv, ReleasedWhenDone, Delivered
<1> QED  BY <1>1, <1>4, <1>5, EnvAssumption, HolderSent

LEMMA NextSent ==
    ASSUME ReceiptInv, SentInv, [Next]_vars, faults' = 0
    PROVE  SentInv'
<1>1. ASSUME NEW t \in Tx, LockExpires(t)
      PROVE  FALSE
  BY <1>1, CalmStep, EnvAssumption, SentFacts
  DEF LockExpires, SentInv, HeldByReceipts, ReceiptInv, EffectsInv
<1>2. ~Crash
  BY CalmStep DEF Crash, ReceiptInv, EffectsInv
<1>3. CASE Restart \/ UNCHANGED vars
  <2>1. /\ delivery' = delivery /\ lock' = lock /\ rpc' = rpc /\ tx' = tx
        /\ pc' = pc /\ task' = task
    BY <1>3 DEF Restart, vars, orders, receiver
  <2>2. \A u \in Tx : outbox'[u] = "completed" => outbox[u] = "completed"
    BY <1>3, SentFacts DEF Restart, vars, records
  <2>3. \A u \in Tx : outbox'[u] = "completed" => Delivered(u)
    BY <2>2 DEF SentInv, DoneDelivered
  <2>4. \A k \in Ticks : pc'[k] \in {"journal", "await", "finish"} => Delivered(task[k])
    BY <2>1 DEF SentInv, Attended
  <2>5. \A k \in Ticks : pc'[k] \in {"audit", "journal", "await", "finish"}
            => task[k] \in Tx /\ tx[task[k]] # "accepted"
    BY <2>1, SentFacts DEF SentInv, AfterCompletion
  <2> QED  BY <2>1, <2>3, <2>4, <2>5, CalmSent
<1> QED
  BY <1>1, <1>2, <1>3, OrderSent, ClaimSent, TickSent, AuditSent, LockSent, WorkSent,
     ReleaseSent
  DEF Next, TickStep, ReceiptStep

\* Without a fault a completed record's receipt has been recorded as sent, or a
\* tick is still at it, or the transfer has been taken back: a tick that finds
\* the receipt lock busy gives up only because another one delivers
\* (sendTransactionReceipt), for any number of overlapping ticks.
THEOREM EffectsReceiptNotForgotten == Spec => []ReceiptNotForgotten
<1> DEFINE Calm == EffectsInv /\ (faults = 0 => ReceiptInv /\ SentInv)
<1>1. Init => Calm
  BY InitEffects, InitReceipts, InitSent
<1>2. Calm /\ [Next]_vars => Calm'
  <2> SUFFICES ASSUME Calm, [Next]_vars, faults' = 0
               PROVE  ReceiptInv' /\ SentInv'
    BY NextEffects
  <2>1. faults = 0
    <3>1. UNCHANGED faults \/ \E h \in {"error", "crash", "lockExpires"} : FaultOf(h)
      BY DEF Next, vars, NoFault, TickStep, ReceiptStep, Complete, CompleteUntransacted, Reverse,
         BecomeDue, BecomeStale, LockExpires, Claim, Load, Audit, Journal, AwaitReceipt, Finish,
         Fail, LockReceipt, CheckReceipt, MarkReceipt, SendReceipt, RecordReceipt,
         ReleaseReceipt, Crash, Restart
    <3> QED  BY <3>1, CalmStep DEF EffectsInv
  <2> QED  BY <2>1, NextReceipts, NextSent DEF LockOutlives
<1>3. Calm => ReceiptNotForgotten
  BY DEF SentInv, DoneDelivered, Delivered, ReceiptNotForgotten
<1> QED  BY <1>1, <1>2, <1>3, PTL DEF Spec
==============================================================================
