-------------------------- MODULE CompletionEffects --------------------------
(***************************************************************************)
(* What follows an executor's completion of a transfer: the outbox record  *)
(* written with it, the ticks of the outbox worker that claim the record   *)
(* and run its effects (audit entry, work of the transfer:completed        *)
(* listeners, receipt to the customer), and the claim's recovery when it   *)
(* goes stale.  Several ticks may be running: the timer starts one every   *)
(* five seconds whether or not the last has ended, each completion starts  *)
(* one more, and a claim carries nothing that tells its holder from the    *)
(* tick that took the record over.                                         *)
(*                                                                         *)
(* Time is abstracted to the three comparisons the code makes with it: is  *)
(* a pending record due, is a claim stale, has the receipt lock expired.   *)
(***************************************************************************)
EXTENDS Naturals, Sequences

CONSTANTS
    Tx,          \* transfers carried out by human executors
    Ticks,       \* ticks of the outbox worker that may run at once
    NoTx,        \* "no transfer", of an idle tick
    NoTick,      \* "nobody", of a free receipt lock
    Orphan,      \* the holder of a lock left behind (a stop, a failed release)
    MaxFaults,   \* bound: faults (see FaultOf) in a behaviour
    Env          \* what the environment may do, a subset of Hazards

Hazards == {"noTransactions", "reverse", "slow", "crash", "error", "lockExpires"}

ASSUME EnvAssumption ==
    /\ Env \subseteq Hazards
    /\ MaxFaults \in Nat
    /\ NoTx \notin Tx
    /\ NoTick \notin Ticks /\ Orphan \notin Ticks /\ NoTick # Orphan

VARIABLES
    tx,           \* the transfer's status
    completing,   \* completions between their save and their enqueue
    outbox,       \* status of the transfer's outbox record
    due,          \* availableAt of its pending record has passed
    stale,        \* lockedAt of its claimed record is over five minutes ago
    queue,        \* transfers in the order of their records' createdAt
    audited,      \* its audit entry exists (unique eventKey)
    posted,       \* its listeners' keyed work is done (journal, push, webhook)
    delivery,     \* status of its WhatsAppDelivery row
    receipts,     \* receipts the messaging provider accepted for it
    lock,         \* holder of its receipt lock
    pc, task,     \* step of a tick, and the transfer it works on
    rpc, unsaved, \* step of a tick's receipt; its delivery row is unsaved
    up,           \* the process is running
    faults        \* faults so far

orders   == <<tx, completing>>
records  == <<outbox, due, stale, queue>>
effects  == <<audited, posted>>
receiver == <<delivery, receipts, lock, rpc, unsaved>>
vars == <<orders, records, effects, receiver, pc, task, up, faults>>

TickSteps == {"idle", "load", "audit", "journal", "await", "finish", "fail"}
ReceiptSteps == {"none", "lock", "check", "mark", "send", "sent", "refused", "release"}

TypeOK ==
    /\ tx \in [Tx -> {"accepted", "completed", "undone"}]
    /\ completing \subseteq Tx
    /\ outbox \in [Tx -> {"none", "pending", "processing", "completed"}]
    /\ due \in [Tx -> BOOLEAN] /\ stale \in [Tx -> BOOLEAN]
    /\ queue \in Seq(Tx)
    /\ audited \in [Tx -> BOOLEAN] /\ posted \in [Tx -> BOOLEAN]
    /\ delivery \in [Tx -> {"none", "sending", "sent", "failed"}]
    /\ receipts \in [Tx -> Nat]
    /\ lock \in [Tx -> Ticks \cup {NoTick, Orphan}]
    /\ pc \in [Ticks -> TickSteps]
    /\ task \in [Ticks -> Tx \cup {NoTx}]
    /\ rpc \in [Ticks -> ReceiptSteps] /\ unsaved \in [Ticks -> BOOLEAN]
    /\ up \in BOOLEAN
    /\ faults \in Nat

Init ==
    /\ tx = [t \in Tx |-> "accepted"] /\ completing = {}
    /\ outbox = [t \in Tx |-> "none"]
    /\ due = [t \in Tx |-> FALSE] /\ stale = [t \in Tx |-> FALSE]
    /\ queue = <<>>
    /\ audited = [t \in Tx |-> FALSE] /\ posted = [t \in Tx |-> FALSE]
    /\ delivery = [t \in Tx |-> "none"] /\ receipts = [t \in Tx |-> 0]
    /\ lock = [t \in Tx |-> NoTick]
    /\ pc = [k \in Ticks |-> "idle"] /\ task = [k \in Ticks |-> NoTx]
    /\ rpc = [k \in Ticks |-> "none"] /\ unsaved = [k \in Ticks |-> FALSE]
    /\ up = TRUE /\ faults = 0

\* A fault of kind h: the environment may do it, and has not done MaxFaults.
FaultOf(h) == h \in Env /\ faults < MaxFaults /\ faults' = faults + 1
NoFault == UNCHANGED faults

------------------------------------------------------------------------------
(* The completion and the administrator *)

\* enqueueCompletionEffects: $setOnInsert under the unique transactionId.
Enqueue(t) ==
    IF outbox[t] = "none"
    THEN /\ outbox' = [outbox EXCEPT ![t] = "pending"]
         /\ due' = [due EXCEPT ![t] = TRUE]
         /\ queue' = Append(queue, t)
         /\ UNCHANGED stale
    ELSE UNCHANGED records

\* completeExecutorTask saves the row and enqueues in one MongoDB transaction;
\* where transactions are neither available nor required, one after the other.
Complete(t) ==
    /\ up /\ tx[t] = "accepted"
    /\ tx' = [tx EXCEPT ![t] = "completed"]
    /\ \/ Enqueue(t) /\ UNCHANGED completing
       \/ /\ "noTransactions" \in Env
          /\ completing' = completing \cup {t}
          /\ UNCHANGED records
    /\ UNCHANGED <<effects, receiver, pc, task, up, faults>>

\* The rest of an untransacted completion; a failing balance sync or enqueue
\* ends it without a record.
CompleteUntransacted(t) ==
    /\ t \in completing
    /\ completing' = completing \ {t}
    /\ \/ Enqueue(t) /\ NoFault
       \/ FaultOf("error") /\ UNCHANGED records
    /\ UNCHANGED <<tx, effects, receiver, pc, task, up>>

\* reverseTransaction takes back an open or completed transfer.
Reverse(t) ==
    /\ "reverse" \in Env /\ up
    /\ tx[t] # "undone"
    /\ tx' = [tx EXCEPT ![t] = "undone"]
    /\ UNCHANGED <<completing, records, effects, receiver, pc, task, up, faults>>

------------------------------------------------------------------------------
(* runCompletionOutboxTick *)

\* Mutant: nothing takes over a stale claim.
ClaimablePending(t) == outbox[t] = "pending" /\ due[t]

Claimable(t) ==
    \/ outbox[t] = "pending" /\ due[t]
    \/ outbox[t] = "processing" /\ stale[t]

\* Mutant: only the oldest record is ever looked at.
ClaimHead(k, t) ==
    /\ up /\ pc[k] = "idle" /\ rpc[k] = "none"
    /\ Claimable(t)
    /\ \E i \in DOMAIN queue :
          /\ queue[i] = t
          /\ \A j \in DOMAIN queue : j < i => outbox[queue[j]] = "completed"
    /\ outbox' = [outbox EXCEPT ![t] = "processing"]
    /\ stale' = [stale EXCEPT ![t] = FALSE]
    /\ task' = [task EXCEPT ![k] = t]
    /\ pc' = [pc EXCEPT ![k] = "load"]
    /\ UNCHANGED <<orders, due, queue, effects, receiver, up, faults>>

\* claimNext: the oldest claimable record.
Claim(k, t) ==
    /\ up /\ pc[k] = "idle" /\ rpc[k] = "none"
    /\ Claimable(t)
    /\ \E i \in DOMAIN queue :
          /\ queue[i] = t
          /\ \A j \in DOMAIN queue : j < i => ~Claimable(queue[j])
    /\ outbox' = [outbox EXCEPT ![t] = "processing"]
    /\ stale' = [stale EXCEPT ![t] = FALSE]
    /\ task' = [task EXCEPT ![k] = t]
    /\ pc' = [pc EXCEPT ![k] = "load"]
    /\ UNCHANGED <<orders, due, queue, effects, receiver, up, faults>>

Goto(k, step) == pc' = [pc EXCEPT ![k] = step]

\* Mutant: the transfer's status is not checked.
LoadAnyStatus(k) ==
    /\ pc[k] = "load"
    /\ Goto(k, "audit") /\ NoFault
    /\ UNCHANGED <<orders, records, effects, receiver, task, up>>

\* processCompletionEffects reads the transfer and refuses all but completed.
Load(k) ==
    /\ pc[k] = "load"
    /\ \/ /\ Goto(k, IF tx[task[k]] = "completed" THEN "audit" ELSE "fail")
          /\ NoFault
       \/ FaultOf("error") /\ Goto(k, "fail")
    /\ UNCHANGED <<orders, records, effects, receiver, task, up>>

\* Mutant: the audit entry is not required, a failing one is only logged.
AuditOptional(k) ==
    /\ pc[k] = "audit"
    /\ \/ audited' = [audited EXCEPT ![task[k]] = TRUE] /\ NoFault
       \/ FaultOf("error") /\ UNCHANGED audited
    /\ rpc' = [rpc EXCEPT ![k] = "lock"]
    /\ Goto(k, "journal")
    /\ UNCHANGED <<orders, records, posted, delivery, receipts, lock, unsaved,
                   task, up>>

\* logAction under its event key, then publishAsync starts every listener: the
\* receipt first.  A failed logAction may have written its entry.
Audit(k) ==
    /\ pc[k] = "audit"
    /\ \/ /\ audited' = [audited EXCEPT ![task[k]] = TRUE]
          /\ rpc' = [rpc EXCEPT ![k] = "lock"]
          /\ Goto(k, "journal") /\ NoFault
       \/ /\ FaultOf("error") /\ Goto(k, "fail")
          /\ \/ UNCHANGED audited
             \/ audited' = [audited EXCEPT ![task[k]] = TRUE]
          /\ UNCHANGED rpc
    /\ UNCHANGED <<orders, records, posted, delivery, receipts, lock, unsaved,
                   task, up>>

\* The listeners' keyed work.  One that rejects fails the tick at once and
\* leaves the receipt to run on by itself.
Journal(k) ==
    /\ pc[k] = "journal"
    /\ \/ /\ posted' = [posted EXCEPT ![task[k]] = TRUE]
          /\ Goto(k, "await") /\ NoFault
       \/ /\ FaultOf("error") /\ Goto(k, "fail")
          /\ \/ UNCHANGED posted
             \/ posted' = [posted EXCEPT ![task[k]] = TRUE]
    /\ UNCHANGED <<orders, records, audited, receiver, task, up>>

\* await receiptDelivery, which never rejects.
AwaitReceipt(k) ==
    /\ pc[k] = "await" /\ rpc[k] = "none"
    /\ Goto(k, "finish")
    /\ UNCHANGED <<orders, records, effects, receiver, task, up, faults>>

SetDone(t) ==
    outbox' = [outbox EXCEPT ![t] = IF @ = "processing" THEN "completed" ELSE @]

\* The update that completes the record; a failed one may have taken effect.
Finish(k) ==
    /\ pc[k] = "finish"
    /\ \/ /\ SetDone(task[k]) /\ Goto(k, "idle") /\ NoFault
       \/ /\ FaultOf("error") /\ Goto(k, "fail")
          /\ \/ UNCHANGED outbox
             \/ SetDone(task[k])
    /\ UNCHANGED <<orders, due, stale, queue, effects, receiver, task, up>>

\* Mutant: the update does not ask whether the record is still claimed.
RescheduleAnyStatus(t) ==
    /\ outbox' = [outbox EXCEPT ![t] = "pending"]
    /\ due' = [due EXCEPT ![t] = FALSE]
    /\ stale' = [stale EXCEPT ![t] = FALSE]

\* Mutant: a failed record is marked with a status the schema does not have.
RescheduleAsFailed(t) ==
    /\ outbox' = [outbox EXCEPT ![t] = "failed"]
    /\ UNCHANGED <<due, stale>>

\* The catch block gives the record back, to be due after a delay.
Reschedule(t) ==
    IF outbox[t] = "processing"
    THEN /\ outbox' = [outbox EXCEPT ![t] = "pending"]
         /\ due' = [due EXCEPT ![t] = FALSE]
         /\ stale' = [stale EXCEPT ![t] = FALSE]
    ELSE UNCHANGED <<outbox, due, stale>>

Fail(k) ==
    /\ pc[k] = "fail"
    /\ \/ Reschedule(task[k]) /\ NoFault
       \/ FaultOf("error") /\ UNCHANGED <<outbox, due, stale>>
    /\ Goto(k, "idle")
    /\ UNCHANGED <<orders, queue, effects, receiver, task, up>>

TickStep(k) ==
    Load(k) \/ Audit(k) \/ Journal(k) \/ AwaitReceipt(k) \/ Finish(k) \/ Fail(k)

------------------------------------------------------------------------------
(* sendTransactionReceipt, started by a tick and awaited unless it failed *)

ReceiptGoto(k, step) == rpc' = [rpc EXCEPT ![k] = step]

\* The receipt lock, or RECEIPT_DELIVERY_BUSY, which is not an exception: the
\* lock is held, or Redis fails (and may keep a lock nobody knows of).
LockReceipt(k) ==
    /\ rpc[k] = "lock"
    /\ LET t == task[k] IN
          \/ /\ lock[t] = NoTick /\ lock' = [lock EXCEPT ![t] = k]
             /\ ReceiptGoto(k, "check") /\ NoFault
          \/ /\ lock[t] # NoTick /\ UNCHANGED lock
             /\ ReceiptGoto(k, "none") /\ NoFault
          \/ /\ FaultOf("error") /\ ReceiptGoto(k, "none")
             /\ \/ UNCHANGED lock
                \/ lock[t] = NoTick /\ lock' = [lock EXCEPT ![t] = Orphan]
    /\ UNCHANGED <<orders, records, effects, delivery, receipts, unsaved, pc,
                   task, up>>

\* Mutant: a row already sent does not stop the receipt.
CheckTransferOnly(k) ==
    /\ rpc[k] = "check"
    /\ LET t == task[k] IN
          \/ /\ tx[t] = "completed" /\ ReceiptGoto(k, "mark")
             /\ unsaved' = [unsaved EXCEPT ![k] = delivery[t] = "none"]
          \/ /\ tx[t] # "completed" /\ ReceiptGoto(k, "release")
             /\ UNCHANGED unsaved
    /\ UNCHANGED <<orders, records, effects, delivery, receipts, lock, pc,
                   task, up, faults>>

\* Reads the transfer and the delivery row; only "sent" counts as delivered.  A
\* receipt that cannot be made or addressed is recorded as failed, or not at all.
CheckReceipt(k) ==
    /\ rpc[k] = "check"
    /\ LET t == task[k] IN
          \/ /\ tx[t] = "completed" /\ delivery[t] # "sent"
             /\ ReceiptGoto(k, "mark")
             /\ unsaved' = [unsaved EXCEPT ![k] = delivery[t] = "none"]
             /\ NoFault /\ UNCHANGED delivery
          \/ /\ tx[t] # "completed" \/ delivery[t] = "sent"
             /\ ReceiptGoto(k, "release")
             /\ NoFault /\ UNCHANGED <<delivery, unsaved>>
          \/ /\ FaultOf("error") /\ ReceiptGoto(k, "release")
             /\ \/ UNCHANGED delivery
                \/ /\ delivery[t] # "sent"
                   /\ delivery' = [delivery EXCEPT ![t] = "failed"]
             /\ UNCHANGED unsaved
    /\ UNCHANGED <<orders, records, effects, receipts, lock, pc, task, up>>

\* saveDelivery: a new row that meets the unique index is not written, and the
\* error is swallowed.
SaveDelivery(k, status) ==
    IF unsaved[k] /\ delivery[task[k]] # "none"
    THEN UNCHANGED <<delivery, unsaved>>
    ELSE /\ delivery' = [delivery EXCEPT ![task[k]] = status]
         /\ unsaved' = [unsaved EXCEPT ![k] = FALSE]

MarkReceipt(k) ==
    /\ rpc[k] = "mark"
    /\ \/ SaveDelivery(k, "sending") /\ ReceiptGoto(k, "send") /\ NoFault
       \/ /\ FaultOf("error") /\ ReceiptGoto(k, "release")
          /\ UNCHANGED <<delivery, unsaved>>
    /\ UNCHANGED <<orders, records, effects, receipts, lock, pc, task, up>>

\* The request to the provider: accepted, refused, or accepted but reported as
\* failed (a timeout).
SendReceipt(k) ==
    /\ rpc[k] = "send"
    /\ \/ /\ receipts' = [receipts EXCEPT ![task[k]] = @ + 1]
          /\ ReceiptGoto(k, "sent") /\ NoFault
       \/ /\ FaultOf("error") /\ ReceiptGoto(k, "refused")
          /\ \/ UNCHANGED receipts
             \/ receipts' = [receipts EXCEPT ![task[k]] = @ + 1]
    /\ UNCHANGED <<orders, records, effects, delivery, lock, unsaved, pc, task, up>>

\* Mutant: the result's two outcomes are swapped.
RecordSwapped(k) ==
    /\ rpc[k] \in {"sent", "refused"}
    /\ SaveDelivery(k, IF rpc[k] = "sent" THEN "failed" ELSE "sent")
    /\ ReceiptGoto(k, "release")
    /\ UNCHANGED <<orders, records, effects, receipts, lock, pc, task, up, faults>>

RecordReceipt(k) ==
    /\ rpc[k] \in {"sent", "refused"}
    /\ \/ /\ SaveDelivery(k, IF rpc[k] = "sent" THEN "sent" ELSE "failed")
          /\ NoFault
       \/ FaultOf("error") /\ UNCHANGED <<delivery, unsaved>>
    /\ ReceiptGoto(k, "release")
    /\ UNCHANGED <<orders, records, effects, receipts, lock, pc, task, up>>

\* Only the holder's own lock is released: Redis compares the lock's value.  A
\* release that fails is logged, and leaves the lock to expire.
ReleaseReceipt(k) ==
    /\ rpc[k] = "release"
    /\ \/ /\ lock' = [lock EXCEPT ![task[k]] = IF @ = k THEN NoTick ELSE @]
          /\ NoFault
       \/ /\ lock' = [lock EXCEPT ![task[k]] = IF @ = k THEN Orphan ELSE @]
          /\ FaultOf("error")
    /\ ReceiptGoto(k, "none")
    /\ UNCHANGED <<orders, records, effects, delivery, receipts, unsaved, pc,
                   task, up>>

ReceiptStep(k) ==
    \/ LockReceipt(k) \/ CheckReceipt(k) \/ MarkReceipt(k) \/ SendReceipt(k)
    \/ RecordReceipt(k) \/ ReleaseReceipt(k)

------------------------------------------------------------------------------
(* Time, and the process *)

Working(k, t) == pc[k] # "idle" /\ task[k] = t

BecomeDue(t) ==
    /\ outbox[t] = "pending" /\ ~due[t]
    /\ due' = [due EXCEPT ![t] = TRUE]
    /\ UNCHANGED <<orders, outbox, stale, queue, effects, receiver, pc, task,
                   up, faults>>

\* Five minutes have passed since the claim.  A tick still at work on the
\* record then is a slow one.
BecomeStale(t) ==
    /\ outbox[t] = "processing" /\ ~stale[t]
    /\ "slow" \in Env \/ \A k \in Ticks : ~Working(k, t)
    /\ stale' = [stale EXCEPT ![t] = TRUE]
    /\ UNCHANGED <<orders, outbox, due, queue, effects, receiver, pc, task,
                   up, faults>>

\* The lock's thirty seconds have passed; its holder may still be sending.
LockExpires(t) ==
    /\ \/ lock[t] = Orphan /\ NoFault
       \/ lock[t] \in Ticks /\ FaultOf("lockExpires")
    /\ lock' = [lock EXCEPT ![t] = NoTick]
    /\ UNCHANGED <<orders, records, effects, delivery, receipts, rpc, unsaved,
                   pc, task, up>>

\* The process stops.  Requests and ticks are gone, Redis keeps the locks.
Crash ==
    /\ up /\ FaultOf("crash")
    /\ up' = FALSE
    /\ completing' = {}
    /\ pc' = [k \in Ticks |-> "idle"] /\ rpc' = [k \in Ticks |-> "none"]
    /\ lock' = [t \in Tx |-> IF lock[t] = NoTick THEN NoTick ELSE Orphan]
    /\ UNCHANGED <<tx, records, effects, delivery, receipts, unsaved, task>>

\* startExecutorCompletionOutboxWorker gives back what is already stale.
Restart ==
    /\ ~up /\ up' = TRUE
    /\ LET back == {t \in Tx : outbox[t] = "processing" /\ stale[t]} IN
          /\ outbox' = [t \in Tx |-> IF t \in back THEN "pending" ELSE outbox[t]]
          /\ due' = [t \in Tx |-> t \in back \/ due[t]]
          /\ stale' = [t \in Tx |-> t \notin back /\ stale[t]]
    /\ UNCHANGED <<orders, queue, effects, receiver, pc, task, faults>>

Next ==
    \/ \E t \in Tx : \/ Complete(t) \/ CompleteUntransacted(t) \/ Reverse(t)
                     \/ BecomeDue(t) \/ BecomeStale(t) \/ LockExpires(t)
    \/ \E k \in Ticks : \/ TickStep(k) \/ ReceiptStep(k)
                        \/ \E t \in Tx : Claim(k, t)
    \/ Crash \/ Restart

Spec == Init /\ [][Next]_vars

\* The timer keeps starting ticks, and each record is claimed if it is the
\* oldest claimable one again and again: a record that keeps failing waits for
\* up to twelve polls between its attempts (sixty seconds).  A started tick or
\* receipt goes on while its process runs, time passes, and the process manager
\* restarts a stopped process.  Faults are finitely many, by MaxFaults.
Fairness ==
    /\ \A t \in Tx : SF_vars(\E k \in Ticks : Claim(k, t))
    /\ \A k \in Ticks : WF_vars(TickStep(k)) /\ WF_vars(ReceiptStep(k))
    /\ \A t \in Tx : /\ WF_vars(BecomeDue(t)) /\ WF_vars(BecomeStale(t))
                     /\ WF_vars(lock[t] = Orphan /\ LockExpires(t))
    /\ WF_vars(Restart)

FairSpec == Spec /\ Fairness

------------------------------------------------------------------------------
(* Properties *)

\* A record is completed only when its effects have been: the audit entry is
\* written and the listeners' work is done, whichever of several overlapping
\* ticks wrote which part (processCompletionEffects).
DoneMeansDone == \A t \in Tx : outbox[t] = "completed" => audited[t] /\ posted[t]

SendingReceipt(t) == \E k \in Ticks : task[k] = t /\ rpc[k] # "none"

\* While the receipt lock outlives its holder's work, the customer gets no
\* second receipt but for a fault (a stop, an error) in between: overlapping
\* ticks, stale claims and retried records alone never send one twice, and a
\* fault costs one receipt, never more (sendTransactionReceipt).
ReceiptsBounded == \A t \in Tx : receipts[t] <= 1 + faults

\* Without a fault a completed record's receipt has been recorded as sent, or
\* some tick is still at it, or the transfer has been taken back: a tick that
\* finds the receipt lock busy gives up only because another one delivers.
ReceiptNotForgotten ==
    faults = 0 =>
      \A t \in Tx : outbox[t] = "completed" =>
         delivery[t] = "sent" \/ SendingReceipt(t) \/ tx[t] = "undone"

\* No late tick, whose claim went stale, and no restart takes a completed
\* record back (the status filters of the updates).
DoneStaysDone ==
    [][\A t \in Tx : outbox[t] = "completed" => outbox'[t] = "completed"]_vars

\* A tick at work on the record of t has read the transfer as completed.
Publishing(t) ==
    \/ SendingReceipt(t)
    \/ \E k \in Ticks : task[k] = t /\ pc[k] \in {"audit", "journal"}

\* Once a transfer is taken back and no tick is past its check, nothing
\* announces it as completed any more, however often its record is retried
\* (processCompletionEffects).
UndoneIsLeftAlone ==
    [][\A t \in Tx : tx[t] = "undone" /\ ~Publishing(t) =>
          /\ ~Publishing(t)'
          /\ UNCHANGED <<audited[t], posted[t], receipts[t]>>]_vars

\* A recorded completion gets its effects, across stops, stale claims and
\* failing effects, unless the transfer is taken back first.
EffectsHappen ==
    \A t \in Tx : outbox[t] # "none" ~> outbox[t] = "completed" \/ tx[t] = "undone"
==============================================================================
