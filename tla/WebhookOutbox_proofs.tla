------------------------- MODULE WebhookOutbox_proofs -------------------------
(***************************************************************************)
(* Proofs about the merchants' webhooks, for any endpoints, events and     *)
(* bounds, and any finite number of workers.                               *)
(***************************************************************************)
EXTENDS WebhookOutbox, FiniteSetTheorems, TLAPS

\* A worker at a delivery has a delivery, one that drains has read an event.
Placed ==
    \A w \in Workers :
        /\ work[w].pc \in DeliverySteps =>
              work[w].job.endpoint \in Endpoints /\ work[w].job.event \in Events
        /\ work[w].pc \in DrainSteps => work[w].seen.event \in Events

\* The slot has an event once it has been staged.
SlotSet == slot.pending \/ slot.version > 0 => slot.event \in Events

TypeInv == TypeOK /\ Placed /\ SlotSet

RowTyped == row \in [Endpoints -> [Events -> Rows]]
WorkTyped == work \in [Workers -> Works]

------------------------------------------------------------------------------
(* What the statements on a row and on a worker do *)

LEMMA ConstantRows == Absent \in Rows /\ Fresh \in Rows
BY WebhookAssumption DEF Absent, Fresh, Rows, Statuses

LEMMA RestingTyped == Resting \in Works
BY WebhookAssumption
DEF Resting, EmptySlot, NoJob, Works, Slots, Jobs, DrainSteps, DeliverySteps

LEMMA SetRowDoes ==
    ASSUME RowTyped, NEW e \in Endpoints, NEW v \in Events, NEW r \in Rows, SetRow(e, v, r)
    PROVE  /\ RowTyped'
           /\ \A d \in Endpoints, u \in Events :
                 row'[d][u] = IF d = e /\ u = v THEN r ELSE row[d][u]
BY DEF RowTyped, SetRow

\* An update of the worker's delivery changes that delivery, if it is there.
LEMMA UpdateJobDoes ==
    ASSUME TypeInv, NEW w \in Workers, work[w].pc \in DeliverySteps,
           NEW r \in Rows, UpdateJob(w, r)
    PROVE  /\ RowTyped'
           /\ \A d \in Endpoints, u \in Events :
                 row'[d][u] = IF /\ d = work[w].job.endpoint /\ u = work[w].job.event
                                 /\ row[d][u].status # "absent"
                              THEN r ELSE row[d][u]
<1> DEFINE e == work[w].job.endpoint
           v == work[w].job.event
<1>1. e \in Endpoints /\ v \in Events /\ RowTyped
  BY DEF TypeInv, Placed, TypeOK, RowTyped
<1>2. CASE row[e][v].status = "absent"
  <2>1. row' = row
    BY <1>2 DEF UpdateJob
  <2> QED  BY <1>1, <1>2, <2>1 DEF RowTyped
<1>3. CASE row[e][v].status # "absent"
  <2>1. SetRow(e, v, r)
    BY <1>3 DEF UpdateJob
  <2> HIDE DEF e, v
  <2>2. /\ RowTyped'
        /\ \A d \in Endpoints, u \in Events :
              row'[d][u] = IF d = e /\ u = v THEN r ELSE row[d][u]
    BY <1>1, <2>1, SetRowDoes
  <2> QED  BY <1>3, <2>2 DEF e, v
<1> QED  BY <1>2, <1>3

LEMMA UpsertDoes ==
    ASSUME RowTyped, NEW S \in SUBSET Endpoints, NEW v \in Events, Upsert(S, v)
    PROVE  /\ RowTyped'
           /\ \A d \in Endpoints, u \in Events :
                 row'[d][u] = IF d \in S /\ u = v /\ row[d][u].status = "absent"
                              THEN Fresh ELSE row[d][u]
BY ConstantRows DEF RowTyped, Upsert

\* A worker goes on, or rests; the others stay where they are.
LEMMA GotoDoes ==
    ASSUME WorkTyped, NEW w \in Workers,
           NEW step \in DrainSteps \cup DeliverySteps, Goto(w, step)
    PROVE  /\ WorkTyped'
           /\ \A x \in Workers : x # w => work'[x] = work[x]
           /\ work'[w] = [work[w] EXCEPT !.pc = step]
           /\ work'[w].pc = step /\ work'[w].seen = work[w].seen
           /\ work'[w].targets = work[w].targets /\ work'[w].job = work[w].job
           /\ work'[w].attempt = work[w].attempt
BY DEF WorkTyped, Goto, Works

LEMMA RestDoes ==
    ASSUME WorkTyped, NEW w \in Workers, Rest(w)
    PROVE  /\ WorkTyped'
           /\ \A x \in Workers : x # w => work'[x] = work[x]
           /\ work'[w].pc = "idle"
BY RestingTyped DEF WorkTyped, Rest, Resting

LEMMA JobTyped ==
    ASSUME TypeInv, NEW w \in Workers, work[w].pc \in DeliverySteps
    PROVE  /\ work[w].job.endpoint \in Endpoints /\ work[w].job.event \in Events
           /\ JobRow(w) \in Rows /\ RowTyped /\ WorkTyped
           /\ work[w].job = [endpoint |-> work[w].job.endpoint, event |-> work[w].job.event]
           /\ work[w].pc # "idle" /\ work[w].pc \notin DrainSteps
BY DEF TypeInv, TypeOK, Placed, JobRow, RowTyped, WorkTyped, Works, Jobs, DeliverySteps, DrainSteps

LEMMA FailedTyped ==
    ASSUME TypeInv, NEW w \in Workers, work[w].pc \in DeliverySteps, NEW n \in {"never", "later"}
    PROVE  /\ Failed(w) \in Rows /\ Failed(w).status = "failed"
           /\ [Failed(w) EXCEPT !.next = n] \in Rows
           /\ [Failed(w) EXCEPT !.next = n].status = "failed"
           /\ Delivered(w) \in Rows /\ Delivered(w).status = "delivered"
BY JobTyped DEF Failed, Delivered, Rows, Statuses

------------------------------------------------------------------------------
(* Types *)

LEMMA InitTyped == Init => TypeInv
<1> SUFFICES ASSUME Init  PROVE TypeInv
  OBVIOUS
<1>1. EmptySlot \in Slots /\ EmptySlot.version = 0 /\ EmptySlot.pending = FALSE
  BY DEF EmptySlot, Slots
<1>2. Placed
  BY DEF Init, Placed, Resting, DeliverySteps, DrainSteps
<1>3. TypeOK
  BY <1>1, ConstantRows, RestingTyped DEF Init, TypeOK
<1> QED  BY <1>1, <1>2, <1>3 DEF TypeInv, SlotSet, Init

\* Steps that leave the slot alone, in terms of the parts they may change.
LEMMA PartsTyped ==
    ASSUME TypeInv, RowTyped', WorkTyped', Placed', UNCHANGED <<slot, allowed>>,
           endpoint' \in [Endpoints -> {"none", "on", "off", "deleting", "deleted"}],
           born' \in [Endpoints -> Nat],
           received' \in [Endpoints -> [Events -> Nat]],
           owed' \subseteq Endpoints, changes' \in Nat, faults' \in Nat
    PROVE  TypeInv'
BY DEF TypeInv, TypeOK, RowTyped, WorkTyped, SlotSet

LEMMA CountersGrow ==
    ASSUME TypeInv
    PROVE  /\ AChange => changes' = changes + 1 /\ changes' \in Nat
           /\ Fault => faults' = faults + 1 /\ faults' \in Nat
           /\ NoFault => faults' = faults /\ faults' \in Nat
           /\ RowTyped /\ WorkTyped /\ changes \in Nat /\ faults \in Nat
BY DEF TypeInv, TypeOK, AChange, Fault, NoFault, RowTyped, WorkTyped

\* A worker that rests, or goes on within its drain or delivery, stays placed.
LEMMA StaysPlaced ==
    ASSUME TypeInv, NEW w \in Workers,
           \A x \in Workers : x # w => work'[x] = work[x],
           \/ work'[w].pc = "idle"
           \/ /\ work[w].pc \in DrainSteps /\ work'[w].pc \in DrainSteps
              /\ work'[w].seen = work[w].seen
           \/ /\ work[w].pc \in DeliverySteps /\ work'[w].pc \in DeliverySteps
              /\ work'[w].job = work[w].job
    PROVE  Placed'
<1> SUFFICES ASSUME NEW x \in Workers
             PROVE  /\ work'[x].pc \in DeliverySteps =>
                          work'[x].job.endpoint \in Endpoints /\ work'[x].job.event \in Events
                    /\ work'[x].pc \in DrainSteps => work'[x].seen.event \in Events
  BY DEF Placed
<1>1. CASE x # w
  BY <1>1 DEF TypeInv, Placed
<1>2. CASE x = w
  BY <1>2 DEF TypeInv, Placed, DrainSteps, DeliverySteps
<1> QED  BY <1>1, <1>2

LEMMA StageTyped ==
    ASSUME TypeInv, NEW v \in Events, Stage(v)
    PROVE  TypeInv'
<1>1. slot' \in Slots /\ slot'.event \in Events
  BY DEF Stage, TypeInv, TypeOK, Slots
<1>2. Placed'
  BY DEF Stage, TypeInv, Placed
<1>3. TypeOK'
  BY <1>1 DEF Stage, TypeInv, TypeOK
<1> QED  BY <1>1, <1>2, <1>3 DEF TypeInv, SlotSet

LEMMA DrainReadTyped ==
    ASSUME TypeInv, NEW w \in Workers, DrainRead(w)
    PROVE  TypeInv'
<1>1. slot \in Slots /\ slot.event \in Events
  BY DEF TypeInv, SlotSet, TypeOK, DrainRead
<1>2. /\ WorkTyped' /\ work'[w].pc = "find" /\ work'[w].seen = slot
      /\ \A x \in Workers : x # w => work'[x] = work[x]
  BY <1>1 DEF DrainRead, TypeInv, TypeOK, WorkTyped, Works, DrainSteps
<1>3. Placed'
  BY <1>1, <1>2 DEF TypeInv, Placed, DrainSteps, DeliverySteps
<1> QED  BY <1>2, <1>3, CountersGrow DEF DrainRead, TypeInv, TypeOK, SlotSet, WorkTyped

LEMMA DrainFindTyped ==
    ASSUME TypeInv, NEW w \in Workers, DrainFind(w)
    PROVE  /\ TypeInv' /\ work'[w].pc \in DrainSteps
           /\ \A x \in Workers : x # w => work'[x] = work[x]
<1> DEFINE T == {e \in Endpoints : allowed /\ On(e) /\ born[e] < work[w].seen.version}
           step == IF T = {} THEN "ack" ELSE "upsert"
<1>1. work' = [work EXCEPT ![w].pc = step, ![w].targets = T] /\ At(w, "find")
  BY DEF DrainFind
<1>2. T \in SUBSET Endpoints /\ step \in DrainSteps
  BY DEF DrainSteps
<1> HIDE DEF T, step
<1>3. /\ WorkTyped' /\ work'[w].pc \in DrainSteps /\ work'[w].seen = work[w].seen
      /\ \A x \in Workers : x # w => work'[x] = work[x]
  BY <1>1, <1>2 DEF TypeInv, TypeOK, WorkTyped, Works
<1>4. Placed'
  BY <1>1, <1>3, StaysPlaced DEF At, DrainSteps
<1> QED  BY <1>3, <1>4, CountersGrow, PartsTyped DEF DrainFind, TypeInv, TypeOK, RowTyped

LEMMA DrainUpsertTyped ==
    ASSUME TypeInv, NEW w \in Workers, DrainUpsert(w)
    PROVE  TypeInv'
<1>1. work[w].targets \in SUBSET Endpoints /\ work[w].seen.event \in Events
      /\ work[w].pc \in DrainSteps
  BY DEF TypeInv, TypeOK, Works, Placed, DrainUpsert, At, DrainSteps
<1>2. RowTyped'
  BY <1>1, CountersGrow, UpsertDoes DEF DrainUpsert
<1>3. /\ WorkTyped' /\ work'[w].pc = "ack" /\ work'[w].seen = work[w].seen
      /\ \A x \in Workers : x # w => work'[x] = work[x]
  BY CountersGrow, GotoDoes DEF DrainUpsert, DrainSteps
<1>4. Placed'
  BY <1>1, <1>3, StaysPlaced DEF DrainSteps
<1> QED  BY <1>2, <1>3, <1>4, PartsTyped DEF DrainUpsert, TypeInv, TypeOK

LEMMA DrainAckTyped ==
    ASSUME TypeInv, NEW w \in Workers, DrainAck(w)
    PROVE  TypeInv'
<1>1. slot' \in Slots /\ (slot'.pending => slot.pending) /\ slot'.event = slot.event
      /\ slot'.version = slot.version
  BY DEF TypeInv, TypeOK, Slots, DrainAck
<1>2. /\ WorkTyped' /\ work'[w].pc = "idle"
      /\ \A x \in Workers : x # w => work'[x] = work[x]
  BY CountersGrow, RestDoes DEF DrainAck
<1>3. Placed'
  BY <1>2, StaysPlaced
<1>4. TypeOK'
  BY <1>1, <1>2 DEF DrainAck, TypeInv, TypeOK, WorkTyped
<1> QED  BY <1>1, <1>3, <1>4 DEF TypeInv, SlotSet

LEMMA DrainFailsTyped ==
    ASSUME TypeInv, NEW w \in Workers, DrainFails(w)
    PROVE  TypeInv'
<1>1. RowTyped'
  <2>1. CASE UNCHANGED row
    BY <2>1, CountersGrow DEF RowTyped
  <2>2. ASSUME At(w, "upsert"), NEW S \in SUBSET work[w].targets,
               Upsert(S, work[w].seen.event)
        PROVE  RowTyped'
    <3>1. S \in SUBSET Endpoints /\ work[w].seen.event \in Events
      BY <2>2 DEF TypeInv, TypeOK, Works, Placed, At, DrainSteps
    <3> QED  BY <2>2, <3>1, CountersGrow, UpsertDoes
  <2> QED  BY <2>1, <2>2 DEF DrainFails
<1>2. /\ WorkTyped' /\ work'[w].pc = "idle"
      /\ \A x \in Workers : x # w => work'[x] = work[x]
  BY CountersGrow, RestDoes DEF DrainFails
<1>3. Placed'
  BY <1>2, StaysPlaced
<1> QED  BY <1>1, <1>2, <1>3, CountersGrow, PartsTyped DEF DrainFails, TypeInv, TypeOK

\* A claim, time and the owner change one delivery.
OneRow(e, v) ==
    /\ RowTyped'
    /\ \A d \in Endpoints, u \in Events : d # e \/ u # v => row'[d][u] = row[d][u]

\* A worker's claim of a delivery.
Claimed(w, e, v) ==
    /\ work[w].pc = "idle" /\ work'[w].pc = "look"
    /\ work'[w].job = [endpoint |-> e, event |-> v]
    /\ \A x \in Workers : x # w => work'[x] = work[x]

LEMMA ClaimTyped ==
    ASSUME TypeInv, NEW w \in Workers, NEW e \in Endpoints, NEW v \in Events, Claim(w, e, v)
    PROVE  /\ TypeInv' /\ OneRow(e, v) /\ Claimed(w, e, v)
           /\ row'[e][v].status = "sending" /\ row'[e][v].lease = "held"
<1> DEFINE r == row[e][v]
           s == [r EXCEPT !.status = "sending", !.lease = "held", !.attempts = @ + 1]
           j == [endpoint |-> e, event |-> v]
<1>1. SetRow(e, v, s) /\ AttemptLeft(r)
  BY DEF Claim
<1>2. r \in Rows
  BY DEF TypeInv, TypeOK
<1>3. r.attempts \in 0..MaxAttempts /\ MaxAttempts \in Nat /\ r.attempts < MaxAttempts
  BY <1>1, <1>2, WebhookAssumption DEF AttemptLeft, Rows
<1>4. r.attempts + 1 \in 0..MaxAttempts
  BY <1>3
<1> DEFINE a == r.attempts + 1
<1> HIDE DEF r, a
<1>5. s = [r EXCEPT !.status = "sending", !.lease = "held", !.attempts = a]
  BY DEF a
<1>6. s \in Rows /\ s.status = "sending" /\ s.lease = "held"
  BY <1>2, <1>4, <1>5 DEF a, Rows, Statuses
<1>7. work' = [work EXCEPT ![w].pc = "look", ![w].attempt = r.attempts + 1, ![w].job = j]
      /\ At(w, "idle")
  BY DEF Claim, r
<1>8. j \in Jobs /\ j.endpoint = e /\ j.event = v
  BY DEF Jobs
<1> HIDE DEF s, j
<1>9. /\ RowTyped' /\ row'[e][v] = s
      /\ \A d \in Endpoints, u \in Events : d # e \/ u # v => row'[d][u] = row[d][u]
  BY <1>1, <1>6, CountersGrow, SetRowDoes
<1>10. /\ WorkTyped' /\ work'[w].pc = "look" /\ work'[w].job = j
      /\ \A x \in Workers : x # w => work'[x] = work[x]
  BY ZenonT(30), <1>4, <1>7, <1>8 DEF TypeInv, TypeOK, WorkTyped, Works, DeliverySteps
<1>11. Placed'
  BY <1>8, <1>10 DEF TypeInv, Placed, DeliverySteps, DrainSteps
<1>12. TypeInv'
  BY <1>9, <1>10, <1>11, CountersGrow, PartsTyped DEF Claim, TypeInv, TypeOK
<1> QED  BY <1>6, <1>7, <1>9, <1>10, <1>12 DEF j, OneRow, Claimed, At

\* A worker's update of its delivery to r.
Updated(w, r) ==
    \A d \in Endpoints, u \in Events :
        row'[d][u] = IF /\ d = work[w].job.endpoint /\ u = work[w].job.event
                        /\ row[d][u].status # "absent"
                     THEN r ELSE row[d][u]

\* What a step of a worker at a delivery leaves behind, whichever it is.
Moved(w) ==
    /\ RowTyped' /\ WorkTyped' /\ Placed'
    /\ work'[w].pc \in {"idle"} \cup DeliverySteps
    /\ work'[w].pc # "idle" => work'[w].job = work[w].job
    /\ \A x \in Workers : x # w => work'[x] = work[x]

LEMMA GotoMoves ==
    ASSUME TypeInv, NEW w \in Workers, work[w].pc \in DeliverySteps,
           NEW step \in DeliverySteps, Goto(w, step), RowTyped'
    PROVE  Moved(w) /\ work'[w].pc = step
<1>1. /\ WorkTyped' /\ work'[w].pc = step /\ work'[w].job = work[w].job
      /\ \A x \in Workers : x # w => work'[x] = work[x]
  BY CountersGrow, GotoDoes
<1>2. Placed'
  BY <1>1, StaysPlaced
<1> QED  BY <1>1, <1>2 DEF Moved

LEMMA RestMoves ==
    ASSUME TypeInv, NEW w \in Workers, Rest(w), RowTyped'
    PROVE  Moved(w) /\ work'[w].pc = "idle"
<1>1. /\ WorkTyped' /\ work'[w].pc = "idle"
      /\ \A x \in Workers : x # w => work'[x] = work[x]
  BY CountersGrow, RestDoes
<1>2. Placed'
  BY <1>1, StaysPlaced
<1> QED  BY <1>1, <1>2 DEF Moved

LEMMA SameRow ==
    ASSUME TypeInv, UNCHANGED row
    PROVE  RowTyped' /\ \A e \in Endpoints, v \in Events : row'[e][v] = row[e][v]
BY CountersGrow DEF RowTyped

LEMMA LookDoes ==
    ASSUME TypeInv, NEW w \in Workers, Look(w)
    PROVE  /\ Moved(w) /\ work[w].pc = "look"
           /\ \/ On(work[w].job.endpoint) /\ work'[w].pc = "send" /\ UNCHANGED row
              \/ /\ ~On(work[w].job.endpoint) /\ work'[w].pc = "idle"
                 /\ Failed(w).status = "failed" /\ Updated(w, Failed(w))
<1>1. work[w].pc = "look" /\ work[w].pc \in DeliverySteps
  BY DEF Look, At, DeliverySteps
<1>2. CASE On(work[w].job.endpoint) /\ Goto(w, "send") /\ UNCHANGED row
  BY <1>1, <1>2, SameRow, GotoMoves DEF DeliverySteps
<1>3. CASE ~On(work[w].job.endpoint) /\ UpdateJob(w, Failed(w)) /\ Rest(w)
  <2>1. Failed(w) \in Rows /\ Failed(w).status = "failed"
    BY <1>1, FailedTyped
  <2>2. RowTyped' /\ Updated(w, Failed(w))
    BY <1>1, <1>3, <2>1, UpdateJobDoes DEF Updated
  <2> QED  BY <1>1, <1>3, <2>1, <2>2, RestMoves
<1> QED  BY <1>1, <1>2, <1>3 DEF Look

LEMMA ForbiddenDoes ==
    ASSUME TypeInv, NEW w \in Workers, Forbidden(w)
    PROVE  /\ Moved(w) /\ work[w].pc = "send" /\ work'[w].pc = "idle"
           /\ \E r \in Rows : r.status = "failed" /\ Updated(w, r)
<1>1. work[w].pc = "send" /\ work[w].pc \in DeliverySteps
  BY DEF Forbidden, At, DeliverySteps
<1> DEFINE r == [Failed(w) EXCEPT !.next = "never"]
<1>2. r \in Rows /\ r.status = "failed"
  BY <1>1, FailedTyped
<1>3. UpdateJob(w, r) /\ Rest(w)
  BY DEF Forbidden
<1> HIDE DEF r
<1>4. RowTyped' /\ Updated(w, r)
  BY <1>1, <1>2, <1>3, UpdateJobDoes DEF Updated
<1> QED  BY <1>1, <1>2, <1>3, <1>4, RestMoves

LEMMA AcceptedDoes ==
    ASSUME TypeInv, NEW w \in Workers, work[w].pc \in DeliverySteps, Accepted(w)
    PROVE  /\ received' \in [Endpoints -> [Events -> Nat]]
           /\ \A d \in Endpoints, u \in Events :
                 received'[d][u] = IF d = work[w].job.endpoint /\ u = work[w].job.event
                                   THEN received[d][u] + 1 ELSE received[d][u]
<1> DEFINE e == work[w].job.endpoint
           v == work[w].job.event
<1>1. e \in Endpoints /\ v \in Events
  BY JobTyped
<1>2. received' = [received EXCEPT ![e][v] = received[e][v] + 1]
  BY DEF Accepted
<1> HIDE DEF e, v
<1>3. received \in [Endpoints -> [Events -> Nat]]
  BY DEF TypeInv, TypeOK
<1>4. /\ received' \in [Endpoints -> [Events -> Nat]]
      /\ \A d \in Endpoints, u \in Events :
            received'[d][u] = IF d = e /\ u = v THEN received[d][u] + 1 ELSE received[d][u]
  BY <1>1, <1>2, <1>3
<1> QED  BY <1>4 DEF e, v

LEMMA SendDoes ==
    ASSUME TypeInv, NEW w \in Workers, Send(w)
    PROVE  /\ Moved(w) /\ work[w].pc = "send" /\ UNCHANGED row
           /\ work[w].pc \in DeliverySteps
           /\ \/ Accepted(w) /\ work'[w].pc = "ok" /\ NoFault
              \/ Accepted(w) /\ work'[w].pc = "bad" /\ Fault
              \/ UNCHANGED received /\ work'[w].pc = "bad" /\ Fault
<1>1. work[w].pc = "send" /\ work[w].pc \in DeliverySteps /\ UNCHANGED row
  BY DEF Send, At, DeliverySteps
<1>2. CASE Accepted(w) /\ Goto(w, "ok") /\ NoFault
  BY <1>1, <1>2, SameRow, GotoMoves DEF DeliverySteps
<1>3. CASE AnswerLost(w) /\ Fault /\ (Accepted(w) \/ UNCHANGED received)
  BY <1>1, <1>3, SameRow, GotoMoves DEF DeliverySteps, AnswerLost
<1> QED  BY <1>1, <1>2, <1>3 DEF Send

LEMMA SaveDeliveredDoes ==
    ASSUME TypeInv, NEW w \in Workers, SaveDelivered(w)
    PROVE  /\ Moved(w) /\ work[w].pc = "ok" /\ Delivered(w).status = "delivered"
           /\ \/ Updated(w, Delivered(w)) /\ work'[w].pc = "idle" /\ NoFault
              \/ Updated(w, Delivered(w)) /\ work'[w].pc = "bad" /\ Fault
              \/ UNCHANGED row /\ work'[w].pc = "bad" /\ Fault
<1>1. work[w].pc = "ok" /\ work[w].pc \in DeliverySteps
  BY DEF SaveDelivered, At, DeliverySteps
<1>2. Delivered(w) \in Rows /\ Delivered(w).status = "delivered"
  BY <1>1, FailedTyped
<1>3. UpdateJob(w, Delivered(w)) => RowTyped' /\ Updated(w, Delivered(w))
  BY <1>1, <1>2, UpdateJobDoes DEF Updated
<1>4. CASE UpdateJob(w, Delivered(w)) /\ Rest(w) /\ NoFault
  BY <1>1, <1>2, <1>3, <1>4, RestMoves
<1>5. CASE UpdateJob(w, Delivered(w)) /\ Goto(w, "bad") /\ Fault
  BY <1>1, <1>2, <1>3, <1>5, GotoMoves DEF DeliverySteps
<1>6. CASE UNCHANGED row /\ Goto(w, "bad") /\ Fault
  BY <1>1, <1>2, <1>6, SameRow, GotoMoves DEF DeliverySteps
<1> QED  BY <1>4, <1>5, <1>6 DEF SaveDelivered

LEMMA SaveFailedDoes ==
    ASSUME TypeInv, NEW w \in Workers, SaveFailed(w)
    PROVE  /\ Moved(w) /\ work[w].pc = "bad" /\ work'[w].pc = "idle"
           /\ \/ NoFault /\ \E r \in Rows : r.status = "failed" /\ Updated(w, r)
              \/ UNCHANGED row /\ Fault
<1>1. work[w].pc = "bad" /\ work[w].pc \in DeliverySteps /\ Rest(w)
  BY DEF SaveFailed, At, DeliverySteps
<1> DEFINE n == IF Exhausted(w) THEN "never" ELSE "later"
           r == [Failed(w) EXCEPT !.next = n]
<1>2. CASE UpdateJob(w, r) /\ NoFault
  <2>1. n \in {"never", "later"}
    OBVIOUS
  <2>2. r \in Rows /\ r.status = "failed"
    BY <1>1, <2>1, FailedTyped
  <2> HIDE DEF r
  <2>3. RowTyped' /\ Updated(w, r)
    BY <1>1, <1>2, <2>2, UpdateJobDoes DEF Updated
  <2> QED  BY <1>1, <1>2, <2>2, <2>3, RestMoves
<1>3. CASE UNCHANGED row /\ Fault
  BY <1>1, <1>3, SameRow, RestMoves
<1> QED  BY <1>2, <1>3 DEF SaveFailed

LEMMA StopDoes ==
    ASSUME TypeInv, NEW w \in Workers, Stop(w)
    PROVE  Moved(w) /\ work[w].pc # "idle" /\ work'[w].pc = "idle" /\ UNCHANGED row
BY SameRow, RestMoves DEF Stop, At

LEMMA DeliveryTyped ==
    ASSUME TypeInv, NEW w \in Workers, DeliveryStep(w) \/ Stop(w)
    PROVE  TypeInv'
<1>1. Moved(w)
  BY LookDoes, ForbiddenDoes, SendDoes, SaveDeliveredDoes, SaveFailedDoes, StopDoes
  DEF DeliveryStep
<1>2. /\ received' \in [Endpoints -> [Events -> Nat]]
      /\ faults' \in Nat /\ UNCHANGED <<slot, endpoint, born, allowed, owed, changes>>
  <2>1. CASE Send(w)
    BY <2>1, SendDoes, AcceptedDoes, CountersGrow DEF Send, TypeInv, TypeOK
  <2>2. CASE Look(w) \/ Forbidden(w) \/ SaveDelivered(w) \/ SaveFailed(w) \/ Stop(w)
    BY <2>2, CountersGrow
    DEF Look, Forbidden, SaveDelivered, SaveFailed, Stop, TypeInv, TypeOK
  <2> QED  BY <2>1, <2>2 DEF DeliveryStep
<1> QED  BY <1>1, <1>2, PartsTyped DEF Moved, TypeInv, TypeOK

LEMMA OneRowTyped ==
    ASSUME TypeInv, NEW e \in Endpoints, NEW v \in Events, OneRow(e, v),
           UNCHANGED <<slot, endpoint, born, allowed, work, received, owed>>,
           changes' \in Nat, faults' \in Nat
    PROVE  TypeInv'
<1>1. WorkTyped' /\ Placed'
  BY DEF TypeInv, TypeOK, Placed, WorkTyped
<1> QED  BY <1>1, PartsTyped DEF OneRow, TypeInv, TypeOK

LEMMA BecomeDueDoes ==
    ASSUME TypeInv, NEW e \in Endpoints, NEW v \in Events, BecomeDue(e, v)
    PROVE  /\ TypeInv' /\ OneRow(e, v)
           /\ row[e][v].status = "failed" /\ row'[e][v].status = "failed"
<1> DEFINE r == [row[e][v] EXCEPT !.next = "now"]
<1>1. row[e][v] \in Rows /\ row[e][v].status = "failed"
  BY DEF TypeInv, TypeOK, BecomeDue
<1>2. r \in Rows /\ r.status = "failed"
  BY <1>1 DEF Rows
<1>3. SetRow(e, v, r)
  BY DEF BecomeDue
<1> HIDE DEF r
<1>4. OneRow(e, v) /\ row'[e][v] = r
  BY <1>2, <1>3, CountersGrow, SetRowDoes DEF OneRow
<1>5. TypeInv'
  BY <1>4, CountersGrow, OneRowTyped DEF BecomeDue
<1> QED  BY <1>1, <1>2, <1>4, <1>5

LEMMA LeaseLapsesDoes ==
    ASSUME TypeInv, NEW e \in Endpoints, NEW v \in Events, LeaseLapses(e, v)
    PROVE  /\ TypeInv' /\ OneRow(e, v)
           /\ row[e][v].status = "sending" /\ row[e][v].lease = "held"
           /\ row'[e][v].status = "sending" /\ row'[e][v].lease = "lapsed"
           /\ \/ WorkedOn(e, v) /\ faults' = faults + 1
              \/ ~WorkedOn(e, v) /\ faults' = faults
<1> DEFINE r == [row[e][v] EXCEPT !.lease = "lapsed"]
<1>1. row[e][v] \in Rows /\ row[e][v].status = "sending" /\ row[e][v].lease = "held"
  BY DEF TypeInv, TypeOK, LeaseLapses
<1>2. r \in Rows /\ r.status = "sending" /\ r.lease = "lapsed"
  BY <1>1 DEF Rows
<1>3. SetRow(e, v, r)
  BY DEF LeaseLapses
<1> HIDE DEF r
<1>4. OneRow(e, v) /\ row'[e][v] = r
  BY <1>2, <1>3, CountersGrow, SetRowDoes DEF OneRow
<1>5. /\ \/ WorkedOn(e, v) /\ faults' = faults + 1
         \/ ~WorkedOn(e, v) /\ faults' = faults
      /\ faults' \in Nat /\ changes' \in Nat
  BY CountersGrow DEF LeaseLapses
<1>6. TypeInv'
  BY <1>4, <1>5, OneRowTyped DEF LeaseLapses
<1> QED  BY <1>1, <1>2, <1>4, <1>5, <1>6

LEMMA RequestRetryDoes ==
    ASSUME TypeInv, NEW e \in Endpoints, NEW v \in Events, RequestRetry(e, v)
    PROVE  /\ TypeInv' /\ OneRow(e, v)
           /\ row[e][v].status = "failed" /\ row'[e][v].status = "pending"
<1> DEFINE r == Retried(row[e][v])
<1>1. row[e][v] \in Rows /\ row[e][v].status = "failed"
  BY DEF TypeInv, TypeOK, RequestRetry, Retryable
<1>2. r \in Rows /\ r.status = "pending"
  BY <1>1 DEF Retried, Rows, Statuses
<1>3. SetRow(e, v, r)
  BY DEF RequestRetry
<1> HIDE DEF r
<1>4. OneRow(e, v) /\ row'[e][v] = r
  BY <1>2, <1>3, CountersGrow, SetRowDoes DEF OneRow
<1>5. TypeInv'
  BY <1>4, CountersGrow, OneRowTyped DEF RequestRetry
<1> QED  BY <1>1, <1>2, <1>4, <1>5

\* The owner and the administrator.  Only a deletion touches the deliveries.
LEMMA OwnerDoes ==
    ASSUME TypeInv, NEW e \in Endpoints, Create(e) \/ Pause(e) \/ Resume(e) \/ Delete(e)
    PROVE  /\ TypeInv' /\ RowTyped'
           /\ UNCHANGED <<slot, allowed, work, received, faults>>
           /\ \A d \in Endpoints : d # e =>
                 row'[d] = row[d] /\ endpoint'[d] = endpoint[d] /\ born'[d] = born[d]
           /\ Create(e) => /\ endpoint[e] = "none" /\ endpoint'[e] = "on" /\ owed' = owed
                           /\ born'[e] = slot.version /\ UNCHANGED row
           /\ Pause(e) \/ Resume(e) => UNCHANGED <<row, born>>
           /\ Pause(e) => On(e) /\ endpoint'[e] = "off" /\ owed' = owed \ {e}
           /\ Resume(e) => endpoint[e] = "off" /\ endpoint'[e] = "on" /\ owed' = owed
           /\ Delete(e) => /\ endpoint'[e] \in {"deleting", "deleted"} /\ owed' = owed \ {e}
                           /\ UNCHANGED born
                           /\ row' = row \/ \A v \in Events : row'[e][v] = Absent
<1>1. /\ UNCHANGED <<slot, allowed, work, received, faults>>
      /\ row \in [Endpoints -> [Events -> Rows]] /\ slot.version \in Nat
      /\ endpoint \in [Endpoints -> {"none", "on", "off", "deleting", "deleted"}]
      /\ born \in [Endpoints -> Nat]
      /\ row' \in [Endpoints -> [Events -> Rows]]
      /\ endpoint' \in [Endpoints -> {"none", "on", "off", "deleting", "deleted"}]
      /\ born' \in [Endpoints -> Nat] /\ changes' \in Nat /\ owed' \subseteq Endpoints
  <2>1. CASE Create(e)
    BY <2>1, CountersGrow DEF Create, TypeInv, TypeOK, Slots
  <2>2. CASE Pause(e) \/ Resume(e)
    BY <2>2, CountersGrow DEF Pause, Resume, TypeInv, TypeOK, Slots
  <2>3. CASE Delete(e)
    <3>1. row' \in [Endpoints -> [Events -> Rows]]
      BY <2>3, ConstantRows DEF Delete, TypeInv, TypeOK
    <3> QED  BY <2>3, <3>1, CountersGrow DEF Delete, TypeInv, TypeOK, Slots
  <2> QED  BY <2>1, <2>2, <2>3
<1>2. TypeInv'
  <2>1. WorkTyped' /\ Placed' /\ RowTyped'
    BY <1>1 DEF TypeInv, TypeOK, Placed, WorkTyped, RowTyped
  <2> QED  BY <1>1, <2>1, PartsTyped DEF TypeInv, TypeOK
<1>3. CASE Create(e)
  BY <1>1, <1>2, <1>3 DEF Create, Pause, Resume, Delete, On, RowTyped
<1>4. CASE Pause(e)
  BY <1>1, <1>2, <1>4 DEF Create, Pause, Resume, Delete, On, RowTyped
<1>5. CASE Resume(e)
  BY <1>1, <1>2, <1>5 DEF Create, Pause, Resume, Delete, On, RowTyped
<1>6. CASE Delete(e)
  BY <1>1, <1>2, <1>6 DEF Create, Pause, Resume, Delete, On, RowTyped
<1> QED  BY <1>3, <1>4, <1>5, <1>6

LEMMA PermitTyped ==
    ASSUME TypeInv, Permit
    PROVE  TypeInv'
<1>1. Placed'
  BY DEF Permit, TypeInv, Placed
<1> QED  BY <1>1, CountersGrow DEF Permit, TypeInv, TypeOK, SlotSet

LEMMA NextTyped == TypeInv /\ [Next]_vars => TypeInv'
<1> SUFFICES ASSUME TypeInv, [Next]_vars  PROVE TypeInv'
  OBVIOUS
<1>1. ASSUME NEW w \in Workers, DrainRead(w) \/ DrainStep(w) \/ DrainFails(w)
      PROVE  TypeInv'
  BY <1>1, DrainReadTyped, DrainFindTyped, DrainUpsertTyped, DrainAckTyped, DrainFailsTyped
  DEF DrainStep
<1>2. CASE UNCHANGED vars
  BY <1>2 DEF vars, TypeInv, TypeOK, Placed, SlotSet
<1> QED
  BY <1>1, <1>2, StageTyped, DeliveryTyped, ClaimTyped, OwnerDoes, BecomeDueDoes,
     LeaseLapsesDoes, RequestRetryDoes, PermitTyped
  DEF Next

LEMMA TypeInvariant == Spec => []TypeInv
BY InitTyped, NextTyped, PTL DEF Spec

\* Every variable of the webhooks keeps its type.
THEOREM WebhookTypeCorrect == Spec => []TypeOK
BY TypeInvariant, PTL DEF TypeInv

------------------------------------------------------------------------------
(* No staged event is lost *)

\* An endpoint that is owed the slot's event is on, may be used, and is older.
OwedOn == \A e \in owed : allowed /\ On(e) /\ born[e] < slot.version
BornBefore == \A e \in Endpoints : born[e] <= slot.version

\* What a drain has read is the slot, or was.
SeenBefore ==
    \A w \in Workers : work[w].pc \in DrainSteps =>
        /\ work[w].seen.version <= slot.version
        /\ work[w].seen.version = slot.version => work[w].seen.event = slot.event

\* A drain of the slot as it is misses no endpoint that is owed its event.
DrainMissesNone ==
    \A w \in Workers : work[w].seen.version = slot.version =>
        /\ At(w, "upsert") => owed \subseteq work[w].targets
        /\ At(w, "ack") => \A e \in owed : row[e][slot.event].status # "absent"

StagedInv == OwedOn /\ BornBefore /\ SeenBefore /\ DrainMissesNone /\ StagedBeforeAck

LEMMA InitStaged == Init => StagedInv
BY DEF Init, StagedInv, OwedOn, BornBefore, SeenBefore, DrainMissesNone, StagedBeforeAck,
       EmptySlot, Resting, At, DrainSteps

\* Deliveries of endpoints that are owed the event do not vanish.
RowsStay ==
    \A e \in owed', v \in Events : row[e][v].status # "absent" => row'[e][v].status # "absent"

\* Steps of the others leave a drain and its slot alone.
LEMMA OthersStaged ==
    ASSUME TypeInv, StagedInv, RowsStay, UNCHANGED slot, owed' \subseteq owed,
           \A w \in Workers : work'[w] = work[w] \/ work'[w].pc \in {"idle"} \cup DeliverySteps,
           \A e \in owed' : allowed' /\ endpoint'[e] = endpoint[e] /\ born'[e] = born[e],
           \A e \in Endpoints : born'[e] = born[e] \/ born'[e] = slot.version
    PROVE  StagedInv'
<1>1. slot.version \in Nat /\ owed' \subseteq Endpoints
  BY DEF TypeInv, TypeOK, Slots
<1>2. OwedOn' /\ BornBefore'
  BY <1>1 DEF StagedInv, OwedOn, BornBefore, On
<1>3. SeenBefore'
  <2> SUFFICES ASSUME NEW w \in Workers, work'[w].pc \in DrainSteps
               PROVE  /\ work'[w].seen.version <= slot.version
                      /\ work'[w].seen.version = slot.version => work'[w].seen.event = slot.event
    BY DEF SeenBefore
  <2>1. work'[w] = work[w]
    BY DEF DrainSteps, DeliverySteps
  <2> QED  BY <2>1 DEF StagedInv, SeenBefore
<1>4. DrainMissesNone'
  <2> SUFFICES ASSUME NEW w \in Workers, work'[w].seen.version = slot.version,
                      work'[w].pc \in {"upsert", "ack"}
               PROVE  /\ work'[w].pc = "upsert" => owed' \subseteq work'[w].targets
                      /\ work'[w].pc = "ack" =>
                            \A e \in owed' : row'[e][slot.event].status # "absent"
    BY DEF DrainMissesNone, At
  <2>1. work'[w] = work[w]
    BY DEF DeliverySteps
  <2>2. slot.event \in Events
    BY <2>1 DEF StagedInv, SeenBefore, TypeInv, Placed, DrainSteps
  <2> QED  BY <2>1, <2>2 DEF StagedInv, DrainMissesNone, At, RowsStay
<1>5. StagedBeforeAck'
  BY DEF StagedInv, StagedBeforeAck, RowsStay, TypeInv, SlotSet
<1> QED  BY <1>2, <1>3, <1>4, <1>5 DEF StagedInv

LEMMA StageStaged ==
    ASSUME TypeInv, StagedInv, NEW v \in Events, Stage(v)
    PROVE  StagedInv'
<1>1. slot.version \in Nat /\ slot'.version = slot.version + 1 /\ slot'.pending
  BY DEF TypeInv, TypeOK, Slots, Stage
<1>2. \A w \in Workers : work[w].seen.version \in Nat
  BY DEF TypeInv, TypeOK, Works, Slots
<1>3. \A e \in Endpoints : born[e] \in Nat
  BY DEF TypeInv, TypeOK
<1>4. OwedOn'
  BY <1>1, <1>3 DEF Stage, StagedInv, OwedOn, BornBefore, On
<1>5. BornBefore'
  BY <1>1, <1>3 DEF Stage, StagedInv, BornBefore
<1>6. \A w \in Workers : work[w].pc \in DrainSteps =>
                             work[w].seen.version # slot'.version
                             /\ work[w].seen.version <= slot'.version
  BY <1>1, <1>2 DEF StagedInv, SeenBefore
<1>7. SeenBefore' /\ DrainMissesNone'
  BY <1>6 DEF Stage, SeenBefore, DrainMissesNone, At, DrainSteps
<1>8. StagedBeforeAck'
  BY <1>1 DEF StagedBeforeAck
<1> QED  BY <1>4, <1>5, <1>7, <1>8 DEF StagedInv

\* A step of drain w: the slot's version and event stay, and its rows.
LEMMA DrainStaged ==
    ASSUME TypeInv, StagedInv, NEW w \in Workers, UNCHANGED <<endpoint, born, allowed, owed>>,
           slot'.version = slot.version, slot'.event = slot.event, RowsStay,
           \A x \in Workers : x # w => work'[x] = work[x],
           work'[w].pc \in DrainSteps =>
              /\ work'[w].seen.version <= slot.version
              /\ work'[w].seen.version = slot.version =>
                    /\ work'[w].seen.event = slot.event
                    /\ work'[w].pc = "upsert" => owed \subseteq work'[w].targets
                    /\ work'[w].pc = "ack" =>
                          \A e \in owed : row'[e][slot.event].status # "absent",
           StagedBeforeAck'
    PROVE  StagedInv'
<1>1. OwedOn' /\ BornBefore'
  BY DEF StagedInv, OwedOn, BornBefore, On
<1>2. SeenBefore'
  BY DEF StagedInv, SeenBefore
<1>3. DrainMissesNone'
  <2> SUFFICES ASSUME NEW x \in Workers, work'[x].seen.version = slot.version,
                      work'[x].pc \in {"upsert", "ack"}
               PROVE  /\ work'[x].pc = "upsert" => owed \subseteq work'[x].targets
                      /\ work'[x].pc = "ack" =>
                            \A e \in owed : row'[e][slot.event].status # "absent"
    BY DEF DrainMissesNone, At
  <2>1. CASE x = w
    BY <2>1 DEF DrainSteps
  <2>2. CASE x # w
    <3>1. work'[x] = work[x]
      BY <2>2
    <3>2. slot.event \in Events
      BY <3>1 DEF StagedInv, SeenBefore, TypeInv, Placed, DrainSteps
    <3> QED  BY <3>1, <3>2 DEF StagedInv, DrainMissesNone, At, RowsStay
  <2> QED  BY <2>1, <2>2
<1> QED  BY <1>1, <1>2, <1>3 DEF StagedInv

LEMMA DrainReadStaged ==
    ASSUME TypeInv, StagedInv, NEW w \in Workers, DrainRead(w)
    PROVE  StagedInv'
<1>1. slot.version \in Nat
  BY DEF TypeInv, TypeOK, Slots
<1>2. /\ work'[w].pc = "find" /\ work'[w].seen = slot
      /\ \A x \in Workers : x # w => work'[x] = work[x]
  BY DEF DrainRead, TypeInv, TypeOK, Works
<1>3. RowsStay /\ StagedBeforeAck'
  BY DEF RowsStay, DrainRead, StagedInv, StagedBeforeAck
<1>4. work'[w].seen.version <= slot.version /\ work'[w].seen.event = slot.event
  BY <1>1, <1>2
<1>5. UNCHANGED <<slot, endpoint, born, allowed, owed>>
  BY DEF DrainRead
<1> QED  BY <1>2, <1>3, <1>4, <1>5, DrainStaged

LEMMA DrainFindStaged ==
    ASSUME TypeInv, StagedInv, NEW w \in Workers, DrainFind(w)
    PROVE  StagedInv'
<1> DEFINE T == {e \in Endpoints : allowed /\ On(e) /\ born[e] < work[w].seen.version}
           step == IF T = {} THEN "ack" ELSE "upsert"
<1>1. work' = [work EXCEPT ![w].pc = step, ![w].targets = T] /\ At(w, "find")
  BY DEF DrainFind
<1>2. work[w].seen.version = slot.version => owed \subseteq T
  BY DEF StagedInv, OwedOn, TypeInv, TypeOK
<1>3. T = {} <=> step = "ack"
  OBVIOUS
<1> HIDE DEF T, step
<1>4. /\ work'[w].pc = step /\ work'[w].seen = work[w].seen /\ work'[w].targets = T
      /\ \A x \in Workers : x # w => work'[x] = work[x]
  BY <1>1 DEF TypeInv, TypeOK, Works
<1>5. RowsStay /\ StagedBeforeAck'
  BY DEF RowsStay, DrainFind, StagedInv, StagedBeforeAck
<1>6. /\ work[w].seen.version <= slot.version
      /\ work[w].seen.version = slot.version => work[w].seen.event = slot.event
  BY <1>1 DEF StagedInv, SeenBefore, At, DrainSteps
<1> QED  BY <1>2, <1>3, <1>4, <1>5, <1>6, DrainStaged DEF DrainFind

LEMMA DrainUpsertStaged ==
    ASSUME TypeInv, StagedInv, NEW w \in Workers, DrainUpsert(w)
    PROVE  StagedInv'
<1> DEFINE S == work[w].targets
           v == work[w].seen.event
<1>1. S \in SUBSET Endpoints /\ v \in Events /\ RowTyped /\ WorkTyped
  BY DEF TypeInv, TypeOK, Works, Placed, DrainUpsert, At, DrainSteps, RowTyped, WorkTyped
<1>2. \A d \in Endpoints, u \in Events :
          row'[d][u] = IF d \in S /\ u = v /\ row[d][u].status = "absent"
                       THEN Fresh ELSE row[d][u]
  BY <1>1, UpsertDoes DEF DrainUpsert
<1>3. Fresh.status # "absent"
  BY DEF Fresh, Absent
<1>4. /\ work'[w].pc = "ack" /\ work'[w].seen = work[w].seen
      /\ \A x \in Workers : x # w => work'[x] = work[x]
  BY <1>1, GotoDoes DEF DrainUpsert, DrainSteps
<1>5. owed \subseteq Endpoints
  BY DEF TypeInv, TypeOK
<1>6. /\ work[w].seen.version <= slot.version
      /\ work[w].seen.version = slot.version =>
            work[w].seen.event = slot.event /\ owed \subseteq S
  BY DEF DrainUpsert, StagedInv, SeenBefore, DrainMissesNone, At, DrainSteps
<1>7. RowsStay
  BY <1>2, <1>3, <1>5 DEF RowsStay, DrainUpsert
<1>8. StagedBeforeAck'
  BY <1>7 DEF RowsStay, StagedInv, StagedBeforeAck, DrainUpsert, TypeInv, SlotSet
<1>9. work[w].seen.version = slot.version =>
          \A e \in owed : row'[e][slot.event].status # "absent"
  BY <1>1, <1>2, <1>3, <1>5, <1>6
<1> QED  BY <1>4, <1>6, <1>7, <1>8, <1>9, DrainStaged DEF DrainUpsert

LEMMA DrainAckStaged ==
    ASSUME TypeInv, StagedInv, NEW w \in Workers, DrainAck(w)
    PROVE  StagedInv'
<1>1. slot'.version = slot.version /\ slot'.event = slot.event
  BY DEF TypeInv, TypeOK, Slots, DrainAck
<1>2. /\ work'[w].pc = "idle"
      /\ \A x \in Workers : x # w => work'[x] = work[x]
  BY CountersGrow, RestDoes DEF DrainAck
<1>3. RowsStay
  BY DEF RowsStay, DrainAck
<1>4. StagedBeforeAck'
  <2>1. CASE SameVersion(w)
    BY <1>1, <2>1
    DEF SameVersion, StagedBeforeAck, DrainAck, StagedInv, SeenBefore, DrainMissesNone
  <2>2. CASE ~SameVersion(w)
    BY <2>2 DEF StagedInv, StagedBeforeAck, DrainAck
  <2> QED  BY <2>1, <2>2
<1> QED  BY <1>1, <1>2, <1>3, <1>4, DrainStaged DEF DrainAck, DrainSteps

LEMMA DrainFailsStaged ==
    ASSUME TypeInv, StagedInv, NEW w \in Workers, DrainFails(w)
    PROVE  StagedInv'
<1>1. /\ work'[w].pc = "idle"
      /\ \A x \in Workers : x # w => work'[x] = work[x]
  BY CountersGrow, RestDoes DEF DrainFails
<1>2. RowsStay
  <2>1. CASE UNCHANGED row
    BY <2>1 DEF RowsStay, DrainFails
  <2>2. ASSUME At(w, "upsert"), NEW S \in SUBSET work[w].targets,
               Upsert(S, work[w].seen.event)
        PROVE  RowsStay
    <3>1. S \in SUBSET Endpoints /\ work[w].seen.event \in Events /\ owed \subseteq Endpoints
      BY <2>2 DEF TypeInv, TypeOK, Works, Placed, At, DrainSteps
    <3>2. Fresh.status # "absent"
      BY DEF Fresh, Absent
    <3>3. \A e \in Endpoints, v \in Events :
              row[e][v].status # "absent" => row'[e][v] = row[e][v]
      BY <2>2, <3>1, CountersGrow, UpsertDoes
    <3>4. owed' \subseteq Endpoints
      BY <3>1 DEF DrainFails
    <3> QED  BY <3>3, <3>4 DEF RowsStay
  <2> QED  BY <2>1, <2>2 DEF DrainFails
<1>3. \A e \in owed : allowed
  BY DEF StagedInv, OwedOn
<1> QED  BY <1>1, <1>2, <1>3, OthersStaged DEF DrainFails

LEMMA DeliveryStaged ==
    ASSUME TypeInv, StagedInv, NEW w \in Workers, DeliveryStep(w) \/ Stop(w)
    PROVE  StagedInv'
<1>1. Moved(w)
  BY LookDoes, ForbiddenDoes, SendDoes, SaveDeliveredDoes, SaveFailedDoes, StopDoes
  DEF DeliveryStep
<1>2. UNCHANGED <<slot, endpoint, born, allowed, owed>> /\ owed \subseteq Endpoints
  BY DEF DeliveryStep, Look, Forbidden, Send, SaveDelivered, SaveFailed, Stop, TypeInv, TypeOK
<1>3. \A e \in Endpoints, v \in Events :
          row[e][v].status # "absent" => row'[e][v].status # "absent"
  <2>1. ASSUME NEW r, r.status # "absent", Updated(w, r)
        PROVE  \A e \in Endpoints, v \in Events :
                   row[e][v].status # "absent" => row'[e][v].status # "absent"
    BY <2>1 DEF Updated
  <2>2. CASE Look(w)
    BY <2>1, <2>2, LookDoes
  <2>3. CASE Forbidden(w)
    BY <2>1, <2>3, ForbiddenDoes
  <2>4. CASE Send(w) \/ Stop(w)
    BY <2>4, SendDoes, StopDoes
  <2>5. CASE SaveDelivered(w)
    BY <2>1, <2>5, SaveDeliveredDoes
  <2>6. CASE SaveFailed(w)
    BY <2>1, <2>6, SaveFailedDoes
  <2> QED  BY <2>2, <2>3, <2>4, <2>5, <2>6 DEF DeliveryStep
<1>4. \A e \in owed : allowed
  BY DEF StagedInv, OwedOn
<1> QED  BY <1>1, <1>2, <1>3, <1>4, OthersStaged DEF Moved, RowsStay

LEMMA ClaimStaged ==
    ASSUME TypeInv, StagedInv, NEW e \in Endpoints, NEW v \in Events, NEW w \in Workers,
           Claim(w, e, v)
    PROVE  StagedInv'
<1>1. UNCHANGED <<slot, endpoint, born, allowed, owed>> /\ owed \subseteq Endpoints
  BY DEF Claim, TypeInv, TypeOK
<1>2. RowsStay
  BY <1>1, ClaimTyped DEF RowsStay, OneRow
<1>3. \A x \in Workers : work'[x] = work[x] \/ work'[x].pc \in DeliverySteps
  BY ClaimTyped DEF Claimed, DeliverySteps
<1>4. \A d \in owed : allowed
  BY DEF StagedInv, OwedOn
<1> QED  BY <1>1, <1>2, <1>3, <1>4, OthersStaged

LEMMA OwnerStaged ==
    ASSUME TypeInv, StagedInv, NEW e \in Endpoints, Create(e) \/ Pause(e) \/ Resume(e) \/ Delete(e)
    PROVE  StagedInv'
<1>1. owed \subseteq Endpoints /\ \A d \in owed : allowed /\ endpoint[d] = "on"
  BY DEF TypeInv, TypeOK, StagedInv, OwedOn, On
<1>2. /\ UNCHANGED <<slot, allowed, work>>
      /\ \A d \in Endpoints : d # e =>
            row'[d] = row[d] /\ endpoint'[d] = endpoint[d] /\ born'[d] = born[d]
  BY OwnerDoes
<1>3. owed' \subseteq owed /\ e \notin owed'
  <2>1. CASE Create(e) \/ Resume(e)
    <3>1. endpoint[e] # "on" /\ owed' = owed
      BY <2>1, OwnerDoes
    <3> QED  BY <1>1, <3>1
  <2>2. CASE Pause(e) \/ Delete(e)
    <3>1. owed' = owed \ {e}
      BY <2>2, OwnerDoes
    <3> QED  BY <3>1
  <2> QED  BY <2>1, <2>2
<1>4. born'[e] = born[e] \/ born'[e] = slot.version
  BY OwnerDoes
<1>5. RowsStay
  BY <1>1, <1>2, <1>3 DEF RowsStay
<1> QED  BY <1>1, <1>2, <1>3, <1>4, <1>5, OthersStaged

LEMMA PermitStaged ==
    ASSUME TypeInv, StagedInv, Permit
    PROVE  StagedInv'
<1>1. owed' = {}
  BY DEF Permit, StagedInv, OwedOn
<1> QED  BY <1>1, OthersStaged DEF Permit, RowsStay

LEMMA NextStaged == TypeInv /\ StagedInv /\ [Next]_vars => StagedInv'
<1> SUFFICES ASSUME TypeInv, StagedInv, [Next]_vars  PROVE StagedInv'
  OBVIOUS
<1>1. ASSUME NEW w \in Workers, DrainRead(w) \/ DrainStep(w) \/ DrainFails(w)
      PROVE  StagedInv'
  BY <1>1, DrainReadStaged, DrainFindStaged, DrainUpsertStaged, DrainAckStaged,
     DrainFailsStaged
  DEF DrainStep
<1>2. ASSUME NEW e \in Endpoints, NEW v \in Events,
             BecomeDue(e, v) \/ LeaseLapses(e, v) \/ RequestRetry(e, v)
      PROVE  StagedInv'
  <2>1. UNCHANGED <<slot, endpoint, born, allowed, owed, work>> /\ owed \subseteq Endpoints
    BY <1>2 DEF BecomeDue, LeaseLapses, RequestRetry, TypeInv, TypeOK
  <2>2. RowsStay
    BY <1>2, <2>1, BecomeDueDoes, LeaseLapsesDoes, RequestRetryDoes DEF OneRow, RowsStay
  <2>3. \A d \in owed : allowed
    BY DEF StagedInv, OwedOn
  <2> QED  BY <2>1, <2>2, <2>3, OthersStaged
<1>3. CASE UNCHANGED vars
  BY <1>3 DEF vars, StagedInv, OwedOn, BornBefore, SeenBefore, DrainMissesNone,
              StagedBeforeAck, On, At
<1> QED
  BY <1>1, <1>2, <1>3, StageStaged, DeliveryStaged, ClaimStaged, OwnerStaged, PermitStaged
  DEF Next

\* The slot is acknowledged only when every endpoint that was on when its event was
\* staged, and has been since, has a delivery: for any interleaving of drains, stops,
\* failed statements and status changes.
THEOREM WebhookStagedBeforeAck == Spec => []StagedBeforeAck
<1>1. StagedInv => StagedBeforeAck
  BY DEF StagedInv
<1> QED  BY <1>1, TypeInvariant, InitStaged, NextStaged, PTL DEF Spec

------------------------------------------------------------------------------
(* What is shown as delivered was accepted *)

\* A worker that is about to write "delivered" has had the endpoint's answer.
AnswerSeen ==
    \A w \in Workers : At(w, "ok") => received[work[w].job.endpoint][work[w].job.event] > 0

ReceivedInv == DeliveredWasReceived /\ AnswerSeen

LEMMA InitReceived == Init => ReceivedInv
BY DEF Init, ReceivedInv, DeliveredWasReceived, AnswerSeen, Absent, Resting, At

NoDelivered ==
    \A e \in Endpoints, v \in Events :
        row'[e][v].status = "delivered" => row[e][v].status = "delivered"
NoAnswer ==
    \A w \in Workers : work'[w].pc = "ok" => work[w].pc = "ok" /\ work'[w].job = work[w].job

\* Steps that neither write "delivered" nor receive an answer.
LEMMA QuietReceived ==
    ASSUME TypeInv, ReceivedInv, UNCHANGED received, NoDelivered, NoAnswer
    PROVE  ReceivedInv'
<1>1. DeliveredWasReceived'
  BY DEF ReceivedInv, DeliveredWasReceived, NoDelivered
<1>2. AnswerSeen'
  BY DEF ReceivedInv, AnswerSeen, NoAnswer, At
<1> QED  BY <1>1, <1>2 DEF ReceivedInv

LEMMA DrainReceived ==
    ASSUME TypeInv, ReceivedInv, NEW w \in Workers,
           DrainRead(w) \/ DrainStep(w) \/ DrainFails(w)
    PROVE  ReceivedInv'
<1>1. UNCHANGED received
  BY DEF DrainRead, DrainStep, DrainFind, DrainUpsert, DrainAck, DrainFails
<1>2. NoDelivered
  <2>1. ASSUME NEW S \in SUBSET work[w].targets, work[w].pc \in DrainSteps,
               Upsert(S, work[w].seen.event)
        PROVE  NoDelivered
    <3>1. S \in SUBSET Endpoints /\ work[w].seen.event \in Events
      BY <2>1 DEF TypeInv, TypeOK, Works, Placed
    <3>2. Fresh.status = "pending"
      BY DEF Fresh, Absent
    <3> QED  BY ZenonT(30), <2>1, <3>1, <3>2, CountersGrow, UpsertDoes DEF NoDelivered
  <2>2. CASE UNCHANGED row
    BY <2>2 DEF NoDelivered
  <2> QED
    BY <2>1, <2>2
    DEF DrainRead, DrainStep, DrainFind, DrainUpsert, DrainAck, DrainFails, At, DrainSteps
<1>3. NoAnswer
  <2>1. CASE DrainRead(w)
    BY <2>1 DEF NoAnswer, DrainRead, TypeInv, TypeOK, Works
  <2>2. CASE DrainFind(w)
    BY <2>2, DrainFindTyped DEF NoAnswer, DrainSteps
  <2>3. CASE DrainUpsert(w)
    <3>1. Goto(w, "ack") /\ "ack" \in DrainSteps
      BY <2>3 DEF DrainUpsert, DrainSteps
    <3>2. work'[w].pc = "ack" /\ \A x \in Workers : x # w => work'[x] = work[x]
      BY <3>1, CountersGrow, GotoDoes
    <3> QED  BY <3>2 DEF NoAnswer
  <2>4. CASE DrainAck(w) \/ DrainFails(w)
    BY <2>4, CountersGrow, RestDoes DEF NoAnswer, DrainAck, DrainFails
  <2> QED  BY <2>1, <2>2, <2>3, <2>4 DEF DrainStep
<1> QED  BY <1>1, <1>2, <1>3, QuietReceived

\* A step of a delivery other than an accepted post and the write of "delivered".
LEMMA FailingReceived ==
    ASSUME TypeInv, ReceivedInv, NEW w \in Workers,
           Look(w) \/ Forbidden(w) \/ SaveFailed(w) \/ Stop(w)
    PROVE  ReceivedInv'
<1>1. UNCHANGED received
  BY DEF Look, Forbidden, SaveFailed, Stop
<1>2. NoDelivered
  <2>1. ASSUME NEW r, r.status = "failed", Updated(w, r)
        PROVE  NoDelivered
    BY <2>1 DEF Updated, NoDelivered
  <2>2. CASE UNCHANGED row
    BY <2>2 DEF NoDelivered
  <2>3. CASE Look(w)
    BY <2>1, <2>2, <2>3, LookDoes
  <2>4. CASE Forbidden(w)
    BY <2>1, <2>4, ForbiddenDoes
  <2>5. CASE SaveFailed(w)
    BY <2>1, <2>2, <2>5, SaveFailedDoes
  <2>6. CASE Stop(w)
    BY <2>2, <2>6, StopDoes
  <2> QED  BY <2>3, <2>4, <2>5, <2>6
<1>3. Moved(w) /\ work'[w].pc # "ok"
  BY LookDoes, ForbiddenDoes, SaveFailedDoes, StopDoes
<1>4. NoAnswer
  BY <1>3 DEF Moved, NoAnswer
<1> QED  BY <1>1, <1>2, <1>4, QuietReceived

\* An accepted post counts before the answer is looked at.
LEMMA SendReceived ==
    ASSUME TypeInv, ReceivedInv, NEW w \in Workers, Send(w)
    PROVE  ReceivedInv'
<1> DEFINE e == work[w].job.endpoint
           v == work[w].job.event
<1>1. e \in Endpoints /\ v \in Events /\ work[w].pc \in DeliverySteps
  BY SendDoes, JobTyped
<1>2. Moved(w) /\ UNCHANGED row
  BY SendDoes
<1>3. CASE Accepted(w)
  <2>1. /\ \A d \in Endpoints, u \in Events :
              received[d][u] \in Nat /\ received'[d][u] \in Nat
              /\ received'[d][u] >= received[d][u]
        /\ received'[e][v] > 0
    BY <1>1, <1>3, AcceptedDoes DEF TypeInv, TypeOK
  <2> HIDE DEF e, v
  <2>2. DeliveredWasReceived'
    BY <1>2, <2>1 DEF ReceivedInv, DeliveredWasReceived
  <2>3. AnswerSeen'
    <3> SUFFICES ASSUME NEW x \in Workers, work'[x].pc = "ok"
                 PROVE  received'[work'[x].job.endpoint][work'[x].job.event] > 0
      BY DEF AnswerSeen, At
    <3>1. CASE x = w
      BY <1>2, <2>1, <3>1 DEF Moved, e, v
    <3>2. CASE x # w
      <4>1. work'[x] = work[x]
        BY <1>2, <3>2 DEF Moved
      <4>2. work[x].job.endpoint \in Endpoints /\ work[x].job.event \in Events
        BY <4>1 DEF TypeInv, Placed, DeliverySteps
      <4> QED  BY <2>1, <4>1, <4>2 DEF ReceivedInv, AnswerSeen, At
    <3> QED  BY <3>1, <3>2
  <2> QED  BY <2>2, <2>3 DEF ReceivedInv
<1>4. CASE UNCHANGED received /\ work'[w].pc = "bad"
  <2>1. NoAnswer /\ NoDelivered
    BY <1>2, <1>4 DEF Moved, NoAnswer, NoDelivered
  <2> QED  BY <1>4, <2>1, QuietReceived
<1> QED  BY <1>3, <1>4, SendDoes

LEMMA SaveReceived ==
    ASSUME TypeInv, ReceivedInv, NEW w \in Workers, SaveDelivered(w)
    PROVE  ReceivedInv'
<1>1. UNCHANGED received /\ Moved(w) /\ work[w].pc = "ok" /\ work'[w].pc # "ok"
  BY SaveDeliveredDoes DEF SaveDelivered
<1>2. AnswerSeen'
  BY <1>1 DEF Moved, ReceivedInv, AnswerSeen, At
<1>3. UNCHANGED row \/ Updated(w, Delivered(w))
  BY SaveDeliveredDoes
<1>4. DeliveredWasReceived'
  BY <1>1, <1>3 DEF Updated, ReceivedInv, DeliveredWasReceived, AnswerSeen, At
<1> QED  BY <1>2, <1>4 DEF ReceivedInv

LEMMA ClaimReceived ==
    ASSUME TypeInv, ReceivedInv, NEW w \in Workers, NEW e \in Endpoints, NEW v \in Events,
           Claim(w, e, v)
    PROVE  ReceivedInv'
<1>1. NoDelivered
  BY ClaimTyped DEF OneRow, NoDelivered
<1>2. NoAnswer
  BY ClaimTyped DEF Claimed, NoAnswer
<1> QED  BY <1>1, <1>2, QuietReceived DEF Claim

LEMMA OwnerReceived ==
    ASSUME TypeInv, ReceivedInv, NEW e \in Endpoints,
           Create(e) \/ Pause(e) \/ Resume(e) \/ Delete(e)
    PROVE  ReceivedInv'
<1>1. UNCHANGED <<work, received>>
      /\ \A d \in Endpoints : d # e => row'[d] = row[d]
  BY OwnerDoes
<1>2. row' = row \/ \A v \in Events : row'[e][v] = Absent
  BY OwnerDoes
<1>3. NoDelivered
  BY <1>1, <1>2 DEF NoDelivered, Absent
<1>4. NoAnswer
  BY <1>1 DEF NoAnswer
<1> QED  BY <1>1, <1>3, <1>4, QuietReceived

LEMMA NextReceived == TypeInv /\ ReceivedInv /\ [Next]_vars => ReceivedInv'
<1> SUFFICES ASSUME TypeInv, ReceivedInv, [Next]_vars  PROVE ReceivedInv'
  OBVIOUS
<1>1. ASSUME NEW w \in Workers, DeliveryStep(w) \/ Stop(w)
      PROVE  ReceivedInv'
  BY <1>1, FailingReceived, SendReceived, SaveReceived DEF DeliveryStep
<1>2. CASE Permit \/ UNCHANGED vars \/ \E v \in Events : Stage(v)
  <2>1. UNCHANGED <<row, work, received>>
    BY <1>2 DEF Permit, Stage, vars
  <2> QED  BY <2>1, QuietReceived DEF NoDelivered, NoAnswer
<1>3. ASSUME NEW e \in Endpoints, NEW v \in Events,
             BecomeDue(e, v) \/ LeaseLapses(e, v) \/ RequestRetry(e, v)
      PROVE  ReceivedInv'
  <2>1. UNCHANGED <<work, received>>
    BY <1>3 DEF BecomeDue, LeaseLapses, RequestRetry
  <2>2. OneRow(e, v) /\ row'[e][v].status # "delivered"
    BY <1>3, BecomeDueDoes, LeaseLapsesDoes, RequestRetryDoes
  <2> QED  BY <2>1, <2>2, QuietReceived DEF NoDelivered, NoAnswer, OneRow
<1> QED  BY <1>1, <1>2, <1>3, DrainReceived, ClaimReceived, OwnerReceived DEF Next

\* What is shown to the owner as delivered was accepted by the endpoint
\* (services/merchantWebhookService.js writes "delivered" after the answer only).
THEOREM WebhookDeliveredWasReceived == Spec => []DeliveredWasReceived
<1>1. TypeInv /\ ReceivedInv /\ [Next]_vars => ReceivedInv'
  BY NextReceived
<1>2. ReceivedInv => DeliveredWasReceived
  BY DEF ReceivedInv
<1> QED  BY <1>1, <1>2, InitReceived, TypeInvariant, PTL DEF Spec

------------------------------------------------------------------------------
(* What is delivered is at rest *)

StaysDelivered(e, v) ==
    row[e][v].status = "delivered" /\ ~WorkedOn(e, v) =>
        row'[e][v].status \in {"delivered", "absent"}
AtRest == \A e \in Endpoints, v \in Events : StaysDelivered(e, v)

LEMMA DrainRests ==
    ASSUME TypeInv, NEW w \in Workers, DrainRead(w) \/ DrainStep(w) \/ DrainFails(w)
    PROVE  AtRest
<1>1. ASSUME NEW S \in SUBSET work[w].targets, work[w].pc \in DrainSteps,
             Upsert(S, work[w].seen.event)
      PROVE  AtRest
  <2>1. S \in SUBSET Endpoints /\ work[w].seen.event \in Events
    BY <1>1 DEF TypeInv, TypeOK, Works, Placed
  <2> QED  BY <1>1, <2>1, CountersGrow, UpsertDoes DEF AtRest, StaysDelivered
<1>2. CASE UNCHANGED row
  BY <1>2 DEF AtRest, StaysDelivered
<1> QED
  BY <1>1, <1>2
  DEF DrainRead, DrainStep, DrainFind, DrainUpsert, DrainAck, DrainFails, At, DrainSteps

\* A worker writes the delivery it has claimed, and that one only.
LEMMA DeliveryRests ==
    ASSUME TypeInv, NEW w \in Workers, DeliveryStep(w) \/ Stop(w)
    PROVE  AtRest
<1>1. ASSUME NEW r, Updated(w, r), work[w].pc \in DeliverySteps
      PROVE  AtRest
  <2> SUFFICES ASSUME NEW e \in Endpoints, NEW v \in Events, ~WorkedOn(e, v),
                      row[e][v].status = "delivered"
               PROVE  row'[e][v].status \in {"delivered", "absent"}
    BY DEF AtRest, StaysDelivered
  <2>1. work[w].job # [endpoint |-> e, event |-> v]
    BY <1>1 DEF WorkedOn
  <2>2. ~(e = work[w].job.endpoint /\ v = work[w].job.event)
    BY <1>1, <2>1, JobTyped
  <2> QED  BY <1>1, <2>2 DEF Updated
<1>2. CASE UNCHANGED row
  BY <1>2 DEF AtRest, StaysDelivered
<1>3. CASE Look(w)
  BY <1>1, <1>2, <1>3, LookDoes DEF DeliverySteps
<1>4. CASE Forbidden(w)
  BY <1>1, <1>4, ForbiddenDoes DEF DeliverySteps
<1>5. CASE Send(w) \/ Stop(w)
  BY <1>2, <1>5, SendDoes, StopDoes
<1>6. CASE SaveDelivered(w)
  BY <1>1, <1>2, <1>6, SaveDeliveredDoes DEF DeliverySteps
<1>7. CASE SaveFailed(w)
  BY <1>1, <1>2, <1>7, SaveFailedDoes DEF DeliverySteps
<1> QED  BY <1>3, <1>4, <1>5, <1>6, <1>7 DEF DeliveryStep

LEMMA OneRowRests ==
    ASSUME TypeInv, NEW e \in Endpoints, NEW v \in Events, OneRow(e, v),
           row[e][v].status # "delivered"
    PROVE  AtRest
BY DEF OneRow, AtRest, StaysDelivered

LEMMA OwnerRests ==
    ASSUME TypeInv, NEW e \in Endpoints, Create(e) \/ Pause(e) \/ Resume(e) \/ Delete(e)
    PROVE  AtRest
<1>1. \A d \in Endpoints : d # e => row'[d] = row[d]
  BY OwnerDoes
<1>2. row' = row \/ \A v \in Events : row'[e][v] = Absent
  BY OwnerDoes
<1> QED  BY <1>1, <1>2 DEF AtRest, StaysDelivered, Absent

LEMMA NextRests == TypeInv /\ [Next]_vars => AtRest
<1> SUFFICES ASSUME TypeInv, [Next]_vars  PROVE AtRest
  OBVIOUS
<1>1. CASE Permit \/ UNCHANGED vars \/ \E v \in Events : Stage(v)
  <2>1. UNCHANGED row
    BY <1>1 DEF Permit, Stage, vars
  <2> QED  BY <2>1 DEF AtRest, StaysDelivered
<1>2. ASSUME NEW w \in Workers, NEW e \in Endpoints, NEW v \in Events, Claim(w, e, v)
      PROVE  AtRest
  <2>1. row[e][v].status # "delivered"
    BY <1>2 DEF Claim, Due
  <2> QED  BY <1>2, <2>1, ClaimTyped, OneRowRests
<1>3. ASSUME NEW e \in Endpoints, NEW v \in Events,
             BecomeDue(e, v) \/ LeaseLapses(e, v) \/ RequestRetry(e, v)
      PROVE  AtRest
  <2>1. OneRow(e, v) /\ row[e][v].status # "delivered"
    BY <1>3, BecomeDueDoes, LeaseLapsesDoes, RequestRetryDoes
  <2> QED  BY <2>1, OneRowRests
<1> QED  BY <1>1, <1>2, <1>3, DrainRests, DeliveryRests, OwnerRests DEF Next

\* No step but a late worker's that holds it too, or the endpoint's deletion, takes a
\* delivered event back: not a claim, not a request for a retry, not a later drain.
THEOREM WebhookDeliveredRests == Spec => DeliveredRests
<1>1. TypeInv /\ [Next]_vars =>
          [\A e \in Endpoints, v \in Events :
              row[e][v].status = "delivered" /\ ~WorkedOn(e, v) =>
                  row'[e][v].status \in {"delivered", "absent"}]_vars
  BY NextRests DEF AtRest, StaysDelivered
<1> QED  BY <1>1, TypeInvariant, PTL DEF Spec, DeliveredRests

------------------------------------------------------------------------------
(* Duplicates cost faults *)

Gone(e) == endpoint[e] \in {"deleting", "deleted"}

\* Until a delivery exists nothing of it has happened.
UntouchedAt(e, v) ==
    ~Gone(e) /\ row[e][v].status = "absent" => received[e][v] = 0 /\ ~WorkedOn(e, v)

\* The workers that may still post the event, or open its delivery again, and whether
\* the delivery may be claimed, now or once its lease lapses.
Sender(w, e, v) ==
    /\ work[w].job = [endpoint |-> e, event |-> v]
    /\ At(w, "send") \/ (work[w].pc \in {"look", "bad"} /\ ~Gone(e))
Senders(e, v) == {w \in Workers : Sender(w, e, v)}
Open(e, v) ==
    /\ ~Gone(e)
    /\ \/ row[e][v].status \in {"pending", "failed"}
       \/ row[e][v].status = "sending" /\ (row[e][v].lease = "lapsed" \/ ~WorkedOn(e, v))
Chance(e, v) == IF Open(e, v) THEN 1 ELSE 0

\* Every request accepted, and every one that may yet be, is the first or a fault's.
CountedAt(e, v) ==
    received[e][v] + Cardinality(Senders(e, v)) + Chance(e, v) <= 1 + faults

CountInv == \A e \in Endpoints, v \in Events : UntouchedAt(e, v) /\ CountedAt(e, v)

LEMMA InitCounted == Init => CountInv
<1> SUFFICES ASSUME Init, NEW e \in Endpoints, NEW v \in Events
             PROVE  UntouchedAt(e, v) /\ CountedAt(e, v)
  BY DEF CountInv
<1>1. /\ received[e][v] = 0 /\ faults = 0 /\ row[e][v].status = "absent"
      /\ \A w \in Workers : work[w].pc = "idle"
  BY DEF Init, Absent, Resting
<1>2. Senders(e, v) = {} /\ ~WorkedOn(e, v) /\ ~Open(e, v)
  BY <1>1 DEF Senders, Sender, WorkedOn, Open, At, DeliverySteps
<1>3. Cardinality(Senders(e, v)) = 0
  BY <1>2, FS_EmptySet
<1> QED  BY <1>1, <1>2, <1>3 DEF UntouchedAt, CountedAt, Chance

\* What a step can do to the number of senders.
LEMMA SendersCounted ==
    ASSUME NEW e, NEW v
    PROVE  /\ Cardinality(Senders(e, v)) \in Nat /\ Cardinality(Senders(e, v)') \in Nat
           /\ Senders(e, v)' \subseteq Senders(e, v) =>
                 Cardinality(Senders(e, v)') <= Cardinality(Senders(e, v))
           /\ \A w \in Senders(e, v) : Senders(e, v)' \subseteq Senders(e, v) \ {w} =>
                 Cardinality(Senders(e, v)') + 1 <= Cardinality(Senders(e, v))
           /\ \A w \in Workers : Senders(e, v)' \subseteq Senders(e, v) \cup {w} =>
                 Cardinality(Senders(e, v)') <= Cardinality(Senders(e, v)) + 1
<1> DEFINE S == Senders(e, v)
           T == Senders(e, v)'
<1>1. S \subseteq Workers /\ T \subseteq Workers
  BY DEF Senders
<1> HIDE DEF S, T
<1>2. IsFiniteSet(S) /\ IsFiniteSet(T)
  BY <1>1, WorkersAssumption, FS_Subset
<1>3. Cardinality(S) \in Nat /\ Cardinality(T) \in Nat
  BY <1>2, FS_CardinalityType
<1>4. T \subseteq S => Cardinality(T) <= Cardinality(S)
  BY <1>2, FS_Subset
<1>5. ASSUME NEW w \in S, T \subseteq S \ {w}
      PROVE  Cardinality(T) + 1 <= Cardinality(S)
  <2>1. IsFiniteSet(S \ {w}) /\ Cardinality(S \ {w}) = Cardinality(S) - 1
    BY <1>2, FS_RemoveElement
  <2>2. Cardinality(T) <= Cardinality(S \ {w})
    BY <1>5, <2>1, FS_Subset
  <2> QED  BY <1>3, <2>1, <2>2
<1>6. ASSUME NEW w \in Workers, T \subseteq S \cup {w}
      PROVE  Cardinality(T) <= Cardinality(S) + 1
  <2>1. IsFiniteSet(S \cup {w}) /\ Cardinality(S \cup {w}) \in {Cardinality(S), Cardinality(S) + 1}
    BY <1>2, FS_AddElement
  <2>2. Cardinality(T) <= Cardinality(S \cup {w})
    BY <1>6, <2>1, FS_Subset
  <2> QED  BY <1>3, <2>1, <2>2
<1> QED  BY <1>3, <1>4, <1>5, <1>6 DEF S, T

\* A step after which no more may come than before, and one that costs a fault.
LEMMA CalmCounted ==
    ASSUME TypeInv, TypeInv', NEW e \in Endpoints, NEW v \in Events, CountedAt(e, v),
           received'[e][v] = received[e][v], faults <= faults',
           Senders(e, v)' \subseteq Senders(e, v),
           (Open(e, v)' => Open(e, v)) \/ faults' = faults + 1
    PROVE  CountedAt(e, v)'
<1>1. received[e][v] \in Nat /\ faults \in Nat /\ faults' \in Nat
  BY DEF TypeInv, TypeOK
<1>2. /\ Cardinality(Senders(e, v)) \in Nat /\ Cardinality(Senders(e, v)') \in Nat
      /\ Cardinality(Senders(e, v)') <= Cardinality(Senders(e, v))
  BY SendersCounted
<1>3. /\ Chance(e, v) \in {0, 1} /\ Chance(e, v)' \in {0, 1}
      /\ Chance(e, v)' <= Chance(e, v) \/ faults' = faults + 1
  BY DEF Chance
<1> QED  BY <1>1, <1>2, <1>3 DEF CountedAt

\* A sender that stops being one leaves room for one more chance or request.
LEMMA SenderLeaves ==
    ASSUME TypeInv, TypeInv', NEW e \in Endpoints, NEW v \in Events, CountedAt(e, v),
           NEW w \in Senders(e, v), Senders(e, v)' \subseteq Senders(e, v) \ {w},
           faults <= faults',
           \/ received'[e][v] = received[e][v]
           \/ received'[e][v] = received[e][v] + 1 /\ (Open(e, v)' => Open(e, v))
    PROVE  CountedAt(e, v)'
<1>1. received[e][v] \in Nat /\ faults \in Nat /\ faults' \in Nat
  BY DEF TypeInv, TypeOK
<1>2. /\ Cardinality(Senders(e, v)) \in Nat /\ Cardinality(Senders(e, v)') \in Nat
      /\ Cardinality(Senders(e, v)') + 1 <= Cardinality(Senders(e, v))
  BY SendersCounted
<1>3. /\ Chance(e, v) \in {0, 1} /\ Chance(e, v)' \in {0, 1}
      /\ received'[e][v] = received[e][v] \/ Chance(e, v)' <= Chance(e, v)
  BY DEF Chance
<1> QED  BY <1>1, <1>2, <1>3 DEF CountedAt

\* A worker becomes a sender: of a delivery that was open, or by a fault.
LEMMA SenderJoins ==
    ASSUME TypeInv, TypeInv', NEW e \in Endpoints, NEW v \in Events, CountedAt(e, v),
           NEW w \in Workers, Senders(e, v)' \subseteq Senders(e, v) \cup {w},
           received'[e][v] = received[e][v],
           \/ faults' = faults /\ Open(e, v) /\ ~Open(e, v)'
           \/ faults' = faults + 1 /\ (Open(e, v)' => Open(e, v))
    PROVE  CountedAt(e, v)'
<1>1. received[e][v] \in Nat /\ faults \in Nat /\ faults' \in Nat
  BY DEF TypeInv, TypeOK
<1>2. /\ Cardinality(Senders(e, v)) \in Nat /\ Cardinality(Senders(e, v)') \in Nat
      /\ Cardinality(Senders(e, v)') <= Cardinality(Senders(e, v)) + 1
  BY SendersCounted
<1>3. /\ Chance(e, v) \in {0, 1} /\ Chance(e, v)' \in {0, 1}
      /\ \/ faults' = faults /\ Chance(e, v) = 1 /\ Chance(e, v)' = 0
         \/ faults' = faults + 1 /\ Chance(e, v)' <= Chance(e, v)
  BY DEF Chance
<1> QED  BY <1>1, <1>2, <1>3 DEF CountedAt

Same(e, v) ==
    /\ Senders(e, v)' = Senders(e, v) /\ (WorkedOn(e, v)' <=> WorkedOn(e, v))
    /\ received'[e][v] = received[e][v]

\* A worker that is not at a delivery is no sender of it.
LEMMA ElsewhereSame ==
    ASSUME NEW w \in Workers, NEW e \in Endpoints, NEW v \in Events, UNCHANGED endpoint,
           \A x \in Workers : x # w => work'[x] = work[x],
           work[w].pc \notin DeliverySteps \/ work[w].job # [endpoint |-> e, event |-> v],
           work'[w].pc \notin DeliverySteps \/ work'[w].job # [endpoint |-> e, event |-> v],
           received'[e][v] = received[e][v]
    PROVE  Same(e, v)
<1>1. \A x \in Workers : Sender(x, e, v)' <=> Sender(x, e, v)
  BY DEF Sender, At, Gone, DeliverySteps
<1>2. Senders(e, v)' = Senders(e, v)
  BY <1>1 DEF Senders
<1>3. WorkedOn(e, v)' <=> WorkedOn(e, v)
  BY DEF WorkedOn
<1> QED  BY <1>2, <1>3 DEF Same

LEMMA PairSame ==
    ASSUME TypeInv, TypeInv', NEW e \in Endpoints, NEW v \in Events, Same(e, v),
           UntouchedAt(e, v), CountedAt(e, v), UNCHANGED endpoint, faults <= faults',
           row'[e][v] = row[e][v]
    PROVE  UntouchedAt(e, v)' /\ CountedAt(e, v)'
<1>1. Open(e, v)' => Open(e, v)
  BY DEF Open, Gone, Same
<1>2. CountedAt(e, v)'
  BY <1>1, CalmCounted DEF Same
<1> QED  BY <1>2 DEF UntouchedAt, Same, Gone

\* A drain makes a delivery where there is none.
LEMMA DrainCounted ==
    ASSUME TypeInv, TypeInv', CountInv, NEW w \in Workers,
           DrainRead(w) \/ DrainStep(w) \/ DrainFails(w)
    PROVE  CountInv'
<1>1. UNCHANGED <<received, endpoint>> /\ faults <= faults'
  BY CountersGrow DEF DrainRead, DrainStep, DrainFind, DrainUpsert, DrainAck, DrainFails
<1>2. /\ work[w].pc \notin DeliverySteps /\ work'[w].pc \notin DeliverySteps
      /\ \A x \in Workers : x # w => work'[x] = work[x]
  <2>1. CASE DrainRead(w)
    BY <2>1 DEF DrainRead, At, DeliverySteps, TypeInv, TypeOK, Works
  <2>2. CASE DrainFind(w)
    BY <2>2, DrainFindTyped DEF DrainFind, At, DrainSteps, DeliverySteps
  <2>3. CASE DrainUpsert(w)
    <3>1. Goto(w, "ack") /\ "ack" \in DrainSteps /\ work[w].pc = "upsert"
      BY <2>3 DEF DrainUpsert, DrainSteps, At
    <3>2. work'[w].pc = "ack" /\ \A x \in Workers : x # w => work'[x] = work[x]
      BY <3>1, CountersGrow, GotoDoes
    <3> QED  BY <3>1, <3>2 DEF DeliverySteps
  <2>4. CASE DrainAck(w) \/ DrainFails(w)
    <3>1. Rest(w) /\ work[w].pc \in DrainSteps
      BY <2>4 DEF DrainAck, DrainFails, At, DrainSteps
    <3>2. work'[w].pc = "idle" /\ \A x \in Workers : x # w => work'[x] = work[x]
      BY <3>1, CountersGrow, RestDoes
    <3> QED  BY <3>1, <3>2 DEF DeliverySteps, DrainSteps
  <2> QED  BY <2>1, <2>2, <2>3, <2>4 DEF DrainStep
<1>3. \A e \in Endpoints, v \in Events :
          row'[e][v] = row[e][v] \/ (row[e][v].status = "absent" /\ row'[e][v] = Fresh)
  <2>1. CASE UNCHANGED row
    BY <2>1
  <2>2. ASSUME NEW S \in SUBSET work[w].targets, work[w].pc \in DrainSteps,
               Upsert(S, work[w].seen.event)
        PROVE  \A e \in Endpoints, v \in Events :
                   row'[e][v] = row[e][v] \/ (row[e][v].status = "absent" /\ row'[e][v] = Fresh)
    <3>1. S \in SUBSET Endpoints /\ work[w].seen.event \in Events
      BY <2>2 DEF TypeInv, TypeOK, Works, Placed
    <3> QED  BY <2>2, <3>1, CountersGrow, UpsertDoes
  <2> QED
    BY <2>1, <2>2
    DEF DrainRead, DrainStep, DrainFind, DrainUpsert, DrainAck, DrainFails, At, DrainSteps
<1> SUFFICES ASSUME NEW e \in Endpoints, NEW v \in Events
             PROVE  UntouchedAt(e, v)' /\ CountedAt(e, v)'
  BY DEF CountInv
<1>4. UntouchedAt(e, v) /\ CountedAt(e, v)
  BY DEF CountInv
<1>5. Same(e, v)
  BY <1>1, <1>2, ElsewhereSame
<1>6. CASE row'[e][v] = row[e][v]
  BY <1>1, <1>4, <1>5, <1>6, PairSame
<1>7. CASE row[e][v].status = "absent" /\ row'[e][v] = Fresh
  <2>1. UntouchedAt(e, v)'
    BY <1>7 DEF UntouchedAt, Fresh, Absent
  <2>2. CASE Gone(e)
    BY <1>1, <1>4, <1>5, <2>1, <2>2, CalmCounted DEF Gone, Open, Same
  <2>3. CASE ~Gone(e)
    <3>1. received'[e][v] = 0 /\ ~WorkedOn(e, v)
      BY <1>1, <1>4, <1>7, <2>3 DEF UntouchedAt
    <3>2. Senders(e, v)' = {}
      BY <1>5, <3>1 DEF Same, Senders, Sender, WorkedOn, At, DeliverySteps
    <3>3. Cardinality(Senders(e, v)') = 0
      BY <3>2, FS_EmptySet
    <3>4. faults' \in Nat
      BY DEF TypeInv, TypeOK
    <3> QED  BY <2>1, <3>1, <3>3, <3>4 DEF CountedAt, Chance
  <2> QED  BY <2>2, <2>3
<1> QED  BY <1>3, <1>6, <1>7

LEMMA ClaimCounted ==
    ASSUME TypeInv, TypeInv', CountInv, NEW w \in Workers, NEW d \in Endpoints, NEW u \in Events,
           Claim(w, d, u)
    PROVE  CountInv'
<1>1. UNCHANGED <<received, endpoint, faults>>
  BY DEF Claim
<1>2. /\ OneRow(d, u) /\ Claimed(w, d, u)
      /\ row'[d][u].status = "sending" /\ row'[d][u].lease = "held"
  BY ClaimTyped
<1>3. faults \in Nat
  BY DEF TypeInv, TypeOK
<1> SUFFICES ASSUME NEW e \in Endpoints, NEW v \in Events
             PROVE  UntouchedAt(e, v)' /\ CountedAt(e, v)'
  BY DEF CountInv
<1>4. UntouchedAt(e, v) /\ CountedAt(e, v)
  BY DEF CountInv
<1>5. CASE ~(e = d /\ v = u)
  <2>1. [endpoint |-> e, event |-> v] # [endpoint |-> d, event |-> u]
    BY <1>5
  <2>2. row'[e][v] = row[e][v]
    BY <1>2, <1>5 DEF OneRow
  <2>3. Same(e, v)
    BY <1>1, <1>2, <2>1, ElsewhereSame DEF Claimed, DeliverySteps
  <2> QED  BY <1>1, <1>3, <1>4, <2>2, <2>3, PairSame
<1>6. CASE e = d /\ v = u
  <2>1. UntouchedAt(e, v)'
    BY <1>2, <1>6 DEF UntouchedAt
  <2>2. WorkedOn(e, v)'
    BY <1>2, <1>6 DEF WorkedOn, Claimed, DeliverySteps
  <2>3. ~Open(e, v)'
    BY <1>2, <1>6, <2>2 DEF Open
  <2>4. \A x \in Workers : x # w => (Sender(x, e, v)' <=> Sender(x, e, v))
    BY <1>1, <1>2 DEF Sender, At, Gone, Claimed
  <2>5. CASE Gone(e)
    <3>1. ~Sender(w, e, v)'
      BY <1>1, <1>2, <2>5 DEF Sender, At, Gone, Claimed
    <3>2. Senders(e, v)' \subseteq Senders(e, v)
      BY <2>4, <3>1 DEF Senders
    <3> QED  BY <1>1, <1>3, <1>4, <2>1, <2>3, <3>2, CalmCounted
  <2>6. CASE ~Gone(e)
    <3>1. Open(e, v)
      BY <1>6, <2>6 DEF Open, Claim, Due
    <3>2. Senders(e, v)' \subseteq Senders(e, v) \cup {w}
      BY <2>4 DEF Senders
    <3> QED  BY <1>1, <1>4, <2>1, <2>3, <3>1, <3>2, SenderJoins
  <2> QED  BY <2>5, <2>6
<1> QED  BY <1>5, <1>6

\* A step of the worker that holds this delivery: the other workers' part is as before.
LEMMA HolderCounted ==
    ASSUME TypeInv, NEW w \in Workers, NEW e \in Endpoints, NEW v \in Events,
           work[w].pc \in DeliverySteps, work[w].job = [endpoint |-> e, event |-> v],
           Moved(w), UNCHANGED endpoint
    PROVE  /\ WorkedOn(e, v)
           /\ work'[w].pc # "idle" => WorkedOn(e, v)'
           /\ Senders(e, v)' \subseteq Senders(e, v) \cup {w}
           /\ work'[w].pc \in {"idle", "ok"} => Senders(e, v)' \subseteq Senders(e, v) \ {w}
           /\ work[w].pc = "send" \/ (work[w].pc \in {"look", "bad"} /\ ~Gone(e)) =>
                 w \in Senders(e, v)
<1>1. WorkedOn(e, v)
  BY DEF WorkedOn
<1>2. work'[w].pc # "idle" => WorkedOn(e, v)'
  BY DEF WorkedOn, Moved
<1>3. \A x \in Workers : x # w => (Sender(x, e, v)' <=> Sender(x, e, v))
  BY DEF Sender, At, Gone, Moved
<1>4. work'[w].pc \in {"idle", "ok"} => ~Sender(w, e, v)'
  BY DEF Sender, At
<1>5. work[w].pc = "send" \/ (work[w].pc \in {"look", "bad"} /\ ~Gone(e)) => Sender(w, e, v)
  BY DEF Sender, At
<1> QED  BY <1>1, <1>2, <1>3, <1>4, <1>5 DEF Senders

\* Its delivery gets status s, if it is there; otherwise it stays as it is.
LEMMA HeldRow ==
    ASSUME TypeInv, NEW w \in Workers, NEW e \in Endpoints, NEW v \in Events, NEW r,
           r.status # "absent", UntouchedAt(e, v), UNCHANGED endpoint, WorkedOn(e, v),
           Updated(w, r) \/ row'[e][v] = row[e][v]
    PROVE  UntouchedAt(e, v)'
BY DEF UntouchedAt, Updated, Gone

LEMMA LookCounted ==
    ASSUME TypeInv, TypeInv', NEW w \in Workers, NEW e \in Endpoints, NEW v \in Events,
           UntouchedAt(e, v), CountedAt(e, v), Look(w),
           work[w].job = [endpoint |-> e, event |-> v]
    PROVE  UntouchedAt(e, v)' /\ CountedAt(e, v)'
<1>1. UNCHANGED <<received, endpoint, faults>> /\ faults \in Nat
  BY DEF Look, TypeInv, TypeOK
<1>2. Moved(w) /\ work[w].pc = "look" /\ work[w].pc \in DeliverySteps
  BY LookDoes DEF DeliverySteps
<1>3. CASE On(e) /\ work'[w].pc = "send" /\ UNCHANGED row
  <2>1. UntouchedAt(e, v)'
    BY <1>1, <1>2, <1>3, HolderCounted DEF UntouchedAt, Gone
  <2>2. ~Gone(e)
    BY <1>3 DEF On, Gone
  <2>3. WorkedOn(e, v) /\ WorkedOn(e, v)' /\ w \in Senders(e, v)
        /\ Senders(e, v)' \subseteq Senders(e, v) \cup {w}
    BY <1>1, <1>2, <1>3, <2>2, HolderCounted
  <2>4. Open(e, v)' => Open(e, v)
    BY <1>1, <1>3, <2>3 DEF Open, Gone
  <2> QED  BY <1>1, <2>1, <2>3, <2>4, CalmCounted
<1>4. CASE /\ ~On(e) /\ work'[w].pc = "idle"
           /\ Failed(w).status = "failed" /\ Updated(w, Failed(w))
  <2>1. WorkedOn(e, v) /\ Senders(e, v)' \subseteq Senders(e, v) \ {w}
    BY <1>1, <1>2, <1>4, HolderCounted
  <2>2. UntouchedAt(e, v)'
    BY <1>1, <1>4, <2>1, HeldRow
  <2>3. CASE Gone(e)
    BY <1>1, <2>1, <2>2, <2>3, CalmCounted DEF Open, Gone
  <2>4. CASE ~Gone(e)
    <3>1. w \in Senders(e, v)
      BY <1>1, <1>2, <2>4, HolderCounted
    <3> QED  BY <1>1, <2>1, <2>2, <3>1, SenderLeaves
  <2> QED  BY <2>3, <2>4
<1> QED  BY <1>3, <1>4, LookDoes

LEMMA ForbiddenCounted ==
    ASSUME TypeInv, TypeInv', NEW w \in Workers, NEW e \in Endpoints, NEW v \in Events,
           UntouchedAt(e, v), CountedAt(e, v), Forbidden(w),
           work[w].job = [endpoint |-> e, event |-> v]
    PROVE  UntouchedAt(e, v)' /\ CountedAt(e, v)'
<1>1. UNCHANGED <<received, endpoint, faults>> /\ faults \in Nat
  BY DEF Forbidden, TypeInv, TypeOK
<1>2. Moved(w) /\ work[w].pc = "send" /\ work'[w].pc = "idle" /\ work[w].pc \in DeliverySteps
  BY ForbiddenDoes DEF DeliverySteps
<1>3. /\ WorkedOn(e, v) /\ w \in Senders(e, v)
      /\ Senders(e, v)' \subseteq Senders(e, v) \ {w}
  BY <1>1, <1>2, HolderCounted
<1>4. UntouchedAt(e, v)'
  BY <1>1, <1>3, ForbiddenDoes, HeldRow
<1> QED  BY <1>1, <1>3, <1>4, SenderLeaves

LEMMA SendCounted ==
    ASSUME TypeInv, TypeInv', NEW w \in Workers, NEW e \in Endpoints, NEW v \in Events,
           UntouchedAt(e, v), CountedAt(e, v), Send(w),
           work[w].job = [endpoint |-> e, event |-> v]
    PROVE  UntouchedAt(e, v)' /\ CountedAt(e, v)'
<1>1. UNCHANGED <<endpoint, row>> /\ faults \in Nat /\ received[e][v] \in Nat
  BY DEF Send, TypeInv, TypeOK
<1>2. Moved(w) /\ work[w].pc = "send" /\ work[w].pc \in DeliverySteps /\ work'[w].pc # "idle"
  BY SendDoes
<1>3. /\ WorkedOn(e, v) /\ WorkedOn(e, v)' /\ w \in Senders(e, v)
      /\ Senders(e, v)' \subseteq Senders(e, v)
      /\ work'[w].pc = "ok" => Senders(e, v)' \subseteq Senders(e, v) \ {w}
  BY <1>1, <1>2, HolderCounted
<1>4. UntouchedAt(e, v)'
  BY <1>1, <1>3 DEF UntouchedAt, Gone
<1>5. Open(e, v)' => Open(e, v)
  BY <1>1, <1>3 DEF Open, Gone
<1>6. Accepted(w) => received'[e][v] = received[e][v] + 1
  BY <1>2, AcceptedDoes
<1>7. CASE Accepted(w) /\ work'[w].pc = "ok" /\ NoFault
  BY <1>1, <1>3, <1>4, <1>5, <1>6, <1>7, SenderLeaves DEF NoFault
<1>8. CASE Accepted(w) /\ Fault
  <2>1. faults' = faults + 1
    BY <1>8, CountersGrow
  <2>2. /\ Cardinality(Senders(e, v)) \in Nat /\ Cardinality(Senders(e, v)') \in Nat
        /\ Cardinality(Senders(e, v)') <= Cardinality(Senders(e, v))
    BY <1>3, SendersCounted
  <2>3. Chance(e, v) \in {0, 1} /\ Chance(e, v)' \in {0, 1} /\ Chance(e, v)' <= Chance(e, v)
    BY <1>5 DEF Chance
  <2>4. CountedAt(e, v)'
    BY <1>1, <1>6, <1>8, <2>1, <2>2, <2>3 DEF CountedAt
  <2> QED  BY <1>4, <2>4
<1>9. CASE UNCHANGED received /\ Fault
  <2>1. faults <= faults'
    BY <1>1, <1>9, CountersGrow
  <2> QED  BY <1>3, <1>4, <1>5, <1>9, <2>1, CalmCounted
<1> QED  BY <1>7, <1>8, <1>9, SendDoes

LEMMA SaveDeliveredCounted ==
    ASSUME TypeInv, TypeInv', NEW w \in Workers, NEW e \in Endpoints, NEW v \in Events,
           UntouchedAt(e, v), CountedAt(e, v), SaveDelivered(w),
           work[w].job = [endpoint |-> e, event |-> v]
    PROVE  UntouchedAt(e, v)' /\ CountedAt(e, v)'
<1>1. UNCHANGED <<endpoint, received>> /\ faults \in Nat
  BY DEF SaveDelivered, TypeInv, TypeOK
<1>2. Moved(w) /\ work[w].pc = "ok" /\ work[w].pc \in DeliverySteps
      /\ Delivered(w).status = "delivered"
  BY SaveDeliveredDoes DEF DeliverySteps
<1>3. /\ WorkedOn(e, v) /\ Senders(e, v)' \subseteq Senders(e, v) \cup {w}
      /\ work'[w].pc = "idle" => Senders(e, v)' \subseteq Senders(e, v) \ {w}
      /\ work'[w].pc # "idle" => WorkedOn(e, v)'
  BY <1>1, <1>2, HolderCounted
<1>4. UNCHANGED row \/ Updated(w, Delivered(w))
  BY SaveDeliveredDoes
<1>5. UntouchedAt(e, v)'
  BY <1>1, <1>2, <1>3, <1>4, HeldRow
<1>6. Updated(w, Delivered(w)) => ~Open(e, v)'
  BY <1>2 DEF Updated, Open
<1>7. UNCHANGED row /\ work'[w].pc # "idle" => (Open(e, v)' => Open(e, v))
  BY <1>1, <1>3 DEF Open, Gone
<1>8. Fault => faults' = faults + 1
  BY CountersGrow
<1>9. CASE Updated(w, Delivered(w)) /\ work'[w].pc = "idle" /\ NoFault
  BY <1>1, <1>3, <1>5, <1>6, <1>9, CalmCounted DEF NoFault
<1>10. CASE Fault /\ (Open(e, v)' => Open(e, v))
  BY <1>1, <1>3, <1>5, <1>8, <1>10, SenderJoins
<1> QED  BY <1>6, <1>7, <1>9, <1>10, SaveDeliveredDoes

LEMMA SaveFailedCounted ==
    ASSUME TypeInv, TypeInv', NEW w \in Workers, NEW e \in Endpoints, NEW v \in Events,
           UntouchedAt(e, v), CountedAt(e, v), SaveFailed(w),
           work[w].job = [endpoint |-> e, event |-> v]
    PROVE  UntouchedAt(e, v)' /\ CountedAt(e, v)'
<1>1. UNCHANGED <<endpoint, received>> /\ faults \in Nat
  BY DEF SaveFailed, TypeInv, TypeOK
<1>2. Moved(w) /\ work[w].pc = "bad" /\ work'[w].pc = "idle" /\ work[w].pc \in DeliverySteps
  BY SaveFailedDoes DEF DeliverySteps
<1>3. WorkedOn(e, v) /\ Senders(e, v)' \subseteq Senders(e, v) \ {w}
  BY <1>1, <1>2, HolderCounted
<1>4. UntouchedAt(e, v)'
  <2>1. ASSUME NEW r, r.status = "failed", Updated(w, r)
        PROVE  UntouchedAt(e, v)'
    BY <1>1, <1>3, <2>1, HeldRow
  <2>2. CASE UNCHANGED row
    BY <1>1, <1>3, <2>2 DEF UntouchedAt, Gone
  <2> QED  BY <2>1, <2>2, SaveFailedDoes
<1>5. CASE NoFault
  <2>1. CASE Gone(e)
    BY <1>1, <1>3, <1>4, <1>5, <2>1, CalmCounted DEF Open, Gone, NoFault
  <2>2. CASE ~Gone(e)
    <3>1. w \in Senders(e, v)
      BY <1>1, <1>2, <2>2, HolderCounted
    <3> QED  BY <1>1, <1>3, <1>4, <1>5, <3>1, SenderLeaves DEF NoFault
  <2> QED  BY <2>1, <2>2
<1>6. CASE Fault
  <2>1. faults' = faults + 1 /\ faults <= faults'
    BY <1>1, <1>6, CountersGrow
  <2> QED  BY <1>1, <1>3, <1>4, <2>1, CalmCounted
<1> QED  BY <1>5, <1>6, SaveFailedDoes

LEMMA DeliveryCounted ==
    ASSUME TypeInv, TypeInv', CountInv, NEW w \in Workers, DeliveryStep(w)
    PROVE  CountInv'
<1> SUFFICES ASSUME NEW e \in Endpoints, NEW v \in Events
             PROVE  UntouchedAt(e, v)' /\ CountedAt(e, v)'
  BY DEF CountInv
<1>1. UntouchedAt(e, v) /\ CountedAt(e, v)
  BY DEF CountInv
<1>2. CASE work[w].job = [endpoint |-> e, event |-> v]
  BY <1>1, <1>2, LookCounted, ForbiddenCounted, SendCounted, SaveDeliveredCounted,
     SaveFailedCounted
  DEF DeliveryStep
<1>3. CASE work[w].job # [endpoint |-> e, event |-> v]
  <2>1. Moved(w) /\ work[w].pc \in DeliverySteps
    BY LookDoes, ForbiddenDoes, SendDoes, SaveDeliveredDoes, SaveFailedDoes
    DEF DeliveryStep, DeliverySteps
  <2>2. ~(e = work[w].job.endpoint /\ v = work[w].job.event)
    BY <1>3, <2>1, JobTyped
  <2>3. UNCHANGED endpoint /\ faults <= faults'
    BY CountersGrow DEF DeliveryStep, Look, Forbidden, Send, SaveDelivered, SaveFailed
  <2>4. row'[e][v] = row[e][v]
    <3>1. ASSUME NEW r, Updated(w, r)
          PROVE  row'[e][v] = row[e][v]
      BY <2>2, <3>1 DEF Updated
    <3>2. CASE Look(w)
      BY <3>1, <3>2, LookDoes
    <3>3. CASE Forbidden(w)
      BY <3>1, <3>3, ForbiddenDoes
    <3>4. CASE Send(w)
      BY <3>4, SendDoes
    <3>5. CASE SaveDelivered(w)
      BY <3>1, <3>5, SaveDeliveredDoes
    <3>6. CASE SaveFailed(w)
      BY <3>1, <3>6, SaveFailedDoes
    <3> QED  BY <3>2, <3>3, <3>4, <3>5, <3>6 DEF DeliveryStep
  <2>5. received'[e][v] = received[e][v]
    <3>1. CASE Send(w)
      BY <2>1, <2>2, <3>1, SendDoes, AcceptedDoes
    <3>2. CASE Look(w) \/ Forbidden(w) \/ SaveDelivered(w) \/ SaveFailed(w)
      BY <3>2 DEF Look, Forbidden, SaveDelivered, SaveFailed
    <3> QED  BY <3>1, <3>2 DEF DeliveryStep
  <2>6. Same(e, v)
    BY <1>3, <2>1, <2>3, <2>5, ElsewhereSame DEF Moved, DeliverySteps
  <2> QED  BY <1>1, <2>3, <2>4, <2>6, PairSame
<1> QED  BY <1>2, <1>3

LEMMA StopCounted ==
    ASSUME TypeInv, TypeInv', CountInv, NEW w \in Workers, Stop(w)
    PROVE  CountInv'
<1> SUFFICES ASSUME NEW e \in Endpoints, NEW v \in Events
             PROVE  UntouchedAt(e, v)' /\ CountedAt(e, v)'
  BY DEF CountInv
<1>1. UntouchedAt(e, v) /\ CountedAt(e, v)
  BY DEF CountInv
<1>2. /\ Moved(w) /\ work'[w].pc = "idle"
      /\ UNCHANGED <<row, endpoint, received>>
  BY StopDoes DEF Stop
<1>3. faults' = faults + 1 /\ faults <= faults'
  BY CountersGrow DEF Stop
<1>4. \A x \in Workers : /\ Sender(x, e, v)' => Sender(x, e, v)
                         /\ work'[x].pc \in DeliverySteps => work'[x] = work[x]
  BY <1>2 DEF Moved, Sender, At, Gone, DeliverySteps
<1>5. Senders(e, v)' \subseteq Senders(e, v)
  BY <1>4 DEF Senders
<1>6. WorkedOn(e, v)' => WorkedOn(e, v)
  BY <1>4 DEF WorkedOn
<1>7. UntouchedAt(e, v)'
  BY <1>1, <1>2, <1>6 DEF UntouchedAt, Gone
<1> QED  BY <1>1, <1>2, <1>3, <1>5, <1>7, CalmCounted

\* Time and requests for a retry: only the lapse of a live worker's lease opens a
\* delivery, and it is a fault.
LEMMA TimeCounted ==
    ASSUME TypeInv, TypeInv', CountInv, NEW d \in Endpoints, NEW u \in Events,
           BecomeDue(d, u) \/ LeaseLapses(d, u) \/ RequestRetry(d, u)
    PROVE  CountInv'
<1> SUFFICES ASSUME NEW e \in Endpoints, NEW v \in Events
             PROVE  UntouchedAt(e, v)' /\ CountedAt(e, v)'
  BY DEF CountInv
<1>1. UntouchedAt(e, v) /\ CountedAt(e, v)
  BY DEF CountInv
<1>2. UNCHANGED <<work, endpoint, received>> /\ faults <= faults'
  BY CountersGrow DEF BecomeDue, LeaseLapses, RequestRetry
<1>3. Same(e, v)
  BY <1>2 DEF Same, Senders, Sender, At, Gone, WorkedOn
<1>4. OneRow(d, u)
  BY BecomeDueDoes, LeaseLapsesDoes, RequestRetryDoes
<1>5. CASE ~(e = d /\ v = u)
  BY <1>1, <1>2, <1>3, <1>4, <1>5, PairSame DEF OneRow
<1>6. CASE e = d /\ v = u
  <2>1. row'[e][v].status # "absent"
    BY <1>6, BecomeDueDoes, LeaseLapsesDoes, RequestRetryDoes
  <2>2. UntouchedAt(e, v)'
    BY <2>1 DEF UntouchedAt
  <2>3. (Open(e, v)' => Open(e, v)) \/ faults' = faults + 1
    <3>1. CASE BecomeDue(d, u) \/ RequestRetry(d, u)
      BY <1>2, <1>6, <3>1, BecomeDueDoes, RequestRetryDoes DEF Open, Gone
    <3>2. CASE LeaseLapses(d, u)
      BY <1>2, <1>6, <3>2, LeaseLapsesDoes DEF Open, Gone
    <3> QED  BY <3>1, <3>2
  <2> QED  BY <1>1, <1>2, <1>3, <2>2, <2>3, CalmCounted DEF Same
<1> QED  BY <1>5, <1>6

\* The owner: a deletion closes what is open, nothing else of it matters here.
LEMMA OwnerCounted ==
    ASSUME TypeInv, TypeInv', CountInv, NEW d \in Endpoints,
           Create(d) \/ Pause(d) \/ Resume(d) \/ Delete(d)
    PROVE  CountInv'
<1> SUFFICES ASSUME NEW e \in Endpoints, NEW v \in Events
             PROVE  UntouchedAt(e, v)' /\ CountedAt(e, v)'
  BY DEF CountInv
<1>1. UntouchedAt(e, v) /\ CountedAt(e, v)
  BY DEF CountInv
<1>2. UNCHANGED <<work, received, faults>> /\ faults \in Nat
  BY OwnerDoes DEF TypeInv, TypeOK
<1>3. Gone(e) => Gone(e)'
  <2>1. CASE e # d
    BY <2>1, OwnerDoes DEF Gone
  <2>2. CASE e = d
    BY <2>2, OwnerDoes DEF Gone, On
  <2> QED  BY <2>1, <2>2
<1>4. Senders(e, v)' \subseteq Senders(e, v) /\ (WorkedOn(e, v)' <=> WorkedOn(e, v))
  BY <1>2, <1>3 DEF Senders, Sender, At, WorkedOn
<1>5. ~Gone(e)' => row'[e][v] = row[e][v]
  <2>1. CASE e # d
    BY <2>1, OwnerDoes
  <2>2. CASE e = d /\ Delete(d)
    BY <2>2, OwnerDoes DEF Gone
  <2>3. CASE Create(d) \/ Pause(d) \/ Resume(d)
    BY <2>3, OwnerDoes
  <2> QED  BY <2>1, <2>2, <2>3
<1>6. UntouchedAt(e, v)'
  BY <1>1, <1>2, <1>3, <1>4, <1>5 DEF UntouchedAt
<1>7. Open(e, v)' => Open(e, v)
  BY <1>3, <1>4, <1>5 DEF Open
<1> QED  BY <1>1, <1>2, <1>4, <1>6, <1>7, CalmCounted

LEMMA NextCounted == TypeInv /\ CountInv /\ [Next]_vars => CountInv'
<1> SUFFICES ASSUME TypeInv, CountInv, [Next]_vars  PROVE CountInv'
  OBVIOUS
<1>1. TypeInv'
  BY NextTyped
<1>2. CASE Permit \/ UNCHANGED vars \/ \E v \in Events : Stage(v)
  <2>1. UNCHANGED <<row, work, received, endpoint, faults>>
    BY <1>2 DEF Permit, Stage, vars
  <2> QED
    BY <2>1 DEF CountInv, UntouchedAt, CountedAt, Chance, Open, Senders, Sender, At, Gone,
                WorkedOn
<1> QED
  BY <1>1, <1>2, DrainCounted, ClaimCounted, DeliveryCounted, StopCounted, TimeCounted,
     OwnerCounted
  DEF Next

\* An endpoint accepts an event at most once more than there were faults, for any number
\* of workers, repeated stagings, retries and changes by owner and administrator.
THEOREM WebhookDuplicatesNeedFaults == Spec => []DuplicatesNeedFaults
<1>1. TypeInv /\ CountInv => DuplicatesNeedFaults
  <2> SUFFICES ASSUME TypeInv, CountInv, NEW e \in Endpoints, NEW v \in Events
               PROVE  received[e][v] <= 1 + faults
    BY DEF DuplicatesNeedFaults
  <2>1. received[e][v] \in Nat /\ faults \in Nat /\ CountedAt(e, v)
    BY DEF TypeInv, TypeOK, CountInv
  <2>2. Cardinality(Senders(e, v)) \in Nat /\ Chance(e, v) \in {0, 1}
    BY SendersCounted DEF Chance
  <2> QED  BY <2>1, <2>2 DEF CountedAt
<1> QED  BY <1>1, TypeInvariant, InitCounted, NextCounted, PTL DEF Spec
==============================================================================
