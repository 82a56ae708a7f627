---------------------------- MODULE WebhookOutbox ----------------------------
(***************************************************************************)
(* The merchants' webhooks about one kind of event of one transfer.  The   *)
(* event is staged in a slot of the transfer by the write that changes its *)
(* status (utils/merchantWebhookOutboxSchema.js); a drain turns the slot   *)
(* into a delivery for each of the owner's endpoints and acknowledges it   *)
(* (services/merchantWebhookOutboxService.js); deliveries are claimed,     *)
(* posted and retried (services/merchantWebhookService.js), while owner    *)
(* and administrator create, pause and delete endpoints, forbid webhooks   *)
(* and ask for retries (routes/merchantWebhooks.js).  Several workers      *)
(* drain and deliver: the timers of the processes, and requests that retry.*)
(*                                                                         *)
(* Time is abstracted to the two comparisons the code makes: is the next   *)
(* attempt due, has the lease of a sending delivery lapsed.                *)
(***************************************************************************)
EXTENDS Naturals, FiniteSets

CONSTANTS
    Endpoints,     \* of the transfer's owner
    Events,        \* event ids: the kind of the slot with a terminal status
    Workers,       \* drains and deliveries that may run at once
    NoEvent, NoEndpoint,
    MaxAttempts,   \* MAX_ATTEMPTS, 6 in the code
    ReclaimStale,  \* MERCHANT_WEBHOOK_STALE_SENDING_RECLAIM_AFTER is set
    MaxStages,     \* bound: times the slot is staged
    MaxChanges,    \* bound: what owner and administrator change
    MaxFaults      \* bound: faults (see Fault)

ASSUME WebhookAssumption ==
    /\ NoEvent \notin Events /\ NoEndpoint \notin Endpoints
    /\ MaxAttempts \in Nat \ {0} /\ ReclaimStale \in BOOLEAN
    /\ MaxStages \in Nat /\ MaxChanges \in Nat /\ MaxFaults \in Nat
ASSUME WorkersAssumption == IsFiniteSet(Workers)

VARIABLES
    slot,      \* the transfer's slot: event, version (its payload's uuid), pending
    endpoint,  \* of each: none yet, on, off, deleting (its rows are left), deleted
    born,      \* the slot's version when it was created
    allowed,   \* the administrator allows the owner's webhooks
    row,       \* the delivery of each event to each endpoint
    work,      \* of each worker: what it does next (pc), the slot as its drain
               \* read it (seen), the endpoints it found (targets), the delivery
               \* it has claimed (job) and for which attempt (attempt)
    received,  \* requests for an event that an endpoint accepted
    owed,      \* endpoints that were on when the slot was staged, and since
    changes, faults

vars == <<slot, endpoint, born, allowed, row, work, received, owed, changes, faults>>

DrainSteps == {"find", "upsert", "ack"}
DeliverySteps == {"look", "send", "ok", "bad"}
Statuses == {"absent", "pending", "sending", "delivered", "failed"}

Slots == [event : Events \cup {NoEvent}, version : Nat, pending : BOOLEAN]
Rows == [status : Statuses, attempts : 0..MaxAttempts,
         next : {"now", "later", "never"}, lease : {"none", "held", "lapsed"}]
Jobs == [endpoint : Endpoints \cup {NoEndpoint}, event : Events \cup {NoEvent}]
Works == [pc : {"idle"} \cup DrainSteps \cup DeliverySteps, seen : Slots,
          targets : SUBSET Endpoints, job : Jobs, attempt : 0..MaxAttempts]

TypeOK ==
    /\ slot \in Slots
    /\ endpoint \in [Endpoints -> {"none", "on", "off", "deleting", "deleted"}]
    /\ born \in [Endpoints -> Nat] /\ allowed \in BOOLEAN
    /\ row \in [Endpoints -> [Events -> Rows]]
    /\ work \in [Workers -> Works]
    /\ received \in [Endpoints -> [Events -> Nat]]
    /\ owed \subseteq Endpoints
    /\ changes \in Nat /\ faults \in Nat

EmptySlot == [event |-> NoEvent, version |-> 0, pending |-> FALSE]
NoJob == [endpoint |-> NoEndpoint, event |-> NoEvent]
Resting == [pc |-> "idle", seen |-> EmptySlot, targets |-> {}, job |-> NoJob, attempt |-> 0]
Absent == [status |-> "absent", attempts |-> 0, next |-> "now", lease |-> "none"]
Fresh == [Absent EXCEPT !.status = "pending"]

Init ==
    /\ slot = EmptySlot
    /\ endpoint \in [Endpoints -> {"none", "on"}] /\ born = [e \in Endpoints |-> 0]
    /\ allowed = TRUE
    /\ row = [e \in Endpoints |-> [v \in Events |-> Absent]]
    /\ work = [w \in Workers |-> Resting]
    /\ received = [e \in Endpoints |-> [v \in Events |-> 0]]
    /\ owed = {} /\ changes = 0 /\ faults = 0

NoFault == UNCHANGED faults
Fault == faults < MaxFaults /\ faults' = faults + 1
AChange == changes < MaxChanges /\ changes' = changes + 1

On(e) == endpoint[e] = "on"
At(w, step) == work[w].pc = step
Goto(w, step) == work' = [work EXCEPT ![w].pc = step]
Rest(w) == work' = [work EXCEPT ![w] = Resting]
SetRow(e, v, r) == row' = [row EXCEPT ![e][v] = r]

\* What updateOne by _id makes of a delivery: nothing once it is deleted.
UpdateJob(w, r) ==
    LET e == work[w].job.endpoint  v == work[w].job.event IN
    IF row[e][v].status = "absent" THEN UNCHANGED row ELSE SetRow(e, v, r)
JobRow(w) == row[work[w].job.endpoint][work[w].job.event]

------------------------------------------------------------------------------
(* The slot, and its drain *)

\* The event is part of the write that changes the transfer's status; it
\* replaces one that has not been drained.
Stage(v) ==
    /\ slot.version < MaxStages
    /\ slot' = [event |-> v, version |-> slot.version + 1, pending |-> TRUE]
    /\ owed' = IF allowed THEN {e \in Endpoints : On(e)} ELSE {}
    /\ UNCHANGED <<endpoint, born, allowed, row, work, received, changes, faults>>

DrainRead(w) ==
    /\ At(w, "idle") /\ slot.pending
    /\ work' = [work EXCEPT ![w].pc = "find", ![w].seen = slot]
    /\ UNCHANGED <<slot, endpoint, born, allowed, row, received, owed, changes, faults>>

\* The owner's permission and endpoints, not those younger than the event.
DrainFind(w) ==
    LET T == {e \in Endpoints : allowed /\ On(e) /\ born[e] < work[w].seen.version} IN
    /\ At(w, "find")
    /\ work' = [work EXCEPT ![w].pc = IF T = {} THEN "ack" ELSE "upsert", ![w].targets = T]
    /\ UNCHANGED <<slot, endpoint, born, allowed, row, received, owed, changes, faults>>

\* Mutant: a delivery that exists is set anew.
UpsertAnew(S, v) ==
    row' = [e \in Endpoints |-> IF e \in S THEN [row[e] EXCEPT ![v] = Fresh] ELSE row[e]]

\* bulkWrite under the unique index on endpoint and event id, $setOnInsert.
Upsert(S, v) ==
    row' = [e \in Endpoints |->
              IF e \in S /\ row[e][v].status = "absent"
              THEN [row[e] EXCEPT ![v] = Fresh] ELSE row[e]]

DrainUpsert(w) ==
    /\ At(w, "upsert")
    /\ Upsert(work[w].targets, work[w].seen.event)
    /\ Goto(w, "ack")
    /\ UNCHANGED <<slot, endpoint, born, allowed, received, owed, changes, faults>>

\* Mutant: the acknowledgement does not compare the payload's uuid.
AnyVersion(w) == slot.pending

SameVersion(w) == slot.pending /\ slot.version = work[w].seen.version

DrainAck(w) ==
    /\ At(w, "ack")
    /\ slot' = IF SameVersion(w) THEN [slot EXCEPT !.pending = FALSE] ELSE slot
    /\ Rest(w)
    /\ UNCHANGED <<endpoint, born, allowed, row, received, owed, changes, faults>>

\* A statement of the drain fails, the bulk write after part of its upserts: the
\* slot stays pending.
DrainFails(w) ==
    /\ work[w].pc \in DrainSteps /\ Fault
    /\ \/ At(w, "upsert") /\ \E S \in SUBSET work[w].targets : Upsert(S, work[w].seen.event)
       \/ UNCHANGED row
    /\ Rest(w)
    /\ UNCHANGED <<slot, endpoint, born, allowed, received, owed, changes>>

------------------------------------------------------------------------------
(* A delivery *)

\* pendingWebhookFilter and the claim's own filter.
Due(r) ==
    \/ r.status \in {"pending", "failed"} /\ r.next = "now"
    \/ r.status = "sending" /\ r.lease = "lapsed" /\ ReclaimStale

\* Mutant: one attempt more.
AttemptLeftOrEqual(r) == r.attempts <= MaxAttempts

AttemptLeft(r) == r.attempts < MaxAttempts

Claim(w, e, v) ==
    LET r == row[e][v] IN
    /\ At(w, "idle")
    /\ Due(r) /\ AttemptLeft(r)
    /\ SetRow(e, v, [r EXCEPT !.status = "sending", !.lease = "held", !.attempts = @ + 1])
    /\ work' = [work EXCEPT ![w].pc = "look", ![w].attempt = r.attempts + 1,
                            ![w].job = [endpoint |-> e, event |-> v]]
    /\ UNCHANGED <<slot, endpoint, born, allowed, received, owed, changes, faults>>

Failed(w) == [JobRow(w) EXCEPT !.status = "failed", !.lease = "none"]

\* The endpoint is off or gone: failed, and as due as it was.
Look(w) ==
    /\ At(w, "look")
    /\ \/ On(work[w].job.endpoint) /\ Goto(w, "send") /\ UNCHANGED row
       \/ ~On(work[w].job.endpoint) /\ UpdateJob(w, Failed(w)) /\ Rest(w)
    /\ UNCHANGED <<slot, endpoint, born, allowed, received, owed, changes, faults>>

Forbidden(w) ==
    /\ At(w, "send") /\ ~allowed
    /\ UpdateJob(w, [Failed(w) EXCEPT !.next = "never"])
    /\ Rest(w)
    /\ UNCHANGED <<slot, endpoint, born, allowed, received, owed, changes, faults>>

Accepted(w) ==
    received' = [received EXCEPT ![work[w].job.endpoint][work[w].job.event] = @ + 1]

\* Mutant: the status of the answer is not looked at.
AnswerTaken(w) == Goto(w, "ok")

\* An answer outside 200..299, no answer in ten seconds, or no such host.
AnswerLost(w) == Goto(w, "bad")

Send(w) ==
    /\ At(w, "send") /\ allowed
    /\ \/ Accepted(w) /\ Goto(w, "ok") /\ NoFault
       \/ Accepted(w) /\ AnswerLost(w) /\ Fault
       \/ UNCHANGED received /\ AnswerLost(w) /\ Fault
    /\ UNCHANGED <<slot, endpoint, born, allowed, row, owed, changes>>

Delivered(w) == [JobRow(w) EXCEPT !.status = "delivered", !.lease = "none"]

\* The delivery and the endpoint's health are written side by side: when either
\* write fails the exception handler writes the delivery again.
SaveDelivered(w) ==
    /\ At(w, "ok")
    /\ \/ UpdateJob(w, Delivered(w)) /\ Rest(w) /\ NoFault
       \/ UpdateJob(w, Delivered(w)) /\ Goto(w, "bad") /\ Fault
       \/ UNCHANGED row /\ Goto(w, "bad") /\ Fault
    /\ UNCHANGED <<slot, endpoint, born, allowed, received, owed, changes>>

\* Mutant: the last attempt but one is taken for the last.
ExhaustedEarly(w) == work[w].attempt + 1 >= MaxAttempts

\* Told by the worker's own attempt.
Exhausted(w) == work[w].attempt >= MaxAttempts

SaveFailed(w) ==
    /\ At(w, "bad") /\ Rest(w)
    /\ \/ /\ UpdateJob(w, [Failed(w) EXCEPT !.next = IF Exhausted(w) THEN "never" ELSE "later"])
          /\ NoFault
       \/ UNCHANGED row /\ Fault
    /\ UNCHANGED <<slot, endpoint, born, allowed, received, owed, changes>>

------------------------------------------------------------------------------
(* Time, stops, the owner and the administrator *)

BecomeDue(e, v) ==
    /\ row[e][v].status = "failed" /\ row[e][v].next = "later"
    /\ SetRow(e, v, [row[e][v] EXCEPT !.next = "now"])
    /\ UNCHANGED <<slot, endpoint, born, allowed, work, received, owed, changes, faults>>

WorkedOn(e, v) == \E w \in Workers : work[w].pc \in DeliverySteps
                                     /\ work[w].job = [endpoint |-> e, event |-> v]

\* Two minutes after the claim; with its worker alive that takes a pause.
LeaseLapses(e, v) ==
    /\ row[e][v].status = "sending" /\ row[e][v].lease = "held"
    /\ SetRow(e, v, [row[e][v] EXCEPT !.lease = "lapsed"])
    /\ IF WorkedOn(e, v) THEN Fault ELSE NoFault
    /\ UNCHANGED <<slot, endpoint, born, allowed, work, received, owed, changes>>

\* The worker's process stops.
Stop(w) ==
    /\ ~At(w, "idle") /\ Rest(w) /\ Fault
    /\ UNCHANGED <<slot, endpoint, born, allowed, row, received, owed, changes>>

Retried(r) == [r EXCEPT !.status = "pending", !.next = "now", !.lease = "none"]

\* Mutant: whatever is not being sent may be retried.
RetryableAny(r) == r.status \notin {"absent", "sending"} /\ AttemptLeft(r)

Retryable(r) == r.status = "failed" /\ AttemptLeft(r)

\* The owner, for endpoints that exist, or the administrator.
RequestRetry(e, v) ==
    /\ Retryable(row[e][v]) /\ AChange
    /\ SetRow(e, v, Retried(row[e][v]))
    /\ UNCHANGED <<slot, endpoint, born, allowed, work, received, owed, faults>>

Create(e) ==
    /\ endpoint[e] = "none" /\ AChange
    /\ endpoint' = [endpoint EXCEPT ![e] = "on"]
    /\ born' = [born EXCEPT ![e] = slot.version]
    /\ UNCHANGED <<slot, allowed, row, work, received, owed, faults>>

Pause(e) ==
    /\ On(e) /\ AChange
    /\ endpoint' = [endpoint EXCEPT ![e] = "off"]
    /\ owed' = owed \ {e}
    /\ UNCHANGED <<slot, born, allowed, row, work, received, faults>>

Resume(e) ==
    /\ endpoint[e] = "off" /\ AChange
    /\ endpoint' = [endpoint EXCEPT ![e] = "on"]
    /\ UNCHANGED <<slot, born, allowed, row, work, received, owed, faults>>

\* The endpoint, then its deliveries.
Delete(e) ==
    /\ \/ /\ endpoint[e] \in {"on", "off"} /\ AChange
          /\ endpoint' = [endpoint EXCEPT ![e] = "deleting"]
          /\ UNCHANGED row
       \/ /\ endpoint[e] = "deleting"
          /\ endpoint' = [endpoint EXCEPT ![e] = "deleted"]
          /\ row' = [row EXCEPT ![e] = [v \in Events |-> Absent]]
          /\ UNCHANGED changes
    /\ owed' = owed \ {e}
    /\ UNCHANGED <<slot, born, allowed, work, received, faults>>

Permit ==
    /\ AChange /\ allowed' = ~allowed
    /\ owed' = IF allowed THEN {} ELSE owed
    /\ UNCHANGED <<slot, endpoint, born, row, work, received, faults>>

DrainStep(w) == DrainFind(w) \/ DrainUpsert(w) \/ DrainAck(w)
DeliveryStep(w) == Look(w) \/ Forbidden(w) \/ Send(w) \/ SaveDelivered(w) \/ SaveFailed(w)

Next ==
    \/ \E v \in Events : Stage(v)
    \/ \E w \in Workers : \/ DrainRead(w) \/ DrainStep(w) \/ DrainFails(w)
                          \/ DeliveryStep(w) \/ Stop(w)
                          \/ \E e \in Endpoints, v \in Events : Claim(w, e, v)
    \/ \E e \in Endpoints : \/ Create(e) \/ Pause(e) \/ Resume(e) \/ Delete(e)
                            \/ \E v \in Events : BecomeDue(e, v) \/ LeaseLapses(e, v)
                                                 \/ RequestRetry(e, v)
    \/ Permit

Spec == Init /\ [][Next]_vars

\* The timer's ticks, every thirty seconds, drain and claim what is due; a
\* started drain or delivery goes on; time passes.
Fairness ==
    /\ SF_vars(\E w \in Workers : DrainRead(w))
    /\ \A e \in Endpoints, v \in Events :
          /\ SF_vars(\E w \in Workers : Claim(w, e, v))
          /\ WF_vars(BecomeDue(e, v))
          /\ WF_vars(~WorkedOn(e, v) /\ LeaseLapses(e, v))
    /\ \A w \in Workers : WF_vars(DrainStep(w)) /\ WF_vars(DeliveryStep(w))

FairSpec == Spec /\ Fairness

------------------------------------------------------------------------------
(* Properties *)

\* The slot is acknowledged only after there is a delivery of its event for every
\* endpoint that was on when the event was staged and has been since: no stop, no
\* failed statement and no status change during a drain loses the event.
StagedBeforeAck ==
    slot.version > 0 /\ ~slot.pending =>
        \A e \in owed : row[e][slot.event].status # "absent"

\* An endpoint accepts an event twice only after a fault (a lost answer, a worker
\* that paused or stopped, a failed write): workers, retries and repeated status
\* changes alone cause no duplicate.
DuplicatesNeedFaults ==
    \A e \in Endpoints, v \in Events : received[e][v] <= 1 + faults

\* What is shown as delivered was accepted by the endpoint.
DeliveredWasReceived ==
    \A e \in Endpoints, v \in Events : row[e][v].status = "delivered" => received[e][v] > 0

\* A delivered event is at rest: nothing but a late worker that holds it too, or
\* the endpoint's deletion, changes its delivery.
DeliveredRests ==
    [][\A e \in Endpoints, v \in Events :
          row[e][v].status = "delivered" /\ ~WorkedOn(e, v) =>
              row'[e][v].status \in {"delivered", "absent"}]_vars

\* With fewer faults than attempts, and stale claims reclaimed, an event that is
\* staged for the first time reaches every endpoint that stays on, unless the slot
\* is staged for another event.
EventsArrive ==
    \A e \in Endpoints, v \in Events :
        (slot.pending /\ slot.event = v /\ e \in owed /\ row[e][v].status = "absent") ~>
            (row[e][v].status = "delivered" \/ e \notin owed \/ slot.event # v)
==============================================================================
