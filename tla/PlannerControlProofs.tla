------------------------ MODULE PlannerControlProofs ------------------------
(***************************************************************************)
(* Proofs of the safety properties of PlannerControl: the slot accounts    *)
(* for every paid call and calls are paid in turn, for any number of       *)
(* decisions, refusals and deaths.                                         *)
(***************************************************************************)
EXTENDS TraceDelivery, WellFoundedInduction, TLAPS

-----------------------------------------------------------------------------
(* The least number of a set.                                              *)

\* A set of numbers that is not empty has a least one.
LEMMA LeastExists ==
    ASSUME NEW S \in SUBSET Nat, S # {}
    PROVE  \E n \in S : \A m \in S : n <= m
<1> DEFINE below == OpToRel(<, Nat)
<1>1. IsWellFoundedOn(below, Nat)
  BY NatLessThanWellFounded
<1> HIDE DEF below
<1>2. \E n \in S : \A m \in S : <<m, n>> \notin below
  BY <1>1, WFMin
<1>3. \A m, n \in Nat : <<m, n>> \in below <=> m < n
  BY DEF below, OpToRel
<1>4. PICK n \in S : \A m \in S : <<m, n>> \notin below
  BY <1>2
<1>5. ASSUME NEW m \in S PROVE n <= m
  <2>1. n \in Nat /\ m \in Nat
    OBVIOUS
  <2>2. ~(m < n)
    BY <1>3, <1>4, <2>1, Zenon
  <2> QED
    BY <2>1, <2>2
<1> QED
  BY <1>5

\* Choosing it gives an element of the set.
LEMMA LeastChosen ==
    ASSUME NEW S \in SUBSET Nat, S # {}
    PROVE  (CHOOSE n \in S : \A m \in S : n <= m) \in S
  BY LeastExists

-----------------------------------------------------------------------------
(* The inductive invariant.                                                *)

\* Everything that was begun bears a number that was given out before.
NumbersInv ==
    /\ number <= evidence + 1
    /\ \A d \in saved : d < number
    /\ \A d \in Decisions : outbox[d] # None \/ queue[d] # None => d < number
    /\ slot # None /\ slot.state = "complete" => slot.d < number
    /\ publishing # None => publishing.d < number
    /\ planning # None =>
        IF planning.state = "evidence" THEN planning.d = number /\ number <= evidence
                                       ELSE planning.d < number

\* The slot and the outbox agree about the decision in the slot.
SlotInv ==
    slot # None =>
        IF slot.state = "reserved" THEN outbox[slot.d] = None
                                   ELSE outbox[slot.d] \in {None, slot.payload}

\* What waits in memory waits for the slot, or for nothing but its removal.
QueueInv ==
    \A d \in Decisions : queue[d] # None =>
        /\ slot = None \/ slot.d = d
        /\ queue[d].envelope =>
            IF slot = None THEN outbox[d] = queue[d].payload
            ELSE slot.state = "complete" /\ slot.payload = queue[d].payload

\* A decision in planning has the slot; before it is reserved, and until its
\* call returns, nothing waits and nothing is published.
PlanInv ==
    planning # None =>
        /\ pc = "loop"
        /\ planning.state # "evidence" => slot = None \/ slot.d = planning.d
        /\ planning.state \in {"evidence", "calling", "paid"} =>
            publishing = None /\ queue = EmptyQueue
        /\ planning.state \in {"calling", "paid"} => slot # None /\ slot.state = "reserved"

\* A trace is published for the decision in the slot; past staging, slot and
\* trace agree.
PublishInv ==
    publishing # None =>
        /\ pc = "loop"
        /\ slot = None \/ slot.d = publishing.d
        /\ publishing.live => planning # None /\ planning.d = publishing.d
        /\ ~publishing.live => failures < MaxTraceFailures /\ queue[publishing.d] # None
        /\ publishing.at \in {"enqueue", "acknowledge"} =>
            \/ slot # None /\ slot.state = "complete" /\ slot.payload = publishing.payload
            \/ ~publishing.live /\ slot = None /\ outbox[publishing.d] = publishing.payload
        /\ publishing.at = "acknowledge" => outbox[publishing.d] = publishing.payload
        /\ publishing.at = "deliver" => slot = None /\ outbox[publishing.d] # None

\* Between publications a completed slot waits in memory too, which keeps the
\* gate shut: no evidence is written over it.
GateInv ==
    pc = "loop" /\ publishing = None /\ slot # None /\ slot.state = "complete" =>
        queue[slot.d] # None

\* A drain runs beside the publications of the loop, not of its passes.
DrainInv ==
    draining =>
        /\ pc = "loop" /\ failures < MaxTraceFailures
        /\ publishing # None => publishing.live

IInv ==
    /\ TypeOK /\ NumbersInv /\ SlotInv /\ QueueInv /\ PlanInv /\ PublishInv /\ GateInv
    /\ DrainInv /\ ChargeAccounted

-----------------------------------------------------------------------------
(* What the operators that several actions share return.                   *)

Queues == [Decisions -> Waiting \cup {None}]

\* Something that waits is first in line.
LEMMA FirstWaits ==
    ASSUME NEW q \in Queues, q # EmptyQueue
    PROVE  First(q) \in Decisions /\ q[First(q)] # None
<1> DEFINE waiting == {d \in Decisions : q[d] # None}
           staged == {d \in waiting : q[d].envelope}
           best == IF staged # {} THEN staged ELSE waiting
<1>1. waiting # {}
  BY DEF EmptyQueue, Queues
<1>2. best # {} /\ best \in SUBSET Nat /\ best \subseteq waiting
  BY <1>1 DEF Decisions
<1>3. (CHOOSE d \in best : \A e \in best : d <= e) \in best
  <2> HIDE DEF best
  <2> QED
    BY <1>2, LeastChosen
<1>4. First(q) \in best
  BY <1>3 DEF First
<1> QED
  BY <1>2, <1>4

\* A completed slot is in the hydrated queue, as an envelope; nothing else
\* changes there.
LEMMA HydratedQueue ==
    ASSUME TypeOK
    PROVE  /\ Hydrated \in Queues
           /\ \A d \in Decisions :
                \/ slot # None /\ slot.state = "complete" /\ slot.d = d
                   /\ Hydrated[d] # None /\ Hydrated[d].envelope /\ Hydrated[d].payload =
                   slot.payload
                \/ ~(slot # None /\ slot.state = "complete" /\ slot.d = d)
                   /\ Hydrated[d] = queue[d]
<1> USE NoneAssumption DEF TypeOK, Queues
<1>1. CASE slot # None /\ slot.state = "complete"
  <2>1. slot.d \in Decisions /\ slot.payload \in Payloads
    BY <1>1 DEF Envelopes
  <2>2. [payload |-> slot.payload, envelope |-> TRUE] \in Waiting
    BY <2>1 DEF Waiting
  <2> QED
    BY <1>1, <2>1, <2>2 DEF Hydrated
<1>2. CASE ~(slot # None /\ slot.state = "complete")
  BY <1>2 DEF Hydrated
<1> QED
  BY <1>1, <1>2

\* A restarted controller's queue holds a completed slot and nothing else.
LEMMA RestartedQueue ==
    ASSUME TypeOK, Start
    PROVE  /\ queue' \in Queues
           /\ \A d \in Decisions :
                \/ slot # None /\ slot.state = "complete" /\ slot.d = d
                   /\ queue'[d] # None /\ queue'[d].envelope /\ queue'[d].payload = slot.payload
                \/ ~(slot # None /\ slot.state = "complete" /\ slot.d = d)
                   /\ queue'[d] = None
<1> USE NoneAssumption DEF TypeOK, Queues, Start, EmptyQueue
<1>1. CASE slot # None /\ slot.state = "complete"
  <2>1. slot.d \in Decisions /\ slot.payload \in Payloads
    BY <1>1 DEF Envelopes
  <2>2. [payload |-> slot.payload, envelope |-> TRUE] \in Waiting
    BY <2>1 DEF Waiting
  <2> QED
    BY <1>1, <2>1, <2>2
<1>2. CASE ~(slot # None /\ slot.state = "complete")
  BY <1>2
<1> QED
  BY <1>1, <1>2

\* A tracing pass publishes something that waits, without staging what came
\* out of the slot.
LEMMA PassPublishes ==
    ASSUME TypeOK, TracePass, queue' # EmptyQueue
    PROVE  \E d \in Decisions :
             /\ queue'[d] # None /\ queue'[d] \in Waiting
             /\ publishing' = [d |-> d, payload |-> queue'[d].payload, live |-> FALSE,
                               at |-> IF queue'[d].envelope THEN "enqueue" ELSE "check"]
             /\ publishing' \in Publications /\ publishing' # None
             /\ UNCHANGED <<blocked, draining>>
<1> DEFINE d == First(queue')
<1>1. queue' \in Queues
  BY HydratedQueue DEF TracePass
<1>2. d \in Decisions /\ queue'[d] # None
  BY <1>1, FirstWaits
<1>3. queue'[d] \in Waiting
  BY <1>1, <1>2 DEF Queues
<1>4. publishing' = [d |-> d, payload |-> queue'[d].payload, live |-> FALSE,
                     at |-> IF queue'[d].envelope THEN "enqueue" ELSE "check"]
      /\ UNCHANGED <<blocked, draining>>
  BY DEF TracePass, Publish
<1> HIDE DEF d
<1>5. publishing' \in Publications
  BY <1>2, <1>3, <1>4 DEF Publications, Waiting
<1> QED
  BY <1>2, <1>3, <1>4, <1>5, NoneAssumption

\* A publication goes on to its next step.
Moves(at) ==
    /\ publishing' \in Publications /\ publishing' # None
    /\ publishing'.d = publishing.d /\ publishing'.payload = publishing.payload
    /\ publishing'.live = publishing.live /\ publishing'.at = at
    /\ UNCHANGED <<planning, queue, blocked, failures>>

\* It ends with the delivery: what waited for it waits no longer.
Closes ==
    /\ publishing' = None
    /\ queue' \in Queues
    /\ IF publishing.live
       THEN planning' = None /\ UNCHANGED <<queue, failures>>
       ELSE /\ UNCHANGED planning
            /\ queue'[publishing.d] = None
            /\ \A d \in Decisions : d # publishing.d => queue'[d] = queue[d]
            /\ failures' \in {failures, failures + 1}
    /\ blocked' \in BOOLEAN

\* It ends badly: a call's payload may be retained, a queued one still waits.
Stalls(storage) ==
    /\ publishing' = None
    /\ queue' \in Queues
    /\ IF publishing.live
       THEN /\ planning' = None /\ UNCHANGED failures
            /\ storage => queue'[publishing.d] # None
            /\ \A d \in Decisions :
                 \/ queue'[d] = queue[d]
                 \/ d = publishing.d /\ queue'[d] # None
                    /\ queue'[d] = [payload |-> publishing.payload, envelope |-> FALSE]
       ELSE UNCHANGED <<planning, queue>> /\ failures' \in {failures, failures + 1}
    /\ blocked' \in BOOLEAN /\ (blocked' <=> blocked \/ storage)

\* The commits of its steps.
Stages ==
    /\ slot # None /\ slot.d = publishing.d
    /\ slot.state = "reserved" \/ UNCHANGED slot
    /\ slot' \in Envelopes /\ slot' # None
    /\ slot'.d = publishing.d /\ slot'.state = "complete"
    /\ slot'.payload = publishing.payload /\ slot'.payload # None
    /\ UNCHANGED outbox

Enqueues ==
    /\ outbox[publishing.d] \in {None, publishing.payload}
    /\ outbox' \in [Decisions -> Payloads \cup {None}]
    /\ outbox'[publishing.d] = publishing.payload
    /\ \A d \in Decisions : d # publishing.d => outbox'[d] = outbox[d]
    /\ UNCHANGED slot

Acknowledges ==
    /\ slot # None /\ slot.d = publishing.d /\ slot.state = "complete"
    /\ outbox[publishing.d] = slot.payload
    /\ slot' = None
    /\ UNCHANGED outbox

\* A failure stalls.
LEMMA StallsIf ==
    ASSUME TypeOK, publishing # None, NEW storage \in BOOLEAN, Fails(storage)
    PROVE  Stalls(storage)
<1>1. publishing.d \in Decisions /\ publishing.payload \in Payloads
  BY DEF TypeOK, Publications
<1>2. [payload |-> publishing.payload, envelope |-> FALSE] \in Waiting
  BY <1>1 DEF Waiting
<1>3. [payload |-> publishing.payload, envelope |-> FALSE] # None
  BY <1>2, NoneAssumption
<1> QED
  BY <1>1, <1>2, <1>3 DEF TypeOK, Fails, Queues, Stalls

\* A changed record is a move.
LEMMA MovesIf ==
    ASSUME TypeOK, publishing # None,
           NEW at \in {"check", "stage", "enqueue", "acknowledge", "deliver"},
           publishing' = [publishing EXCEPT !.at = at],
           UNCHANGED <<planning, queue, blocked, failures>>
    PROVE  Moves(at)
<1>1. publishing' \in Publications
  BY DEF TypeOK, Publications
<1> QED
  BY <1>1, NoneAssumption DEF TypeOK, Publications, Moves

\* A completed slot is an envelope.
LEMMA CompleteTyped ==
    ASSUME TypeOK, publishing # None
    PROVE  /\ Complete \in Envelopes /\ Complete # None
           /\ Complete.d = publishing.d /\ Complete.state = "complete"
           /\ Complete.payload = publishing.payload /\ Complete.payload # None
  BY NoneAssumption DEF TypeOK, Complete, Publications, Envelopes

\* And so is a reservation.
LEMMA ReservationTyped ==
    ASSUME NEW d \in Decisions
    PROVE  /\ Reservation(d) \in Envelopes /\ Reservation(d) # None
           /\ Reservation(d).d = d /\ Reservation(d).state = "reserved"
           /\ Reservation(d).payload = None
  BY NoneAssumption DEF Reservation, Envelopes


\* Where a publication is.
AtStep(at) == pc = "loop" /\ publishing # None /\ publishing.at = at

\* What each step of a publication does: checking.
LEMMA CheckDoes ==
    ASSUME TypeOK, Check
    PROVE  /\ AtStep("check")
           /\ \/ Moves("stage")
              \/ /\ slot = None \/ slot.d # publishing.d
                 /\ outbox[publishing.d] # None
                 /\ Moves("deliver") \/ Stalls(FALSE)
           /\ UNCHANGED <<durable, pc, number, draining, unresolved, unknown, bounds>>
<1> USE DEF Check, Publishes, AtStep
<1>1. CASE publishing' = [publishing EXCEPT !.at = "stage"]
           /\ UNCHANGED <<planning, queue, blocked, failures>>
  <2>1. Moves("stage")
    BY <1>1, MovesIf
  <2> QED
    BY <2>1
<1>2. CASE ~(slot # None /\ slot.d = publishing.d) /\ outbox[publishing.d] # None /\ Delivers
  <2>1. Moves("deliver")
    BY <1>2, MovesIf DEF Delivers
  <2> QED
    BY <1>2, <2>1
<1>3. CASE ~(slot # None /\ slot.d = publishing.d) /\ outbox[publishing.d] # None /\ Fails(FALSE)
  <2>1. Stalls(FALSE)
    BY <1>3, StallsIf
  <2> QED
    BY <1>3, <2>1
<1> QED
  BY <1>1, <1>2, <1>3

\* Staging.
LEMMA StageDoes ==
    ASSUME TypeOK, Stage
    PROVE  /\ AtStep("stage")
           /\ \/ Stages /\ Moves("enqueue")
              \/ slot # None /\ UNCHANGED <<slot, outbox>> /\ Stalls(TRUE)
              \/ slot = None /\ UNCHANGED <<slot, outbox>> /\ Stalls(FALSE)
           /\ UNCHANGED <<evidence, saved, paid, pc, number, draining, unresolved, unknown, bounds>>
<1> USE DEF Stage, Publishes, AtStep
<1>1. CASE slot = Complete \/ Holds(publishing.d, "reserved")
  <2>1. Moves("enqueue")
    BY <1>1, MovesIf
  <2>2. Stages
    BY <1>1, CompleteTyped DEF Stages, Holds
  <2> QED
    BY <2>1, <2>2
<1>2. CASE ~(slot = Complete \/ Holds(publishing.d, "reserved"))
  <2>1. Stalls(slot # None)
    BY <1>2, StallsIf
  <2>2. CASE slot # None
    BY <1>2, <2>1, <2>2 DEF Stalls
  <2>3. CASE slot = None
    BY <1>2, <2>1, <2>3 DEF Stalls
  <2> QED
    BY <2>2, <2>3
<1> QED
  BY <1>1, <1>2

\* A row that is written enqueues.
LEMMA EnqueuesIf ==
    ASSUME TypeOK, publishing # None, UNCHANGED slot,
           outbox[publishing.d] \in {None, publishing.payload},
           outbox' = [outbox EXCEPT ![publishing.d] = publishing.payload]
    PROVE  Enqueues
  BY DEF TypeOK, Publications, Enqueues

\* Enqueueing.
LEMMA EnqueueDoes ==
    ASSUME TypeOK, Enqueue
    PROVE  /\ AtStep("enqueue")
           /\ \/ Enqueues /\ Moves("acknowledge")
              \/ /\ outbox[publishing.d] \notin {None, publishing.payload}
                 /\ UNCHANGED <<slot, outbox>>
                 /\ Stalls(FALSE)
           /\ UNCHANGED <<evidence, saved, paid, pc, number, draining, unresolved, unknown, bounds>>
<1> USE DEF Enqueue, Publishes, AtStep
<1>1. CASE outbox[publishing.d] \in {None, publishing.payload}
  <2>1. Moves("acknowledge")
    BY <1>1, MovesIf
  <2>2. Enqueues
    BY <1>1, EnqueuesIf
  <2> QED
    BY <2>1, <2>2
<1>2. CASE outbox[publishing.d] \notin {None, publishing.payload}
  <2>1. Stalls(FALSE)
    BY <1>2, StallsIf
  <2> QED
    BY <1>2, <2>1
<1> QED
  BY <1>1, <1>2

\* Acknowledging.
LEMMA AcknowledgeDoes ==
    ASSUME TypeOK, Acknowledge
    PROVE  /\ AtStep("acknowledge")
           /\ \/ Acknowledges /\ Moves("deliver")
              \/ ~Readback /\ UNCHANGED <<slot, outbox>> /\ Stalls(FALSE)
           /\ UNCHANGED <<evidence, saved, paid, pc, number, draining, unresolved, unknown, bounds>>
<1> USE DEF Acknowledge, Publishes, AtStep
<1>1. CASE Readback
  <2>1. Moves("deliver")
    BY <1>1, MovesIf DEF Delivers
  <2> QED
    BY <1>1, <2>1 DEF Acknowledges, Readback, Holds
<1>2. CASE ~Readback
  <2>1. Stalls(FALSE)
    BY <1>2, StallsIf
  <2> QED
    BY <1>2, <2>1
<1> QED
  BY <1>1, <1>2

\* A refusal, with or without the commit.
LEMMA RefusalDoes ==
    ASSUME TypeOK, PublishRefused
    PROVE  /\ pc = "loop" /\ publishing # None
           /\ \/ UNCHANGED <<slot, outbox>>
              \/ AtStep("stage") /\ Stages
              \/ AtStep("enqueue") /\ Enqueues
              \/ AtStep("acknowledge") /\ Acknowledges
           /\ Stalls(TRUE)
           /\ faults' \in 0..MaxFaults
           /\ UNCHANGED <<evidence, saved, paid, pc, number, draining, unresolved, unknown, crashes>>
<1> USE DEF PublishRefused, AtStep
<1>1. Stalls(TRUE)
  BY StallsIf
<1>2. faults' \in 0..MaxFaults
  BY BoundAssumption DEF Refused, TypeOK
<1>3. CASE UNCHANGED <<slot, outbox>>
  BY <1>1, <1>2, <1>3
<1>4. CASE /\ publishing.at = "stage" /\ Holds(publishing.d, "reserved")
           /\ slot' = Complete /\ UNCHANGED outbox
  BY <1>1, <1>2, <1>4, CompleteTyped DEF Stages, Holds
<1>5. CASE /\ publishing.at = "enqueue" /\ outbox[publishing.d] = None
           /\ outbox' = [outbox EXCEPT ![publishing.d] = publishing.payload]
           /\ UNCHANGED slot
  BY <1>1, <1>2, <1>5, EnqueuesIf
<1>6. CASE publishing.at = "acknowledge" /\ Readback /\ slot' = None /\ UNCHANGED outbox
  BY <1>1, <1>2, <1>6 DEF Acknowledges, Readback, Holds
<1> QED
  BY <1>1, <1>2, <1>3, <1>4, <1>5, <1>6


\* The delivery.
LEMMA DeliverDoes ==
    ASSUME TypeOK, NEW how \in Outcomes, Deliver(how)
    PROVE  /\ AtStep("deliver")
           /\ Closes
           /\ UNCHANGED <<durable, pc, number, draining, unresolved, unknown, bounds>>
<1>1. publishing # None /\ publishing.d \in Decisions
  BY DEF Deliver, Publishes, TypeOK, Publications
<1> QED
  BY <1>1 DEF Deliver, Publishes, AtStep, Published, Closes, Queues, TypeOK

\* A tracing pass: what waits afterwards, and what is published.
LEMMA PassDoes ==
    ASSUME TypeOK, TracePass
    PROVE  /\ pc = "loop" /\ publishing = None /\ failures < MaxTraceFailures /\ ~draining
           /\ queue' \in Queues
           /\ \A d \in Decisions :
                \/ slot # None /\ slot.state = "complete" /\ slot.d = d
                   /\ queue'[d] # None /\ queue'[d].envelope /\ queue'[d].payload = slot.payload
                \/ ~(slot # None /\ slot.state = "complete" /\ slot.d = d)
                   /\ queue'[d] = queue[d]
           /\ unresolved' \in BOOLEAN
           /\ slot # None /\ slot.state = "reserved" /\ planning = None =>
                unresolved' \/ queue'[slot.d] # None
           /\ unknown' = FALSE
           /\ \/ queue' = EmptyQueue /\ publishing' = None
                 /\ blocked' \in BOOLEAN /\ draining' \in BOOLEAN
              \/ \E d \in Decisions :
                   /\ queue'[d] # None
                   /\ publishing' \in Publications /\ publishing' # None
                   /\ publishing'.d = d /\ publishing'.payload = queue'[d].payload
                   /\ publishing'.live = FALSE
                   /\ publishing'.at = IF queue'[d].envelope THEN "enqueue" ELSE "check"
                   /\ UNCHANGED <<blocked, draining>>
           /\ UNCHANGED <<durable, pc, number, planning, failures, bounds>>
<1>1. queue' = Hydrated
  BY DEF TracePass
<1>2. slot # None => slot.d # None
  BY NoneAssumption DEF TypeOK, Envelopes
<1>3. /\ unresolved' \in BOOLEAN
      /\ slot # None /\ slot.state = "reserved" /\ planning = None =>
           unresolved' \/ queue'[slot.d] # None
  BY <1>2 DEF TracePass, Unresolved, Active
<1>4. CASE queue' = EmptyQueue
  BY <1>1, <1>3, <1>4, HydratedQueue DEF TracePass, Looping, Drained, TypeOK
<1>5. CASE queue' # EmptyQueue
  <2>1. PICK d \in Decisions :
           /\ queue'[d] # None /\ queue'[d] \in Waiting
           /\ publishing' = [d |-> d, payload |-> queue'[d].payload, live |-> FALSE,
                             at |-> IF queue'[d].envelope THEN "enqueue" ELSE "check"]
           /\ publishing' \in Publications /\ publishing' # None
           /\ UNCHANGED <<blocked, draining>>
    BY <1>5, PassPublishes
  <2>2. /\ publishing'.d = d /\ publishing'.payload = queue'[d].payload
        /\ publishing'.live = FALSE
        /\ publishing'.at = IF queue'[d].envelope THEN "enqueue" ELSE "check"
    BY <2>1
  <2> QED
    BY <1>1, <1>3, <2>1, <2>2, HydratedQueue DEF TracePass, Looping
<1> QED
  BY <1>4, <1>5

\* A restart: the memory is what the slot holds.
LEMMA StartDoes ==
    ASSUME TypeOK, Start
    PROVE  /\ queue' \in Queues
           /\ \A d \in Decisions :
                \/ slot # None /\ slot.state = "complete" /\ slot.d = d
                   /\ queue'[d] # None /\ queue'[d].envelope /\ queue'[d].payload = slot.payload
                \/ ~(slot # None /\ slot.state = "complete" /\ slot.d = d)
                   /\ queue'[d] = None
           /\ unresolved' \in BOOLEAN
           /\ slot # None /\ slot.state = "reserved" => unresolved'
           /\ unknown' = FALSE /\ blocked' \in BOOLEAN /\ failures' = 0
           /\ pc = "down" /\ pc' = "loop" /\ number' = evidence + 1
           /\ UNCHANGED <<durable, planning, publishing, draining, bounds>>
<1>1. slot # None => slot.d \in Decisions /\ slot.d # None
  BY NoneAssumption DEF TypeOK, Envelopes
<1>2. slot # None /\ slot.state = "reserved" => queue'[slot.d] = None
  BY <1>1, RestartedQueue
<1> QED
  BY <1>1, <1>2, RestartedQueue DEF Start, Unresolved

-----------------------------------------------------------------------------
(* Every step keeps the invariant, one lemma for each part of it.          *)

\* The types.
LEMMA TypeStep == IInv /\ [Next]_vars => TypeOK'
<1> SUFFICES ASSUME IInv, [Next]_vars PROVE TypeOK'
  OBVIOUS
<1> USE NoneAssumption
        DEF IInv, durable, flags, bounds, NumbersInv, PublishInv, Queues, MaxTraceFailures
<1>1. ASSUME WriteEvidence PROVE TypeOK'
  BY <1>1, BoundAssumption DEF WriteEvidence, Looping, MayPlan, Plans, Decisions, TypeOK
<1>2. ASSUME Reserve PROVE TypeOK'
  <2>1. number \in Decisions /\ planning.d = number /\ planning \in Plans
    BY <1>2 DEF Reserve, NumbersInv, Plans, TypeOK
  <2>2. slot' \in Envelopes /\ slot' # None /\ slot'.state = "reserved" /\ slot'.payload = None
    BY <1>2, <2>1, ReservationTyped DEF Reserve, TypeOK
  <2>3. planning' \in Plans
    BY <1>2, <2>1 DEF Reserve, Plans, TypeOK
  <2>4. number' \in 1..(MaxDecisions + 1)
    BY <1>2, <2>1, BoundAssumption DEF Reserve, Decisions, TypeOK
  <2> QED
    BY <1>2, <2>2, <2>3, <2>4 DEF Reserve, TypeOK
<1>3. ASSUME ReserveRefused PROVE TypeOK'
  <2>1. slot' \in Envelopes \cup {None}
        /\ (slot' # None => (slot'.state = "reserved" <=> slot'.payload = None))
    <3>1. planning.d \in Decisions
      BY <1>3 DEF ReserveRefused, Plans, TypeOK
    <3>2. CASE UNCHANGED slot
      BY <3>2 DEF TypeOK
    <3>3. CASE slot' = Reservation(planning.d)
      BY <3>1, <3>3, ReservationTyped DEF TypeOK
    <3> QED
      BY <1>3, <3>2, <3>3 DEF ReserveRefused, TypeOK
  <2>2. faults' \in 0..MaxFaults
    BY <1>3, BoundAssumption DEF ReserveRefused, Refused, TypeOK
  <2> QED
    BY <1>3, <2>1, <2>2 DEF ReserveRefused, TypeOK
<1>4. ASSUME Dispatch PROVE TypeOK'
  BY <1>4 DEF Dispatch, Plans, TypeOK
<1>5. ASSUME Answer PROVE TypeOK'
  BY <1>5 DEF Answer, Plans, TypeOK
<1>6. ASSUME Handle PROVE TypeOK'
  <2>1. planning.d \in Decisions /\ planning.recovered \in BOOLEAN
    BY <1>6 DEF Handle, Plans, TypeOK
  <2>2. publishing' \in Publications
    BY <1>6, <2>1 DEF Handle, Publish, Publications, Payloads, TypeOK
  <2>3. faults' \in 0..MaxFaults
    BY <1>6, BoundAssumption DEF Handle, Refused, TypeOK
  <2>4. saved' \subseteq Decisions
    BY <1>6, <2>1 DEF Handle, TypeOK
  <2> QED
    BY <1>6, <2>2, <2>3, <2>4 DEF Handle, TypeOK
<1>7. ASSUME Check PROVE TypeOK'
  BY <1>7, CheckDoes DEF AtStep, Moves, Stalls, TypeOK
<1>8. ASSUME Stage PROVE TypeOK'
  BY <1>8, StageDoes DEF AtStep, Moves, Stalls, Stages, TypeOK
<1>9. ASSUME Enqueue PROVE TypeOK'
  BY <1>9, EnqueueDoes DEF AtStep, Moves, Stalls, Enqueues, TypeOK
<1>10. ASSUME Acknowledge PROVE TypeOK'
  BY <1>10, AcknowledgeDoes DEF AtStep, Moves, Stalls, Acknowledges, Readback, Holds, TypeOK
<1>11. ASSUME PublishRefused PROVE TypeOK'
  BY <1>11, RefusalDoes DEF AtStep, Stalls, Stages, Enqueues, Acknowledges, TypeOK
<1>12. ASSUME NEW d \in Decisions, Recover(d) PROVE TypeOK'
  BY <1>12 DEF Recover, Looping, Holds, Plans, Decisions, TypeOK
<1>13. ASSUME TracePass PROVE TypeOK'
  BY <1>13, PassDoes DEF TypeOK
<1>14. ASSUME TracePassRefused PROVE TypeOK'
  BY <1>14, BoundAssumption DEF TracePassRefused, Looping, Refused, Decisions, TypeOK
<1>15. ASSUME Crash PROVE TypeOK'
  <2>1. crashes' \in 0..MaxCrashes
    BY <1>15, BoundAssumption DEF Crash, TypeOK
  <2>2. /\ pc' = "down" /\ planning' = None /\ publishing' = None /\ draining' = FALSE
        /\ UNCHANGED <<evidence, saved, slot, outbox, paid, number, queue>>
        /\ UNCHANGED <<unresolved, unknown, blocked, failures, faults>>
    BY <1>15 DEF Crash
  <2> QED
    BY <2>1, <2>2 DEF TypeOK
<1>16. ASSUME Start PROVE TypeOK'
  <2>1. /\ number' = evidence + 1 /\ pc' = "loop"
        /\ queue' \in Queues /\ unresolved' \in BOOLEAN
        /\ unknown' = FALSE /\ blocked' \in BOOLEAN /\ failures' = 0
        /\ UNCHANGED <<durable, planning, publishing, draining, bounds>>
    BY <1>16, StartDoes
  <2>2. number' \in 1..(MaxDecisions + 1)
    BY <2>1, BoundAssumption DEF TypeOK
  <2>3. failures' \in 0..MaxTraceFailures
    BY <2>1
  <2>4. /\ UNCHANGED <<evidence, saved, slot, outbox, paid>>
        /\ UNCHANGED <<planning, publishing, draining, faults, crashes>>
    BY <2>1
  <2> QED
    BY <2>1, <2>2, <2>3, <2>4, Zenon DEF TypeOK
<1>17. ASSUME NEW how \in Outcomes, Deliver(how) PROVE TypeOK'
  BY <1>17, DeliverDoes DEF AtStep, Closes, TypeOK
<1>18. ASSUME NEW how \in Outcomes, DrainReport(how) PROVE TypeOK'
  <2>1. failures < MaxTraceFailures /\ failures \in Nat /\ draining
    BY <1>18 DEF DrainReport, DrainInv, TypeOK
  <2>2. failures' \in {0, failures + 1, failures}
    BY <1>18 DEF DrainReport, Outcomes
  <2>3. failures' \in 0..MaxTraceFailures
    BY <2>1, <2>2
  <2>4. /\ draining' = FALSE /\ blocked' \in BOOLEAN
        /\ UNCHANGED <<evidence, saved, slot, outbox, paid, pc, number, planning, publishing>>
        /\ UNCHANGED <<queue, unresolved, unknown, faults, crashes>>
    BY <1>18 DEF DrainReport
  <2> QED
    BY <2>3, <2>4 DEF TypeOK
<1>19. ASSUME UNCHANGED vars PROVE TypeOK'
  BY <1>19 DEF vars, TypeOK
<1> QED
  BY <1>1, <1>2, <1>3, <1>4, <1>5, <1>6, <1>7, <1>8, <1>9, <1>10, <1>11, <1>12, <1>13, <1>14, <1>15,
     <1>16, <1>17, <1>18, <1>19
     DEF Next, Publication

\* Nothing bears a number that was not given out.
LEMMA NumbersStep == IInv /\ [Next]_vars => NumbersInv'
<1> SUFFICES ASSUME IInv, [Next]_vars PROVE NumbersInv'
  OBVIOUS
<1> USE NoneAssumption DEF IInv, durable, flags, bounds, NumbersInv, PublishInv, QueueInv, PlanInv
<1>1. ASSUME WriteEvidence PROVE NumbersInv'
  BY <1>1 DEF WriteEvidence, Looping, MayPlan, Plans, Decisions, TypeOK
<1>2. ASSUME Reserve PROVE NumbersInv'
  <2>1. planning.d = number /\ planning \in Plans /\ number \in Decisions
    BY <1>2 DEF Reserve, Plans, TypeOK
  <2>2. /\ slot' # None /\ slot'.state = "reserved"
        /\ planning'.d = number /\ planning'.state = "calling" /\ number' = number + 1
    BY <1>2, <2>1, ReservationTyped DEF Reserve, Plans, TypeOK
  <2>3. number \in Nat /\ evidence \in Nat /\ number <= evidence
    BY <1>2, <2>1, BoundAssumption DEF Reserve, Decisions, TypeOK
  <2>4. \A d \in Decisions : d \in Nat
    BY DEF Decisions, TypeOK
  <2>5. publishing = None
    BY <1>2 DEF Reserve, Looping, TypeOK
  <2> QED
    BY <1>2, <2>2, <2>3, <2>4, <2>5 DEF Reserve, TypeOK
<1>3. ASSUME ReserveRefused PROVE NumbersInv'
  <2>1. slot' # None => slot'.state = "reserved" \/ UNCHANGED slot
    <3>1. planning.d \in Decisions
      BY <1>3 DEF ReserveRefused, Plans, TypeOK
    <3> QED
      BY <1>3, <3>1, ReservationTyped DEF ReserveRefused, TypeOK
  <2> QED
    BY <1>3, <2>1 DEF ReserveRefused, Looping, TypeOK
<1>4. ASSUME Dispatch PROVE NumbersInv'
  BY <1>4 DEF Dispatch, Plans, TypeOK
<1>5. ASSUME Answer PROVE NumbersInv'
  BY <1>5 DEF Answer, Plans, TypeOK
<1>6. ASSUME Handle PROVE NumbersInv'
  BY <1>6 DEF Handle, Looping, Publish, Refused, Plans, Publications, Payloads, TypeOK
<1>7. ASSUME Check PROVE NumbersInv'
  BY <1>7, CheckDoes DEF AtStep, Moves, Stalls
<1>8. ASSUME Stage PROVE NumbersInv'
  BY <1>8, StageDoes DEF AtStep, Moves, Stalls, Stages
<1>9. ASSUME Enqueue PROVE NumbersInv'
  BY <1>9, EnqueueDoes DEF AtStep, Moves, Stalls, Enqueues
<1>10. ASSUME Acknowledge PROVE NumbersInv'
  BY <1>10, AcknowledgeDoes DEF AtStep, Moves, Stalls, Acknowledges, Readback, Holds
<1>11. ASSUME PublishRefused PROVE NumbersInv'
  BY <1>11, RefusalDoes DEF AtStep, Stalls, Stages, Enqueues, Acknowledges
<1>12. ASSUME NEW d \in Decisions, Recover(d) PROVE NumbersInv'
  BY <1>12 DEF Recover, Looping, Holds, Plans, Decisions, TypeOK
<1>13. ASSUME TracePass PROVE NumbersInv'
  <2>1. \A d \in Decisions : queue'[d] # None => d < number
    BY <1>13, PassDoes
  <2>2. publishing' # None => publishing'.d < number
    BY <1>13, <2>1, PassDoes
  <2> QED
    BY <1>13, <2>1, <2>2, PassDoes
<1>14. ASSUME TracePassRefused PROVE NumbersInv'
  BY <1>14 DEF TracePassRefused, Looping, Refused, TypeOK
<1>15. ASSUME Crash PROVE NumbersInv'
  BY <1>15 DEF Crash, TypeOK
<1>16. ASSUME Start PROVE NumbersInv'
  <2>1. /\ number' = evidence + 1 /\ pc = "down"
        /\ UNCHANGED <<durable, planning, publishing>>
    BY <1>16, StartDoes
  <2>2. /\ number \in Nat /\ evidence \in Nat /\ number <= number'
        /\ \A d \in Decisions : d < number => d < number'
        /\ slot # None => slot.d \in Decisions
        /\ saved \subseteq Decisions
    BY <2>1, BoundAssumption DEF TypeOK, Decisions, Envelopes
  <2>3. \A d \in Decisions : queue'[d] # None => d < number
    BY <1>16, StartDoes
  <2>4. planning = None /\ publishing = None
    BY <2>1
  <2> QED
    BY <2>1, <2>2, <2>3, <2>4
<1>17. ASSUME NEW how \in Outcomes, Deliver(how) PROVE NumbersInv'
  BY <1>17, DeliverDoes DEF AtStep, Closes, TypeOK
<1>18. ASSUME NEW how \in Outcomes, DrainReport(how) PROVE NumbersInv'
  BY <1>18 DEF DrainReport, Looping, Outcomes, TypeOK
<1>19. ASSUME UNCHANGED vars PROVE NumbersInv'
  BY <1>19 DEF vars, TypeOK
<1> QED
  BY <1>1, <1>2, <1>3, <1>4, <1>5, <1>6, <1>7, <1>8, <1>9, <1>10, <1>11, <1>12, <1>13, <1>14, <1>15,
     <1>16, <1>17, <1>18, <1>19
     DEF Next, Publication

\* The slot and the outbox agree.
LEMMA SlotStep == IInv /\ [Next]_vars => SlotInv'
<1> SUFFICES ASSUME IInv, [Next]_vars PROVE SlotInv'
  OBVIOUS
<1> USE NoneAssumption DEF IInv, durable, flags, bounds, SlotInv, NumbersInv, PublishInv, PlanInv
<1>1. ASSUME WriteEvidence PROVE SlotInv'
  BY <1>1 DEF WriteEvidence, Looping, MayPlan, Plans, Decisions, TypeOK
<1>2. ASSUME Reserve PROVE SlotInv'
  BY <1>2, ReservationTyped DEF Reserve, Looping, Occupied, Plans, Decisions, TypeOK
<1>3. ASSUME ReserveRefused PROVE SlotInv'
  <2>1. planning.d = number /\ planning.d \in Decisions
    BY <1>3 DEF ReserveRefused, Plans, TypeOK
  <2>2. outbox[planning.d] = None
    BY <2>1 DEF Decisions, TypeOK
  <2>3. CASE UNCHANGED slot
    BY <1>3, <2>3 DEF ReserveRefused, TypeOK
  <2>4. CASE slot' = Reservation(planning.d)
    BY <1>3, <2>1, <2>2, <2>4, ReservationTyped DEF ReserveRefused, TypeOK
  <2> QED
    BY <1>3, <2>3, <2>4 DEF ReserveRefused, TypeOK
<1>4. ASSUME Dispatch PROVE SlotInv'
  BY <1>4 DEF Dispatch, Plans, TypeOK
<1>5. ASSUME Answer PROVE SlotInv'
  BY <1>5 DEF Answer, Plans, TypeOK
<1>6. ASSUME Handle PROVE SlotInv'
  BY <1>6 DEF Handle, Looping, Publish, Refused, Plans, Publications, Payloads, TypeOK
<1>7. ASSUME Check PROVE SlotInv'
  BY <1>7, CheckDoes DEF AtStep, Moves, Stalls
<1>8. ASSUME Stage PROVE SlotInv'
  BY <1>8, StageDoes DEF AtStep, Moves, Stalls, Stages
<1>9. ASSUME Enqueue PROVE SlotInv'
  BY <1>9, EnqueueDoes DEF AtStep, Moves, Stalls, Enqueues
<1>10. ASSUME Acknowledge PROVE SlotInv'
  BY <1>10, AcknowledgeDoes DEF AtStep, Moves, Stalls, Acknowledges, Readback, Holds
<1>11. ASSUME PublishRefused PROVE SlotInv'
  BY <1>11, RefusalDoes DEF AtStep, Stalls, Stages, Enqueues, Acknowledges
<1>12. ASSUME NEW d \in Decisions, Recover(d) PROVE SlotInv'
  BY <1>12 DEF Recover, Looping, Holds, Plans, Decisions, TypeOK
<1>13. ASSUME TracePass PROVE SlotInv'
  BY <1>13, PassDoes
<1>14. ASSUME TracePassRefused PROVE SlotInv'
  BY <1>14 DEF TracePassRefused, Looping, Refused, TypeOK
<1>15. ASSUME Crash PROVE SlotInv'
  BY <1>15 DEF Crash, TypeOK
<1>16. ASSUME Start PROVE SlotInv'
  BY <1>16, StartDoes DEF Decisions
<1>17. ASSUME NEW how \in Outcomes, Deliver(how) PROVE SlotInv'
  BY <1>17, DeliverDoes DEF AtStep, Closes, TypeOK
<1>18. ASSUME NEW how \in Outcomes, DrainReport(how) PROVE SlotInv'
  BY <1>18 DEF DrainReport, Looping, Outcomes, TypeOK
<1>19. ASSUME UNCHANGED vars PROVE SlotInv'
  BY <1>19 DEF vars, TypeOK
<1> QED
  BY <1>1, <1>2, <1>3, <1>4, <1>5, <1>6, <1>7, <1>8, <1>9, <1>10, <1>11, <1>12, <1>13, <1>14, <1>15,
     <1>16, <1>17, <1>18, <1>19
     DEF Next, Publication

\* What waits in memory waits for the slot.
LEMMA QueueStep == IInv /\ [Next]_vars => QueueInv'
<1> SUFFICES ASSUME IInv, [Next]_vars PROVE QueueInv'
  OBVIOUS
<1> USE NoneAssumption
        DEF IInv, durable, flags, bounds, QueueInv, SlotInv, PlanInv, PublishInv, EmptyQueue
<1>1. ASSUME WriteEvidence PROVE QueueInv'
  BY <1>1 DEF WriteEvidence, Looping, MayPlan, Plans, Decisions, TypeOK
<1>2. ASSUME Reserve PROVE QueueInv'
  BY <1>2, ReservationTyped DEF Reserve, Looping, Occupied, Plans, Decisions, TypeOK
<1>3. ASSUME ReserveRefused PROVE QueueInv'
  BY <1>3, ReservationTyped DEF ReserveRefused, Looping, Refused, Occupied, Decisions, TypeOK
<1>4. ASSUME Dispatch PROVE QueueInv'
  BY <1>4 DEF Dispatch, Plans, TypeOK
<1>5. ASSUME Answer PROVE QueueInv'
  BY <1>5 DEF Answer, Plans, TypeOK
<1>6. ASSUME Handle PROVE QueueInv'
  BY <1>6 DEF Handle, Looping, Publish, Refused, Plans, Publications, Payloads, TypeOK
<1>7. ASSUME Check PROVE QueueInv'
  BY <1>7, CheckDoes DEF AtStep, Moves, Stalls
<1>8. ASSUME Stage PROVE QueueInv'
  BY <1>8, StageDoes DEF AtStep, Moves, Stalls, Stages
<1>9. ASSUME Enqueue PROVE QueueInv'
  BY <1>9, EnqueueDoes DEF AtStep, Moves, Stalls, Enqueues
<1>10. ASSUME Acknowledge PROVE QueueInv'
  BY <1>10, AcknowledgeDoes DEF AtStep, Moves, Stalls, Acknowledges, Readback, Holds
<1>11. ASSUME PublishRefused PROVE QueueInv'
  BY <1>11, RefusalDoes DEF AtStep, Stalls, Stages, Enqueues, Acknowledges
<1>12. ASSUME NEW d \in Decisions, Recover(d) PROVE QueueInv'
  BY <1>12 DEF Recover, Looping, Holds, Plans, Decisions, TypeOK
<1>13. ASSUME TracePass PROVE QueueInv'
  BY <1>13, PassDoes
<1>14. ASSUME TracePassRefused PROVE QueueInv'
  BY <1>14 DEF TracePassRefused, Looping, Refused, TypeOK
<1>15. ASSUME Crash PROVE QueueInv'
  BY <1>15 DEF Crash, TypeOK
<1>16. ASSUME Start PROVE QueueInv'
  BY <1>16, StartDoes DEF Decisions
<1>17. ASSUME NEW how \in Outcomes, Deliver(how) PROVE QueueInv'
  BY <1>17, DeliverDoes DEF AtStep, Closes, TypeOK
<1>18. ASSUME NEW how \in Outcomes, DrainReport(how) PROVE QueueInv'
  BY <1>18 DEF DrainReport, Looping, Outcomes, TypeOK
<1>19. ASSUME UNCHANGED vars PROVE QueueInv'
  BY <1>19 DEF vars, TypeOK
<1> QED
  BY <1>1, <1>2, <1>3, <1>4, <1>5, <1>6, <1>7, <1>8, <1>9, <1>10, <1>11, <1>12, <1>13, <1>14, <1>15,
     <1>16, <1>17, <1>18, <1>19
     DEF Next, Publication

\* A decision in planning has the slot to itself.
LEMMA PlanStep == IInv /\ [Next]_vars => PlanInv'
<1> SUFFICES ASSUME IInv, [Next]_vars PROVE PlanInv'
  OBVIOUS
<1> USE NoneAssumption
        DEF IInv, durable, flags, bounds, PlanInv, PublishInv, GateInv, QueueInv, EmptyQueue
<1>1. ASSUME WriteEvidence PROVE PlanInv'
  BY <1>1 DEF WriteEvidence, Looping, MayPlan, Plans, Decisions, TypeOK
<1>2. ASSUME Reserve PROVE PlanInv'
  BY <1>2, ReservationTyped DEF Reserve, Looping, Occupied, Plans, Decisions, TypeOK
<1>3. ASSUME ReserveRefused PROVE PlanInv'
  BY <1>3, ReservationTyped DEF ReserveRefused, Looping, Refused, Occupied, Decisions, TypeOK
<1>4. ASSUME Dispatch PROVE PlanInv'
  BY <1>4 DEF Dispatch, Plans, TypeOK
<1>5. ASSUME Answer PROVE PlanInv'
  BY <1>5 DEF Answer, Plans, TypeOK
<1>6. ASSUME Handle PROVE PlanInv'
  BY <1>6 DEF Handle, Looping, Publish, Refused, Plans, Publications, Payloads, TypeOK
<1>7. ASSUME Check PROVE PlanInv'
  BY <1>7, CheckDoes DEF AtStep, Moves, Stalls
<1>8. ASSUME Stage PROVE PlanInv'
  BY <1>8, StageDoes DEF AtStep, Moves, Stalls, Stages
<1>9. ASSUME Enqueue PROVE PlanInv'
  BY <1>9, EnqueueDoes DEF AtStep, Moves, Stalls, Enqueues
<1>10. ASSUME Acknowledge PROVE PlanInv'
  BY <1>10, AcknowledgeDoes DEF AtStep, Moves, Stalls, Acknowledges, Readback, Holds
<1>11. ASSUME PublishRefused PROVE PlanInv'
  BY <1>11, RefusalDoes DEF AtStep, Stalls, Stages, Enqueues, Acknowledges
<1>12. ASSUME NEW d \in Decisions, Recover(d) PROVE PlanInv'
  BY <1>12 DEF Recover, Looping, Holds, Plans, Decisions, TypeOK
<1>13. ASSUME TracePass PROVE PlanInv'
  <2>1. UNCHANGED <<slot, planning, pc>>
    BY <1>13, PassDoes
  <2>2. ASSUME planning # None, planning.state \in {"evidence", "calling", "paid"}
        PROVE  queue' = EmptyQueue /\ publishing' = None
    <3>1. queue = EmptyQueue /\ ~(slot # None /\ slot.state = "complete")
      BY <2>2, PassDoes, <1>13 DEF TypeOK, Envelopes
    <3>2. \A d \in Decisions : queue'[d] = None
      BY <1>13, <3>1, PassDoes
    <3>3. queue' = EmptyQueue
      BY <1>13, <3>2, PassDoes DEF Queues
    <3> QED
      BY <1>13, <3>2, <3>3, PassDoes
  <2> QED
    BY <2>1, <2>2
<1>14. ASSUME TracePassRefused PROVE PlanInv'
  BY <1>14 DEF TracePassRefused, Looping, Refused, TypeOK
<1>15. ASSUME Crash PROVE PlanInv'
  BY <1>15 DEF Crash, TypeOK
<1>16. ASSUME Start PROVE PlanInv'
  BY <1>16, StartDoes DEF Decisions
<1>17. ASSUME NEW how \in Outcomes, Deliver(how) PROVE PlanInv'
  BY <1>17, DeliverDoes DEF AtStep, Closes, TypeOK
<1>18. ASSUME NEW how \in Outcomes, DrainReport(how) PROVE PlanInv'
  BY <1>18 DEF DrainReport, Looping, Outcomes, TypeOK
<1>19. ASSUME UNCHANGED vars PROVE PlanInv'
  BY <1>19 DEF vars, TypeOK
<1> QED
  BY <1>1, <1>2, <1>3, <1>4, <1>5, <1>6, <1>7, <1>8, <1>9, <1>10, <1>11, <1>12, <1>13, <1>14, <1>15,
     <1>16, <1>17, <1>18, <1>19
     DEF Next, Publication

\* A trace is published for the slot.
LEMMA PublishStep == IInv /\ [Next]_vars => PublishInv'
<1> SUFFICES ASSUME IInv, [Next]_vars PROVE PublishInv'
  OBVIOUS
<1> USE NoneAssumption
        DEF IInv, durable, flags, bounds, PublishInv, PlanInv, QueueInv, SlotInv, EmptyQueue
<1>1. ASSUME WriteEvidence PROVE PublishInv'
  BY <1>1 DEF WriteEvidence, Looping, MayPlan, Plans, Decisions, TypeOK
<1>2. ASSUME Reserve PROVE PublishInv'
  BY <1>2, ReservationTyped DEF Reserve, Looping, Occupied, Plans, Decisions, TypeOK
<1>3. ASSUME ReserveRefused PROVE PublishInv'
  BY <1>3, ReservationTyped DEF ReserveRefused, Looping, Refused, Occupied, Decisions, TypeOK
<1>4. ASSUME Dispatch PROVE PublishInv'
  BY <1>4 DEF Dispatch, Plans, TypeOK
<1>5. ASSUME Answer PROVE PublishInv'
  BY <1>5 DEF Answer, Plans, TypeOK
<1>6. ASSUME Handle PROVE PublishInv'
  BY <1>6 DEF Handle, Looping, Publish, Refused, Plans, Publications, Payloads, TypeOK
<1>7. ASSUME Check PROVE PublishInv'
  BY <1>7, CheckDoes DEF AtStep, Moves, Stalls
<1>8. ASSUME Stage PROVE PublishInv'
  BY <1>8, StageDoes DEF AtStep, Moves, Stalls, Stages
<1>9. ASSUME Enqueue PROVE PublishInv'
  BY <1>9, EnqueueDoes DEF AtStep, Moves, Stalls, Enqueues
<1>10. ASSUME Acknowledge PROVE PublishInv'
  BY <1>10, AcknowledgeDoes
     DEF AtStep, Moves, Stalls, Acknowledges, Readback, Holds, TypeOK, Publications
<1>11. ASSUME PublishRefused PROVE PublishInv'
  BY <1>11, RefusalDoes DEF AtStep, Stalls, Stages, Enqueues, Acknowledges
<1>12. ASSUME NEW d \in Decisions, Recover(d) PROVE PublishInv'
  BY <1>12 DEF Recover, Looping, Holds, Plans, Decisions, TypeOK
<1>13. ASSUME TracePass PROVE PublishInv'
  <2>1. /\ pc = "loop" /\ failures < MaxTraceFailures /\ queue' \in Queues
        /\ UNCHANGED <<durable, pc, number, planning, failures>>
    BY <1>13, PassDoes
  <2>2. CASE publishing' = None
    BY <2>2
  <2>3. ASSUME NEW d \in Decisions, queue'[d] # None,
               publishing' \in Publications, publishing' # None,
               publishing'.d = d, publishing'.payload = queue'[d].payload,
               publishing'.live = FALSE,
               publishing'.at = IF queue'[d].envelope THEN "enqueue" ELSE "check"
        PROVE  PublishInv'
    <3>1. slot = None \/ slot.d = d
      BY <1>13, <2>3, PassDoes
    <3>2. queue'[d].envelope =>
             \/ slot # None /\ slot.state = "complete" /\ slot.payload = queue'[d].payload
             \/ slot = None /\ outbox[d] = queue'[d].payload
      BY <1>13, <2>3, PassDoes
    <3> QED
      BY <2>1, <2>3, <3>1, <3>2
  <2> QED
    BY <1>13, <2>2, <2>3, PassDoes
<1>14. ASSUME TracePassRefused PROVE PublishInv'
  BY <1>14 DEF TracePassRefused, Looping, Refused, TypeOK
<1>15. ASSUME Crash PROVE PublishInv'
  BY <1>15 DEF Crash, TypeOK
<1>16. ASSUME Start PROVE PublishInv'
  BY <1>16, StartDoes DEF Decisions
<1>17. ASSUME NEW how \in Outcomes, Deliver(how) PROVE PublishInv'
  BY <1>17, DeliverDoes DEF AtStep, Closes, TypeOK
<1>18. ASSUME NEW how \in Outcomes, DrainReport(how) PROVE PublishInv'
  BY <1>18 DEF DrainReport, Looping, Outcomes, TypeOK
<1>19. ASSUME UNCHANGED vars PROVE PublishInv'
  BY <1>19 DEF vars, TypeOK
<1> QED
  BY <1>1, <1>2, <1>3, <1>4, <1>5, <1>6, <1>7, <1>8, <1>9, <1>10, <1>11, <1>12, <1>13, <1>14, <1>15,
     <1>16, <1>17, <1>18, <1>19
     DEF Next, Publication

\* A completed slot waits in memory.
LEMMA GateStep == IInv /\ [Next]_vars => GateInv'
<1> SUFFICES ASSUME IInv, [Next]_vars PROVE GateInv'
  OBVIOUS
<1> USE NoneAssumption
        DEF IInv, durable, flags, bounds, GateInv, PlanInv, PublishInv, SlotInv, QueueInv,
            EmptyQueue
<1>1. ASSUME WriteEvidence PROVE GateInv'
  BY <1>1 DEF WriteEvidence, Looping, MayPlan, Plans, Decisions, TypeOK
<1>2. ASSUME Reserve PROVE GateInv'
  BY <1>2, ReservationTyped DEF Reserve, Looping, Occupied, Plans, Decisions, TypeOK
<1>3. ASSUME ReserveRefused PROVE GateInv'
  BY <1>3, ReservationTyped DEF ReserveRefused, Looping, Refused, Occupied, Plans, TypeOK
<1>4. ASSUME Dispatch PROVE GateInv'
  BY <1>4 DEF Dispatch, Plans, TypeOK
<1>5. ASSUME Answer PROVE GateInv'
  BY <1>5 DEF Answer, Plans, TypeOK
<1>6. ASSUME Handle PROVE GateInv'
  BY <1>6 DEF Handle, Looping, Publish, Refused, Plans, Publications, Payloads, TypeOK
<1>7. ASSUME Check PROVE GateInv'
  BY <1>7, CheckDoes DEF AtStep, Moves, Stalls
<1>8. ASSUME Stage PROVE GateInv'
  BY <1>8, StageDoes DEF AtStep, Moves, Stalls, Stages
<1>9. ASSUME Enqueue PROVE GateInv'
  BY <1>9, EnqueueDoes DEF AtStep, Moves, Stalls, Enqueues
<1>10. ASSUME Acknowledge PROVE GateInv'
  BY <1>10, AcknowledgeDoes DEF AtStep, Moves, Stalls, Acknowledges, Readback, Holds
<1>11. ASSUME PublishRefused PROVE GateInv'
  BY <1>11, RefusalDoes DEF AtStep, Stalls, Stages, Enqueues, Acknowledges
<1>12. ASSUME NEW d \in Decisions, Recover(d) PROVE GateInv'
  BY <1>12 DEF Recover, Looping, Holds, Plans, Decisions, TypeOK
<1>13. ASSUME TracePass PROVE GateInv'
  <2>1. CASE slot # None /\ slot.state = "complete"
    <3>1. slot.d \in Decisions
      BY <2>1 DEF Envelopes, TypeOK
    <3>2. queue'[slot.d] # None
      BY <1>13, <2>1, <3>1, PassDoes
    <3> QED
      BY <1>13, <3>2, PassDoes
  <2> QED
    BY <1>13, <2>1, PassDoes
<1>14. ASSUME TracePassRefused PROVE GateInv'
  BY <1>14 DEF TracePassRefused, Looping, Refused, TypeOK
<1>15. ASSUME Crash PROVE GateInv'
  BY <1>15 DEF Crash, TypeOK
<1>16. ASSUME Start PROVE GateInv'
  <2>1. CASE slot # None /\ slot.state = "complete"
    <3>1. slot.d \in Decisions
      BY <2>1 DEF Envelopes, TypeOK
    <3>2. queue'[slot.d] # None
      BY <1>16, <2>1, <3>1, StartDoes
    <3> QED
      BY <1>16, <3>2, StartDoes
  <2> QED
    BY <1>16, <2>1, StartDoes
<1>17. ASSUME NEW how \in Outcomes, Deliver(how) PROVE GateInv'
  BY <1>17, DeliverDoes DEF AtStep, Closes, TypeOK
<1>18. ASSUME NEW how \in Outcomes, DrainReport(how) PROVE GateInv'
  BY <1>18 DEF DrainReport, Looping, Outcomes, TypeOK
<1>19. ASSUME UNCHANGED vars PROVE GateInv'
  BY <1>19 DEF vars, TypeOK
<1> QED
  BY <1>1, <1>2, <1>3, <1>4, <1>5, <1>6, <1>7, <1>8, <1>9, <1>10, <1>11, <1>12, <1>13, <1>14, <1>15,
     <1>16, <1>17, <1>18, <1>19
     DEF Next, Publication

\* A drain runs beside the loop's own publications only.
LEMMA DrainStep == IInv /\ [Next]_vars => DrainInv'
<1> SUFFICES ASSUME IInv, [Next]_vars PROVE DrainInv'
  OBVIOUS
<1> USE NoneAssumption DEF IInv, durable, flags, bounds, DrainInv
<1>1. ASSUME WriteEvidence PROVE DrainInv'
  BY <1>1 DEF WriteEvidence, Looping, TypeOK
<1>2. ASSUME Reserve PROVE DrainInv'
  BY <1>2 DEF Reserve, Looping, TypeOK
<1>3. ASSUME ReserveRefused PROVE DrainInv'
  BY <1>3 DEF ReserveRefused, Looping, TypeOK
<1>4. ASSUME Dispatch PROVE DrainInv'
  BY <1>4 DEF Dispatch, TypeOK
<1>5. ASSUME Answer PROVE DrainInv'
  BY <1>5 DEF Answer, TypeOK
<1>6. ASSUME Handle PROVE DrainInv'
  BY <1>6 DEF Handle, Looping, Publish, TypeOK
<1>7. ASSUME Check PROVE DrainInv'
  BY <1>7, CheckDoes DEF AtStep, Moves, Stalls, TypeOK
<1>8. ASSUME Stage PROVE DrainInv'
  BY <1>8, StageDoes DEF AtStep, Moves, Stalls, TypeOK
<1>9. ASSUME Enqueue PROVE DrainInv'
  BY <1>9, EnqueueDoes DEF AtStep, Moves, Stalls, TypeOK
<1>10. ASSUME Acknowledge PROVE DrainInv'
  BY <1>10, AcknowledgeDoes DEF AtStep, Moves, Stalls, TypeOK
<1>11. ASSUME PublishRefused PROVE DrainInv'
  BY <1>11, RefusalDoes DEF Stalls, TypeOK
<1>12. ASSUME NEW d \in Decisions, Recover(d) PROVE DrainInv'
  BY <1>12 DEF Recover, Looping, TypeOK
<1>13. ASSUME TracePass PROVE DrainInv'
  BY <1>13, PassDoes DEF TypeOK
<1>14. ASSUME TracePassRefused PROVE DrainInv'
  BY <1>14 DEF TracePassRefused, Looping, TypeOK
<1>15. ASSUME Crash PROVE DrainInv'
  BY <1>15 DEF Crash, TypeOK
<1>16. ASSUME Start PROVE DrainInv'
  BY <1>16, StartDoes DEF TypeOK
<1>17. ASSUME NEW how \in Outcomes, Deliver(how) PROVE DrainInv'
  BY <1>17, DeliverDoes DEF AtStep, Closes, TypeOK
<1>18. ASSUME NEW how \in Outcomes, DrainReport(how) PROVE DrainInv'
  BY <1>18 DEF DrainReport, TypeOK
<1>19. ASSUME UNCHANGED vars PROVE DrainInv'
  BY <1>19 DEF vars, TypeOK
<1> QED
  BY <1>1, <1>2, <1>3, <1>4, <1>5, <1>6, <1>7, <1>8, <1>9, <1>10, <1>11, <1>12, <1>13, <1>14, <1>15,
     <1>16, <1>17, <1>18, <1>19
     DEF Next, Publication

\* No paid call is forgotten.
LEMMA ChargeStep == IInv /\ [Next]_vars => ChargeAccounted'
<1> SUFFICES ASSUME IInv, [Next]_vars PROVE ChargeAccounted'
  OBVIOUS
<1> USE NoneAssumption DEF IInv, durable, flags, bounds, ChargeAccounted, PlanInv, PublishInv
<1>1. ASSUME WriteEvidence PROVE ChargeAccounted'
  BY <1>1 DEF WriteEvidence, Looping, MayPlan, Plans, Decisions, TypeOK
<1>2. ASSUME Reserve PROVE ChargeAccounted'
  BY <1>2, ReservationTyped DEF Reserve, Looping, Occupied, Plans, Decisions, TypeOK
<1>3. ASSUME ReserveRefused PROVE ChargeAccounted'
  BY <1>3, ReservationTyped DEF ReserveRefused, Looping, Refused, Occupied, Decisions, TypeOK
<1>4. ASSUME Dispatch PROVE ChargeAccounted'
  BY <1>4 DEF Dispatch, Plans, TypeOK
<1>5. ASSUME Answer PROVE ChargeAccounted'
  BY <1>5 DEF Answer, Plans, TypeOK
<1>6. ASSUME Handle PROVE ChargeAccounted'
  BY <1>6 DEF Handle, Looping, Publish, Refused, Plans, Publications, Payloads, TypeOK
<1>7. ASSUME Check PROVE ChargeAccounted'
  BY <1>7, CheckDoes DEF AtStep, Moves, Stalls
<1>8. ASSUME Stage PROVE ChargeAccounted'
  BY <1>8, StageDoes DEF AtStep, Moves, Stalls, Stages
<1>9. ASSUME Enqueue PROVE ChargeAccounted'
  BY <1>9, EnqueueDoes DEF AtStep, Moves, Stalls, Enqueues, TypeOK, Publications, Envelopes
<1>10. ASSUME Acknowledge PROVE ChargeAccounted'
  BY <1>10, AcknowledgeDoes
     DEF AtStep, Moves, Stalls, Acknowledges, Readback, Holds, TypeOK, Publications, Envelopes
<1>11. ASSUME PublishRefused PROVE ChargeAccounted'
  BY <1>11, RefusalDoes
     DEF AtStep, Stalls, Stages, Enqueues, Acknowledges, TypeOK, Publications, Envelopes
<1>12. ASSUME NEW d \in Decisions, Recover(d) PROVE ChargeAccounted'
  BY <1>12 DEF Recover, Looping, Holds, Plans, Decisions, TypeOK
<1>13. ASSUME TracePass PROVE ChargeAccounted'
  BY <1>13, PassDoes
<1>14. ASSUME TracePassRefused PROVE ChargeAccounted'
  BY <1>14 DEF TracePassRefused, Looping, Refused, TypeOK
<1>15. ASSUME Crash PROVE ChargeAccounted'
  BY <1>15 DEF Crash, TypeOK
<1>16. ASSUME Start PROVE ChargeAccounted'
  BY <1>16, StartDoes DEF Decisions
<1>17. ASSUME NEW how \in Outcomes, Deliver(how) PROVE ChargeAccounted'
  BY <1>17, DeliverDoes DEF AtStep, Closes, TypeOK
<1>18. ASSUME NEW how \in Outcomes, DrainReport(how) PROVE ChargeAccounted'
  BY <1>18 DEF DrainReport, Looping, Outcomes, TypeOK
<1>19. ASSUME UNCHANGED vars PROVE ChargeAccounted'
  BY <1>19 DEF vars, TypeOK
<1> QED
  BY <1>1, <1>2, <1>3, <1>4, <1>5, <1>6, <1>7, <1>8, <1>9, <1>10, <1>11, <1>12, <1>13, <1>14, <1>15,
     <1>16, <1>17, <1>18, <1>19
     DEF Next, Publication

-----------------------------------------------------------------------------
(* The theorems.                                                           *)

\* The invariant holds at the start,
LEMMA InitInv == Init => IInv
<1> SUFFICES ASSUME Init PROVE IInv
  OBVIOUS
<1> USE DEF Init
<1>1. /\ evidence \in 0..MaxDecisions /\ number \in 1..(MaxDecisions + 1)
      /\ failures \in 0..MaxTraceFailures /\ faults \in 0..MaxFaults /\ crashes \in 0..MaxCrashes
  BY BoundAssumption DEF MaxTraceFailures
<1>2. outbox \in [Decisions -> Payloads \cup {None}] /\ queue \in [Decisions -> Waiting \cup {None}]
  BY DEF EmptyQueue
<1>3. TypeOK
  BY <1>1, <1>2 DEF TypeOK
<1>4. \A d \in Decisions : outbox[d] = None /\ queue[d] = None
  BY DEF EmptyQueue
<1>5. NumbersInv
  BY <1>4 DEF NumbersInv
<1> QED
  BY <1>3, <1>4, <1>5
     DEF IInv, SlotInv, QueueInv, PlanInv, PublishInv, GateInv, DrainInv, ChargeAccounted

\* every step keeps it,
LEMMA StepInv == IInv /\ [Next]_vars => IInv'
  BY TypeStep, NumbersStep, SlotStep, QueueStep, PlanStep, PublishStep, GateStep, DrainStep,
     ChargeStep
     DEF IInv

\* and so it always holds.
THEOREM Inductive == Spec => []IInv
  BY InitInv, StepInv, PTL DEF Spec

\* The control store, the outbox and the controller's memory keep their types
\* for every number of decisions, refusals and deaths.
THEOREM TypesCorrect == Spec => []TypeOK
<1>1. IInv => TypeOK
  BY DEF IInv
<1> QED
  BY <1>1, Inductive, PTL

\* Every call that was paid for is in the slot or in the outbox, whatever was
\* refused or died since (research_control.py: the reservation comes first).
THEOREM ChargesAccounted == Spec => []ChargeAccounted
<1>1. IInv => ChargeAccounted
  BY DEF IInv
<1> QED
  BY <1>1, Inductive, PTL

\* No call is paid for before the earlier ones are traced.
THEOREM CallsInTurn == Spec => PaidInTurn
<1> DEFINE A == \A d \in paid' \ paid : \A e \in paid : outbox[e] # None
<1>1. IInv /\ [Next]_vars => [A]_vars
  <2> SUFFICES ASSUME IInv, [Next]_vars PROVE [A]_vars
    OBVIOUS
  <2>1. ASSUME Dispatch PROVE A
    <3>1. ASSUME NEW d \in paid' \ paid, NEW e \in paid PROVE outbox[e] # None
      <4>1. d = planning.d /\ planning # None /\ planning.state = "calling" /\ e # d
        BY <2>1, <3>1 DEF Dispatch
      <4>2. slot = None \/ slot.d = d
        BY <4>1 DEF IInv, PlanInv
      <4>3. outbox[e] # None \/ (slot # None /\ slot.d = e)
        BY <3>1 DEF IInv, ChargeAccounted
      <4> QED
        BY <4>1, <4>2, <4>3
    <3> QED
      BY <3>1
  <2>2. CASE UNCHANGED paid
    BY <2>2
  <2>3. Dispatch \/ UNCHANGED paid
    BY DEF Next, vars, durable, Publication, WriteEvidence, Reserve, ReserveRefused, Answer,
           Handle, Check, Stage, Enqueue, Acknowledge, PublishRefused, Recover, TracePass,
           TracePassRefused, Crash, Start, Deliver, DrainReport
  <2> QED
    BY <2>1, <2>2, <2>3
<1> QED
  BY <1>1, Inductive, PTL DEF Spec, PaidInTurn
-----------------------------------------------------------------------------
(* The deliveries.  They are steps of the controller's specification, so   *)
(* what is proved of it holds with them; what they keep themselves is      *)
(* proved on the side.                                                     *)

\* A delivery that ends is the end of a publication, or no step at all.
LEMMA EndsDoes ==
    ASSUME NEW t \in Threads, NEW d \in Decisions, NEW how \in Outcomes, Ends(t, d, how)
    PROVE  [Next]_vars
<1>1. CASE Deliver(how)
  BY <1>1 DEF Next
<1>2. CASE UNCHANGED vars
  BY <1>2
<1> QED
  BY <1>1, <1>2 DEF Ends

\* A step of a thread.
LEMMA DeliveringDoes ==
    ASSUME DeliveryTypeOK, NEW t \in Threads, Delivering(t)
    PROVE  [Next]_vars
<1>1. job[t] # None => job[t].d \in Decisions
  BY DEF DeliveryTypeOK, Jobs
<1>2. "clean" \in Outcomes
  BY DEF Outcomes
<1>3. CASE Begin(t)
  <2>1. CASE UNCHANGED vars
    BY <2>1
  <2>2. CASE \E d \in Decisions : Ends(t, d, "clean")
    BY <1>2, <2>2, EndsDoes
  <2> QED
    BY <1>3, <2>1, <2>2 DEF Begin
<1>4. CASE PublishRow(t)
  BY <1>1, <1>2, <1>4, EndsDoes DEF PublishRow, At
<1>5. CASE Persist(t) \/ EndSpan(t) \/ Verify(t)
  BY <1>5 DEF Persist, EndSpan, Verify, Goes
<1> QED
  BY <1>3, <1>4, <1>5 DEF Delivering

\* Every step of the composition is a step of the controller, or none of its.
LEMMA DeliveryStepsNext ==
    ASSUME DeliveryTypeOK, [DeliveryNext]_allVars
    PROVE  [Next]_vars
<1>1. ASSUME NEW t \in Threads, Delivering(t) PROVE [Next]_vars
  BY <1>1, DeliveringDoes
<1>2. ASSUME NEW t \in Threads, NEW how \in {"errors", "storage"}, Fail(t, how)
      PROVE  [Next]_vars
  <2>1. how \in Outcomes /\ job[t].d \in Decisions
    BY <1>2 DEF Outcomes, Fail, DeliveryTypeOK, Jobs
  <2> QED
    BY <1>2, <2>1, EndsDoes DEF Fail
<1>3. CASE Report
  <2>1. outcome \in Outcomes
    BY <1>3 DEF Report, DeliveryTypeOK
  <2> QED
    BY <1>3, <2>1 DEF Report, Next
<1>4. CASE Select \/ SelectRefused \/ UNCHANGED allVars
  BY <1>4 DEF Select, SelectRefused, allVars
<1>5. CASE PassAndDrain \/ CrashDelivery
  BY <1>5 DEF PassAndDrain, CrashDelivery, Next
<1>6. CASE \/ Controls(WriteEvidence) \/ Controls(Reserve) \/ Controls(ReserveRefused)
           \/ Controls(Dispatch) \/ Controls(Answer) \/ Controls(Handle)
           \/ Controls(Publication) \/ Controls(PublishRefused)
           \/ Controls(TracePassRefused) \/ Controls(Start)
  BY <1>6 DEF Controls, Next
<1>7. CASE \E d \in Decisions : Controls(Recover(d))
  BY <1>7 DEF Controls, Next
<1> QED
  BY <1>1, <1>2, <1>3, <1>4, <1>5, <1>6, <1>7 DEF DeliveryNext

\* A trace is published on the server before the row says so.
PublishedInv == \A t \in Threads : At(t, "publish") => Trace(t) \in readable

\* What names a trace names a span that was begun.
IdsInv ==
    /\ \A d \in Decisions : receipt[d] # None => receipt[d] \in 1..Len(spans[d])
    /\ \A t \in Threads : job[t] # None /\ ~At(t, "emit") => job[t].id \in 1..Len(spans[job[t].d])
    /\ \A n \in readable : n[2] \in 1..Len(spans[n[1]])

\* A row has no saved span before it has its receipt, and a thread that saved
\* one is not about to emit another; two of them are of two threads that
\* overlapped.
SavedInv ==
    \A d \in Decisions : \A i \in 1..Len(spans[d]) : spans[d][i] # None =>
        /\ receipt[d] # None
        /\ \A t \in Threads : At(t, "emit") /\ job[t].d = d => spans[d][i] # t
        /\ \A j \in 1..Len(spans[d]) : spans[d][j] # None /\ j # i =>
               d \in overlapped /\ spans[d][i] # spans[d][j]

\* A row two threads were never delivering is delivered by one at a time, and
\* emitted only before it has its receipt.
AloneInv ==
    \A d \in Decisions \ overlapped : \A t \in Threads : job[t] # None /\ job[t].d = d =>
        /\ At(t, "emit") => receipt[d] = None
        /\ \A u \in Threads \ {t} : ~(job[u] # None /\ job[u].d = d)

DInv == DeliveryTypeOK /\ LinksReadable /\ PublishedInv /\ IdsInv /\ SavedInv /\ AloneInv

\* What a thread that is not at work any more leaves behind.
LEMMA EndsTyped ==
    ASSUME DInv, NEW t \in Threads, NEW d \in Decisions, NEW how \in Outcomes, Ends(t, d, how)
    PROVE  /\ job' \in [Threads -> Jobs \cup {None}]
           /\ job'[t] = None /\ \A u \in Threads \ {t} : job'[u] = job[u]
           /\ batch' \subseteq Decisions
           /\ outcome' \in Outcomes \cup {None}
  BY DEF DInv, DeliveryTypeOK, Ends

\* A thread that is at work is at the delivery of a decision.
LEMMA AtWork ==
    ASSUME DInv, NEW t \in Threads, job[t] # None
    PROVE  /\ job[t] \in Jobs /\ job[t].d \in Decisions
           /\ ~At(t, "emit") => job[t].id \in Nat
           /\ At(t, "emit") => job[t].id = None
  BY DEF DInv, DeliveryTypeOK, Jobs, At

\* A delivery begins.
LEMMA BeginKeeps ==
    ASSUME DInv, NEW t \in Threads, Begin(t)
    PROVE  DInv'
<1> USE NoneAssumption, NoJobAssumption, DeliveryAssumption
<1>1. /\ job[t] = None
      /\ UNCHANGED <<receipt, delivered, link, spans, readable, outages>>
  BY DEF Begin, Has
<1>2. CASE \E d \in Decisions : Ends(t, d, "clean") /\ UNCHANGED overlapped
  <2>1. "clean" \in Outcomes
    BY DEF Outcomes
  <2>2. /\ job' \in [Threads -> Jobs \cup {None}]
        /\ job'[t] = None /\ \A u \in Threads \ {t} : job'[u] = job[u]
        /\ batch' \subseteq Decisions /\ outcome' \in Outcomes \cup {None}
        /\ UNCHANGED overlapped
    BY <1>2, <2>1, EndsTyped
  <2>3. \A u \in Threads : job'[u] = job[u]
    BY <1>1, <2>2
  <2>4. DeliveryTypeOK'
    BY <1>1, <2>2, <2>3 DEF DInv, DeliveryTypeOK
  <2>5. LinksReadable' /\ PublishedInv'
    BY <1>1, <2>2, <2>3 DEF DInv, LinksReadable, PublishedInv, At, Trace
  <2>6. IdsInv' /\ SavedInv'
    BY <1>1, <2>2, <2>3 DEF DInv, IdsInv, SavedInv, At
  <2>7. AloneInv'
    BY <1>1, <2>2, <2>3 DEF DInv, AloneInv, At
  <2> QED
    BY <2>4, <2>5, <2>6, <2>7 DEF DInv
<1>3. ASSUME NEW d \in Decisions,
             job' = [job EXCEPT ![t] =
                       [d |-> d, id |-> receipt[d],
                        at |-> IF receipt[d] = None THEN "emit" ELSE "verify"]],
             overlapped' = IF \E u \in Threads \ {t} : job[u] # None /\ job[u].d = d
                           THEN overlapped \cup {d} ELSE overlapped,
             UNCHANGED <<batch, outcome>>
      PROVE  DInv'
  <2> DEFINE new == [d |-> d, id |-> receipt[d],
                     at |-> IF receipt[d] = None THEN "emit" ELSE "verify"]
  <2>1. receipt[d] \in Nat \cup {None}
    BY DEF DInv, DeliveryTypeOK
  <2>2. /\ new \in Jobs /\ new # None /\ new.d = d /\ new.id = receipt[d]
        /\ (new.at = "emit" <=> new.id = None) /\ new.at # "publish"
    BY <2>1 DEF Jobs
  <2>3. /\ job' \in [Threads -> Jobs \cup {None}]
        /\ job'[t] = new /\ \A u \in Threads \ {t} : job'[u] = job[u]
    BY <1>3, <2>2 DEF DInv, DeliveryTypeOK
  <2> HIDE DEF new
  <2>4. overlapped \subseteq overlapped' /\ overlapped' \subseteq overlapped \cup {d}
        /\ ((\E u \in Threads \ {t} : job[u] # None /\ job[u].d = d) => d \in overlapped')
    BY <1>3
  <2>5. DeliveryTypeOK'
    <3>1. \A u \in Threads : job'[u] # None => (job'[u].at = "emit" <=> job'[u].id = None)
      BY <2>2, <2>3 DEF DInv, DeliveryTypeOK
    <3> QED
      BY <1>1, <1>3, <2>3, <2>4, <3>1 DEF DInv, DeliveryTypeOK
  <2>6. LinksReadable' /\ PublishedInv'
    BY <1>1, <2>2, <2>3 DEF DInv, LinksReadable, PublishedInv, At, Trace
  <2>7. new.at = "emit" <=> receipt[d] = None
    BY <2>2
  <2>8. IdsInv'
    <3>1. job'[t] # None /\ ~At(t, "emit")' => job'[t].id \in 1..Len(spans[d])
      BY <2>1, <2>2, <2>3, <2>7 DEF DInv, IdsInv, At
    <3> QED
      BY <1>1, <2>2, <2>3, <3>1 DEF DInv, IdsInv, At
  <2>9. SavedInv'
    <3> SUFFICES ASSUME NEW e \in Decisions, NEW i \in 1..Len(spans[e]), spans[e][i] # None
                 PROVE  /\ receipt[e] # None
                        /\ \A v \in Threads : At(v, "emit")' /\ job'[v].d = e => spans[e][i] # v
                        /\ \A j \in 1..Len(spans[e]) : spans[e][j] # None /\ j # i =>
                               e \in overlapped' /\ spans[e][i] # spans[e][j]
      BY <1>1 DEF SavedInv
    <3>1. /\ receipt[e] # None
          /\ \A j \in 1..Len(spans[e]) : spans[e][j] # None /\ j # i =>
                 e \in overlapped' /\ spans[e][i] # spans[e][j]
      BY <2>4 DEF DInv, SavedInv
    <3>2. ASSUME NEW v \in Threads, At(v, "emit")', job'[v].d = e PROVE spans[e][i] # v
      <4>1. CASE v = t
        BY <2>2, <2>3, <2>7, <3>1, <3>2, <4>1 DEF At
      <4>2. CASE v # t
        BY <2>3, <3>2, <4>2 DEF DInv, SavedInv, At
      <4> QED
        BY <4>1, <4>2
    <3> QED
      BY <3>1, <3>2
  <2>10. AloneInv'
    <3> SUFFICES ASSUME NEW e \in Decisions \ overlapped', NEW v \in Threads,
                        job'[v] # None, job'[v].d = e
                 PROVE  /\ At(v, "emit")' => receipt[e] = None
                        /\ \A u \in Threads \ {v} : ~(job'[u] # None /\ job'[u].d = e)
      BY <1>1 DEF AloneInv
    <3>1. e \notin overlapped
      BY <2>4
    <3>2. e = d => \A u \in Threads \ {t} : ~(job[u] # None /\ job[u].d = e)
      BY <2>4
    <3>3. CASE v = t
      BY <1>1, <2>2, <2>3, <2>7, <3>2, <3>3 DEF At
    <3>4. CASE v # t
      <4>1. job[v] # None /\ job[v].d = e
        BY <2>3, <3>4
      <4>2. e # d
        BY <3>2, <3>4, <4>1
      <4> QED
        BY <1>1, <2>2, <2>3, <3>1, <3>4, <4>1, <4>2 DEF DInv, AloneInv, At
    <3> QED
      BY <3>3, <3>4
  <2> QED
    BY <2>5, <2>6, <2>8, <2>9, <2>10 DEF DInv
<1> QED
  BY <1>2, <1>3 DEF Begin

\* A new span is the last of its decision, and changes no other.
LEMMA SpanDoes ==
    ASSUME DInv, NEW d \in Decisions, NEW by \in Threads \cup {None}, Span(d, by)
    PROVE  /\ spans' \in [Decisions -> Seq(Threads \cup {None})]
           /\ Len(spans[d]) \in Nat /\ NewTrace(d) = Len(spans[d]) + 1
           /\ Len(spans'[d]) = NewTrace(d) /\ spans'[d][NewTrace(d)] = by
           /\ \A i \in 1..Len(spans[d]) : spans'[d][i] = spans[d][i]
           /\ \A e \in Decisions \ {d} : spans'[e] = spans[e]
<1>1. spans[d] \in Seq(Threads \cup {None})
  BY DEF DInv, DeliveryTypeOK
<1>2. /\ spans' \in [Decisions -> Seq(Threads \cup {None})]
      /\ spans'[d] = Append(spans[d], by)
      /\ \A e \in Decisions \ {d} : spans'[e] = spans[e]
  BY <1>1 DEF DInv, DeliveryTypeOK, Span
<1> QED
  BY <1>1, <1>2 DEF NewTrace

\* A span is begun, and its receipt persisted or refused, whether the thread
\* goes on or fails.
LEMMA SpanKeeps ==
    ASSUME DInv, NEW t \in Threads, At(t, "emit"), NEW by \in {t, None},
           Span(job[t].d, by),
           receipt' = IF by = t THEN [receipt EXCEPT ![job[t].d] = NewTrace(job[t].d)] ELSE receipt,
           readable' \in {readable, readable \cup {<<job[t].d, NewTrace(job[t].d)>>}},
           job' \in [Threads -> Jobs \cup {None}],
           \A u \in Threads \ {t} : job'[u] = job[u],
           \/ job'[t] = None
           \/ /\ job'[t] # None /\ job'[t].d = job[t].d /\ job'[t].at = "span"
              /\ job'[t].id = NewTrace(job[t].d),
           batch' \subseteq Decisions, outcome' \in Outcomes \cup {None},
           outages' \in 0..MaxOutages,
           UNCHANGED <<delivered, link, overlapped>>
    PROVE  DInv'
<1> USE NoneAssumption, NoJobAssumption, DeliveryAssumption
<1> DEFINE d == job[t].d
           k == NewTrace(d)
<1>1. d \in Decisions /\ job[t] # None
  BY AtWork DEF At
<1>2. /\ spans' \in [Decisions -> Seq(Threads \cup {None})]
      /\ Len(spans[d]) \in Nat /\ k = Len(spans[d]) + 1 /\ Len(spans'[d]) = k
      /\ spans'[d][k] = by
      /\ \A i \in 1..Len(spans[d]) : spans'[d][i] = spans[d][i]
      /\ \A e \in Decisions \ {d} : spans'[e] = spans[e]
  BY <1>1, SpanDoes
<1>3. /\ receipt' \in [Decisions -> Nat \cup {None}]
      /\ receipt'[d] = IF by = t THEN k ELSE receipt[d]
      /\ \A e \in Decisions \ {d} : receipt'[e] = receipt[e]
  BY <1>1, <1>2 DEF DInv, DeliveryTypeOK
<1>4. job'[t] # None => job'[t].d = d /\ job'[t].id = k /\ job'[t].at = "span"
  OBVIOUS
<1>5. \A n \in readable' : n \in readable \/ n = <<d, k>>
  OBVIOUS
<1>6. readable \subseteq readable' /\ readable' \subseteq Decisions \X Nat
  BY <1>1, <1>2 DEF DInv, DeliveryTypeOK
<1>7. At(t, "emit") /\ job[t].d = d
  OBVIOUS
<1> HIDE DEF d, k
<1>8. /\ k \in Nat \ {0} /\ k # None
      /\ \A i \in 1..k : i = k \/ i \in 1..Len(spans[d])
      /\ \A i \in 1..Len(spans[d]) : i \in 1..k /\ i # k
  BY <1>2
<1>9. /\ ~At(t, "emit")'
      /\ \A u \in Threads : At(u, "emit")' => u # t /\ At(u, "emit") /\ job'[u] = job[u]
  BY <1>4 DEF At
<1>10. DeliveryTypeOK'
  <2>1. job'[t] # None => (job'[t].at = "emit" <=> job'[t].id = None)
    BY <1>4, <1>8
  <2>2. \A u \in Threads \ {t} : job'[u] # None => (job'[u].at = "emit" <=> job'[u].id = None)
    BY DEF DInv, DeliveryTypeOK
  <2>3. \A u \in Threads : job'[u] # None => (job'[u].at = "emit" <=> job'[u].id = None)
    BY <2>1, <2>2
  <2> QED
    BY <1>2, <1>3, <1>6, <2>3 DEF DInv, DeliveryTypeOK
<1>11. LinksReadable' /\ PublishedInv'
  BY <1>4, <1>6 DEF DInv, LinksReadable, PublishedInv, At, Trace
<1>12. IdsInv'
  <2>1. \A e \in Decisions : receipt'[e] # None => receipt'[e] \in 1..Len(spans'[e])
    <3> SUFFICES ASSUME NEW e \in Decisions, receipt'[e] # None
                 PROVE  receipt'[e] \in 1..Len(spans'[e])
      OBVIOUS
    <3>1. CASE e = d
      <4>1. receipt[d] # None => receipt[d] \in 1..Len(spans[d])
        BY <1>1 DEF DInv, IdsInv
      <4> QED
        BY <1>2, <1>3, <1>8, <3>1, <4>1
    <3>2. CASE e # d
      BY <1>2, <1>3, <3>2 DEF DInv, IdsInv
    <3> QED
      BY <3>1, <3>2
  <2>2. ASSUME NEW u \in Threads, job'[u] # None, ~At(u, "emit")'
        PROVE  job'[u].id \in 1..Len(spans'[job'[u].d])
    <3>1. CASE u = t
      BY <1>2, <1>4, <1>8, <2>2, <3>1
    <3>2. CASE u # t
      <4>1. job'[u] = job[u] /\ ~At(u, "emit")
        BY <2>2, <3>2 DEF At
      <4>2. job[u].id \in 1..Len(spans[job[u].d]) /\ job[u].d \in Decisions
        BY <2>2, <4>1, AtWork DEF DInv, IdsInv
      <4> QED
        BY <1>2, <1>8, <4>1, <4>2
    <3> QED
      BY <3>1, <3>2
  <2>3. ASSUME NEW n \in readable' PROVE n[2] \in 1..Len(spans'[n[1]])
    <3>1. CASE n = <<d, k>>
      BY <1>2, <1>8, <3>1
    <3>2. CASE n \in readable
      <4>1. n[2] \in 1..Len(spans[n[1]]) /\ n[1] \in Decisions
        BY <3>2 DEF DInv, IdsInv, DeliveryTypeOK
      <4> QED
        BY <1>2, <1>8, <4>1
    <3> QED
      BY <1>5, <2>3, <3>1, <3>2
  <2> QED
    BY <2>1, <2>2, <2>3 DEF IdsInv
<1>13. SavedInv'
  <2> SUFFICES ASSUME NEW e \in Decisions, NEW i \in 1..Len(spans'[e]), spans'[e][i] # None
               PROVE  /\ receipt'[e] # None
                      /\ \A u \in Threads : At(u, "emit")' /\ job'[u].d = e => spans'[e][i] # u
                      /\ \A j \in 1..Len(spans'[e]) : spans'[e][j] # None /\ j # i =>
                             e \in overlapped' /\ spans'[e][i] # spans'[e][j]
    BY DEF SavedInv
  <2>1. CASE e # d
    <3>1. spans'[e] = spans[e] /\ receipt'[e] = receipt[e]
      BY <1>2, <1>3, <2>1
    <3>2. i \in 1..Len(spans[e]) /\ spans[e][i] # None
      BY <3>1
    <3>3. /\ receipt[e] # None
          /\ \A u \in Threads : At(u, "emit") /\ job[u].d = e => spans[e][i] # u
          /\ \A j \in 1..Len(spans[e]) : spans[e][j] # None /\ j # i =>
                 e \in overlapped /\ spans[e][i] # spans[e][j]
      BY <3>2 DEF DInv, SavedInv
    <3> QED
      BY <1>9, <3>1, <3>3
  <2>2. CASE e = d
    <3>1. ASSUME NEW j \in 1..Len(spans[d]), spans[d][j] # None
          PROVE  /\ receipt[d] # None /\ spans[d][j] # t
                 /\ d \in overlapped
      <4>1. receipt[d] # None /\ spans[d][j] # t
        BY <1>1, <1>7, <3>1 DEF DInv, SavedInv
      <4> QED
        BY <1>1, <1>7, <4>1 DEF DInv, AloneInv
    <3>2. by = None \/ by = t
      OBVIOUS
    <3>3. CASE i = k
      <4>1. spans'[d][i] = t /\ by = t
        BY <1>2, <2>2, <3>2, <3>3
      <4>2. receipt'[e] # None
        BY <1>3, <1>8, <2>2, <4>1
      <4>3. \A j \in 1..Len(spans'[e]) : spans'[e][j] # None /\ j # i =>
                e \in overlapped' /\ spans'[e][i] # spans'[e][j]
        BY <1>2, <1>8, <2>2, <3>1, <3>3, <4>1
      <4> QED
        BY <1>9, <2>2, <4>1, <4>2, <4>3
    <3>4. CASE i # k
      <4>1. i \in 1..Len(spans[d]) /\ spans'[d][i] = spans[d][i] /\ spans[d][i] # None
        BY <1>2, <1>8, <2>2, <3>4
      <4>2. receipt'[e] # None
        BY <1>3, <1>8, <2>2, <3>1, <4>1
      <4>3. \A u \in Threads : At(u, "emit")' /\ job'[u].d = e => spans'[e][i] # u
        BY <1>1, <1>9, <2>2, <4>1 DEF DInv, SavedInv
      <4>4. ASSUME NEW j \in 1..Len(spans'[e]), spans'[e][j] # None, j # i
            PROVE  e \in overlapped' /\ spans'[e][i] # spans'[e][j]
        <5>1. CASE j = k
          BY <1>2, <2>2, <3>1, <3>2, <4>1, <4>4, <5>1
        <5>2. CASE j # k
          <6>1. j \in 1..Len(spans[d]) /\ spans'[d][j] = spans[d][j]
            BY <1>2, <1>8, <2>2, <5>2
          <6> QED
            BY <1>1, <2>2, <4>1, <4>4, <6>1 DEF DInv, SavedInv
        <5> QED
          BY <5>1, <5>2
      <4> QED
        BY <4>2, <4>3, <4>4
    <3> QED
      BY <3>3, <3>4
  <2> QED
    BY <2>1, <2>2
<1>14. AloneInv'
  <2> SUFFICES ASSUME NEW e \in Decisions \ overlapped', NEW v \in Threads,
                      job'[v] # None, job'[v].d = e
               PROVE  /\ At(v, "emit")' => receipt'[e] = None
                      /\ \A u \in Threads \ {v} : ~(job'[u] # None /\ job'[u].d = e)
    BY DEF AloneInv
  <2>1. \A u \in Threads : job'[u] # None => job[u] # None /\ job'[u].d = job[u].d
    BY <1>1, <1>4, <1>7
  <2>2. \A u \in Threads \ {v} : ~(job'[u] # None /\ job'[u].d = e)
    BY <2>1 DEF DInv, AloneInv
  <2>3. ASSUME At(v, "emit")' PROVE receipt'[e] = None
    <3>1. v # t /\ At(v, "emit") /\ job[v] # None /\ job[v].d = e
      BY <1>9, <2>1, <2>3
    <3>2. e # d
      BY <1>1, <1>7, <3>1 DEF DInv, AloneInv
    <3> QED
      BY <1>3, <3>1, <3>2 DEF DInv, AloneInv
  <2> QED
    BY <2>2, <2>3
<1> QED
  BY <1>10, <1>11, <1>12, <1>13, <1>14 DEF DInv

\* The trace a thread delivers gets on the server, or is there already, and
\* the thread goes on or fails.
LEMMA UploadKeeps ==
    ASSUME DInv, NEW t \in Threads, job[t] # None, ~At(t, "emit"),
           readable' \in {readable, readable \cup {Trace(t)}},
           job' \in [Threads -> Jobs \cup {None}],
           \A u \in Threads \ {t} : job'[u] = job[u],
           \/ job'[t] = None
           \/ /\ job'[t] # None /\ job'[t].d = job[t].d /\ job'[t].id = job[t].id
              /\ job'[t].at # "emit"
              /\ job'[t].at = "publish" => Trace(t) \in readable',
           batch' \subseteq Decisions, outcome' \in Outcomes \cup {None},
           outages' \in 0..MaxOutages,
           UNCHANGED <<receipt, delivered, link, spans, overlapped>>
    PROVE  DInv'
<1> USE NoneAssumption, NoJobAssumption, DeliveryAssumption
<1>1. job[t].d \in Decisions /\ job[t].id \in Nat
  BY AtWork
<1>2. readable' \subseteq Decisions \X Nat /\ readable \subseteq readable'
      /\ \A n \in readable' : n \in readable \/ n = Trace(t)
  BY <1>1 DEF DInv, DeliveryTypeOK, Trace
<1>3. DeliveryTypeOK'
  <2>1. \A u \in Threads : job'[u] # None => (job'[u].at = "emit" <=> job'[u].id = None)
    BY <1>1 DEF DInv, DeliveryTypeOK
  <2> QED
    BY <1>2, <2>1 DEF DInv, DeliveryTypeOK
<1>4. LinksReadable'
  BY <1>2 DEF DInv, LinksReadable
<1>5. PublishedInv'
  <2>1. ASSUME NEW u \in Threads, At(u, "publish")' PROVE Trace(u)' \in readable'
    <3>1. CASE u = t
      BY <2>1, <3>1 DEF At, Trace
    <3>2. CASE u # t
      BY <1>2, <2>1, <3>2 DEF DInv, PublishedInv, At, Trace
    <3> QED
      BY <3>1, <3>2
  <2> QED
    BY <2>1 DEF PublishedInv
<1>6. \A u \in Threads :
        /\ job'[u] # None => job[u] # None /\ job'[u].d = job[u].d /\ job'[u].id = job[u].id
        /\ At(u, "emit")' => At(u, "emit")
        /\ job'[u] # None /\ At(u, "emit") => At(u, "emit")'
  BY DEF At
<1>7. IdsInv'
  <2>1. job[t].id \in 1..Len(spans[job[t].d])
    BY DEF DInv, IdsInv
  <2>2. \A n \in readable' : n[2] \in 1..Len(spans[n[1]])
    BY <1>2, <2>1 DEF DInv, IdsInv, Trace
  <2>3. ASSUME NEW u \in Threads, job'[u] # None, ~At(u, "emit")'
        PROVE  job'[u].id \in 1..Len(spans[job'[u].d])
    BY <1>6, <2>3 DEF DInv, IdsInv
  <2> QED
    BY <2>2, <2>3 DEF DInv, IdsInv
<1>8. SavedInv'
  BY <1>6 DEF DInv, SavedInv, At
<1>9. AloneInv'
  <2> SUFFICES ASSUME NEW e \in Decisions \ overlapped, NEW v \in Threads,
                      job'[v] # None, job'[v].d = e
               PROVE  /\ At(v, "emit")' => receipt[e] = None
                      /\ \A u \in Threads \ {v} : ~(job'[u] # None /\ job'[u].d = e)
    BY DEF AloneInv
  <2> QED
    BY <1>6 DEF DInv, AloneInv
<1> QED
  BY <1>3, <1>4, <1>5, <1>7, <1>8, <1>9 DEF DInv

\* The link is written, and the row perhaps marked.
LEMMA LinkKeeps ==
    ASSUME DInv, NEW t \in Threads, At(t, "publish"),
           link' = [link EXCEPT ![job[t].d] = job[t].id],
           delivered' \in {delivered, delivered \cup {job[t].d}},
           job' \in [Threads -> Jobs \cup {None}], job'[t] = None,
           \A u \in Threads \ {t} : job'[u] = job[u],
           batch' \subseteq Decisions, outcome' \in Outcomes \cup {None},
           outages' \in 0..MaxOutages,
           UNCHANGED <<receipt, spans, readable, overlapped>>
    PROVE  DInv'
<1> USE NoneAssumption, NoJobAssumption, DeliveryAssumption
<1>1. job[t].d \in Decisions /\ job[t].id \in Nat /\ job[t] # None
  BY AtWork DEF At
<1>2. <<job[t].d, job[t].id>> \in readable
  BY DEF DInv, PublishedInv, Trace
<1>3. /\ link' \in [Decisions -> Nat \cup {None}]
      /\ link'[job[t].d] = job[t].id
      /\ \A e \in Decisions \ {job[t].d} : link'[e] = link[e]
  BY <1>1 DEF DInv, DeliveryTypeOK
<1>4. DeliveryTypeOK'
  <2>1. \A u \in Threads : job'[u] # None => (job'[u].at = "emit" <=> job'[u].id = None)
    BY DEF DInv, DeliveryTypeOK
  <2> QED
    BY <1>1, <1>3, <2>1 DEF DInv, DeliveryTypeOK
<1>5. LinksReadable'
  BY <1>1, <1>2, <1>3 DEF DInv, LinksReadable
<1>6. PublishedInv'
  BY DEF DInv, PublishedInv, At, Trace
<1>7. \A u \in Threads : job'[u] # None => job'[u] = job[u]
  OBVIOUS
<1>8. IdsInv' /\ SavedInv'
  BY <1>7 DEF DInv, IdsInv, SavedInv, At
<1>9. AloneInv'
  BY <1>7 DEF DInv, AloneInv, At
<1> QED
  BY <1>4, <1>5, <1>6, <1>8, <1>9 DEF DInv

\* A thread that goes on keeps its decision and its trace.
LEMMA GoesTyped ==
    ASSUME DInv, NEW t \in Threads, job[t] # None,
           NEW at \in {"span", "verify", "publish"}, Goes(t, at)
    PROVE  /\ job' \in [Threads -> Jobs \cup {None}]
           /\ job'[t] # None /\ job'[t].d = job[t].d /\ job'[t].id = job[t].id /\ job'[t].at = at
           /\ \A u \in Threads \ {t} : job'[u] = job[u]
           /\ UNCHANGED <<vars, batch, outcome>>
<1>1. job[t] \in Jobs
  BY AtWork
<1>2. [job[t] EXCEPT !.at = at] \in Jobs /\ [job[t] EXCEPT !.at = at] # None
  BY <1>1, NoJobAssumption DEF Jobs
<1>3. job' = [job EXCEPT ![t] = [job[t] EXCEPT !.at = at]]
  BY DEF Goes
<1> QED
  BY <1>1, <1>2, <1>3, NoJobAssumption DEF DInv, DeliveryTypeOK, Goes, Jobs

\* Every step of a thread keeps the invariant;
LEMMA DeliveringKeeps ==
    ASSUME DInv, NEW t \in Threads, Delivering(t)
    PROVE  DInv'
<1>0. /\ batch \subseteq Decisions /\ outcome \in Outcomes \cup {None}
      /\ outages \in 0..MaxOutages /\ "clean" \in Outcomes
  BY DEF DInv, DeliveryTypeOK, Outcomes
<1>1. CASE Begin(t)
  BY <1>1, BeginKeeps
<1>2. CASE Persist(t)
  <2>1. job[t] # None /\ job[t].d \in Decisions
    BY <1>2, AtWork DEF Persist, At
  <2> DEFINE new == [d |-> job[t].d, id |-> NewTrace(job[t].d), at |-> "span"]
  <2>2. new \in Jobs /\ new # None
    <3>1. spans[job[t].d] \in Seq(Threads \cup {None})
      BY <2>1 DEF DInv, DeliveryTypeOK
    <3> QED
      BY <2>1, <3>1, NoJobAssumption DEF NewTrace, Jobs
  <2>3. job' = [job EXCEPT ![t] = new]
    BY <1>2 DEF Persist
  <2>4. /\ job' \in [Threads -> Jobs \cup {None}] /\ job'[t] = new
        /\ \A u \in Threads \ {t} : job'[u] = job[u]
    BY <2>2, <2>3 DEF DInv, DeliveryTypeOK
  <2> QED
    BY <1>0, <1>2, <2>2, <2>4, SpanKeeps DEF Persist
<1>3. CASE EndSpan(t)
  <2>1. job[t] # None /\ ~At(t, "emit")
    BY <1>3 DEF EndSpan, At
  <2> QED
    BY <1>0, <1>3, <2>1, GoesTyped, UploadKeeps DEF EndSpan
<1>4. CASE Verify(t)
  <2>1. job[t] # None /\ ~At(t, "emit")
    BY <1>4 DEF Verify, At
  <2> QED
    BY <1>0, <1>4, <2>1, GoesTyped, UploadKeeps DEF Verify
<1>5. CASE PublishRow(t)
  <2>1. job[t].d \in Decisions
    BY <1>5, AtWork DEF PublishRow, At
  <2> QED
    BY <1>0, <1>5, <2>1, EndsTyped, LinkKeeps DEF PublishRow
<1> QED
  BY <1>1, <1>2, <1>3, <1>4, <1>5 DEF Delivering

\* so does a failure,
LEMMA FailKeeps ==
    ASSUME DInv, NEW t \in Threads, NEW how \in {"errors", "storage"}, Fail(t, how)
    PROVE  DInv'
<1>1. /\ job[t] # None /\ job[t].d \in Decisions /\ how \in Outcomes
      /\ outages' \in 0..MaxOutages /\ UNCHANGED overlapped
  BY AtWork, DeliveryAssumption DEF Fail, DInv, DeliveryTypeOK, Outcomes
<1>2. /\ job' \in [Threads -> Jobs \cup {None}]
      /\ job'[t] = None /\ \A u \in Threads \ {t} : job'[u] = job[u]
      /\ batch' \subseteq Decisions /\ outcome' \in Outcomes \cup {None}
  BY <1>1, EndsTyped DEF Fail
<1> DEFINE d == job[t].d
           exported == readable \cup {<<d, NewTrace(d)>>}
<1>3. CASE UNCHANGED <<receipt, link, spans, readable, delivered>>
  <2>1. \A u \in Threads : job'[u] # None => job'[u] = job[u]
    BY <1>2
  <2>2. DeliveryTypeOK'
    BY <1>1, <1>2, <1>3, <2>1 DEF DInv, DeliveryTypeOK
  <2>3. LinksReadable' /\ PublishedInv'
    BY <1>1, <1>3, <2>1 DEF DInv, LinksReadable, PublishedInv, At, Trace
  <2>4. IdsInv' /\ SavedInv'
    BY <1>1, <1>3, <2>1 DEF DInv, IdsInv, SavedInv, At
  <2>5. AloneInv'
    BY <1>1, <1>3, <2>1 DEF DInv, AloneInv, At
  <2> QED
    BY <2>2, <2>3, <2>4, <2>5 DEF DInv
<1>4. CASE /\ At(t, "emit") /\ Span(d, None)
           /\ readable' = exported
           /\ UNCHANGED <<receipt, link, delivered>>
  BY <1>1, <1>2, <1>4, SpanKeeps, NoJobAssumption
<1>5. CASE /\ At(t, "emit") /\ Span(d, t)
           /\ receipt' = [receipt EXCEPT ![d] = NewTrace(d)]
           /\ readable' \in {readable, exported}
           /\ UNCHANGED <<link, delivered>>
  BY <1>1, <1>2, <1>5, SpanKeeps
<1>6. CASE /\ At(t, "verify")
           /\ readable' = readable \cup {Trace(t)}
           /\ UNCHANGED <<receipt, link, spans, delivered>>
  <2>1. ~At(t, "emit")
    BY <1>6 DEF At
  <2> QED
    BY <1>1, <1>2, <1>6, <2>1, UploadKeeps
<1>7. CASE /\ At(t, "publish")
           /\ link' = [link EXCEPT ![d] = job[t].id]
           /\ delivered' \in {delivered, delivered \cup {d}}
           /\ UNCHANGED <<receipt, spans, readable>>
  BY <1>1, <1>2, <1>7, LinkKeeps
<1> QED
  BY <1>3, <1>4, <1>5, <1>6, <1>7 DEF Fail

\* and so does everything else.
LEMMA DeliveryKeeps == DInv /\ [DeliveryNext]_allVars => DInv'
<1> SUFFICES ASSUME DInv, [DeliveryNext]_allVars PROVE DInv'
  OBVIOUS
<1>1. ASSUME NEW t \in Threads, Delivering(t) PROVE DInv'
  BY <1>1, DeliveringKeeps
<1>2. ASSUME NEW t \in Threads, NEW how \in {"errors", "storage"}, Fail(t, how) PROVE DInv'
  BY <1>2, FailKeeps
<1>3. ASSUME /\ UNCHANGED tracking
             /\ job' = job \/ job' = [t \in Threads |-> None]
             /\ batch' \subseteq Decisions /\ outcome' \in Outcomes \cup {None}
             /\ outages' \in 0..MaxOutages
      PROVE  DInv'
  <2>1. /\ job' \in [Threads -> Jobs \cup {None}]
        /\ \A t \in Threads : job'[t] # None => job'[t] = job[t]
    BY <1>3 DEF DInv, DeliveryTypeOK
  <2>2. DeliveryTypeOK'
    BY <1>3, <2>1 DEF DInv, DeliveryTypeOK, tracking
  <2>3. LinksReadable' /\ PublishedInv'
    BY <1>3, <2>1 DEF DInv, LinksReadable, PublishedInv, At, Trace, tracking
  <2>4. IdsInv' /\ SavedInv'
    BY <1>3, <2>1 DEF DInv, IdsInv, SavedInv, At, tracking
  <2>5. AloneInv'
    BY <1>3, <2>1 DEF DInv, AloneInv, At, tracking
  <2> QED
    BY <2>2, <2>3, <2>4, <2>5 DEF DInv
<1>4. /\ batch \subseteq Decisions /\ outcome \in Outcomes \cup {None}
      /\ outages \in 0..MaxOutages /\ Pending \subseteq Decisions
  BY DEF DInv, DeliveryTypeOK, Pending, Rows
<1>5. CASE UNCHANGED deliveryVars
  BY <1>3, <1>4, <1>5 DEF deliveryVars
<1>6. CASE Select
  <2>1. batch' \subseteq Decisions /\ outcome' \in Outcomes
    BY <1>4, <1>6 DEF Select, FirstOf, Outcomes
  <2> QED
    BY <1>3, <1>4, <1>6, <2>1 DEF Select
<1>7. CASE SelectRefused
  <2>1. outages' \in 0..MaxOutages /\ outcome' \in Outcomes
    BY <1>4, <1>7, DeliveryAssumption DEF SelectRefused, Outcomes
  <2> QED
    BY <1>3, <1>4, <1>7, <2>1 DEF SelectRefused
<1>8. CASE Report
  BY <1>3, <1>4, <1>8 DEF Report
<1>9. CASE CrashDelivery
  BY <1>3, <1>4, <1>9 DEF CrashDelivery
<1> QED
  BY <1>1, <1>2, <1>5, <1>6, <1>7, <1>8, <1>9
     DEF DeliveryNext, Controls, PassAndDrain, allVars

\* It holds at the start.
LEMMA DeliveryInitInv == DeliveryInit => DInv
  BY DeliveryAssumption, NoJobAssumption
     DEF DeliveryInit, DInv, DeliveryTypeOK, LinksReadable, PublishedInv, IdsInv, SavedInv,
         AloneInv, At, Threads

\* The deliveries keep their types, and their invariant, for every number of
\* rows, batches, failures and deaths.
THEOREM DeliveryTypesCorrect == DeliverySpec => []DInv
  BY DeliveryInitInv, DeliveryKeeps, PTL DEF DeliverySpec

\* The loop and the drains that deliver its outbox implement PlannerControl,
\* in which a delivery is any outcome: what is proved of it holds of them.
THEOREM DeliveryImplements == DeliverySpec => Spec
<1>1. DeliveryInit => Init
  BY DEF DeliveryInit
<1>2. DInv /\ [DeliveryNext]_allVars => [Next]_vars
  BY DeliveryStepsNext DEF DInv
<1> QED
  BY <1>1, <1>2, DeliveryTypesCorrect, PTL DEF DeliverySpec, Spec

\* A row has one trace on the server, through every failure and death, apart
\* from those whose receipt was refused and one for each thread that delivered
\* it at the same time as another: the receipt is persisted before the span
\* ends (_deliver_trace and _emit_trace_locked of research_telemetry.py).
THEOREM TracesCounted == DeliverySpec => []OneTraceEach
<1>1. DInv => OneTraceEach
  <2> SUFFICES ASSUME DInv, NEW m \in readable, NEW n \in readable, m[1] = n[1], m # n,
                      spans[m[1]][m[2]] # None, spans[n[1]][n[2]] # None
               PROVE  m[1] \in overlapped /\ spans[m[1]][m[2]] # spans[n[1]][n[2]]
    BY DEF OneTraceEach
  <2>1. /\ m \in Decisions \X Nat /\ n \in Decisions \X Nat
        /\ m[2] \in 1..Len(spans[m[1]]) /\ n[2] \in 1..Len(spans[n[1]])
    BY DEF DInv, DeliveryTypeOK, IdsInv
  <2>2. m[1] \in Decisions /\ m[2] # n[2]
    BY <2>1
  <2> QED
    BY <2>1, <2>2 DEF DInv, SavedInv
<1> QED
  BY <1>1, DeliveryTypesCorrect, PTL

\* What a link names is on the server, and every delivered row has a link
\* (_verify_or_restore_trace comes before the link and the mark).
THEOREM LinksHold == DeliverySpec => []LinksReadable
<1>1. DInv => LinksReadable
  BY DEF DInv
<1> QED
  BY <1>1, DeliveryTypesCorrect, PTL
=============================================================================
