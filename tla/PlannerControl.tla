---------------------------- MODULE PlannerControl ----------------------------
(***************************************************************************)
(* A paid planner call and the trace that accounts for it, in the          *)
(* expansion controller (run_expansion_campaign of research_expansion.py), *)
(* the control store (research_control.py) and the publication of decision *)
(* traces (research_telemetry.py).                                         *)
(*                                                                         *)
(* One durable slot is reserved for a decision before its call is paid,    *)
(* completed with the payload of its trace, and cleared only once the      *)
(* outbox holds that payload.  Payloads refused for storage wait in        *)
(* memory; a reserved slot whose response was saved is taken up again by   *)
(* any iteration of the loop, and a completed one by any tracing pass.     *)
(* A tracing pass with nothing left to publish has the outbox drained by   *)
(* another thread, whose report decides about blocks and failures.         *)
(*                                                                         *)
(* Applying the decision is module DecisionStore; how a row is delivered,  *)
(* by the loop or by a drain, is module TraceDelivery, here any outcome.   *)
(* The operational slot, the spend thresholds and the campaigns that run   *)
(* without a tracking server are left out.                                 *)
(***************************************************************************)
EXTENDS Naturals

CONSTANTS
    MaxDecisions,  \* bound: decisions planned
    None,
    MaxFaults,     \* bound: operations refused for storage
    MaxCrashes     \* bound: deaths of the controller

ASSUME BoundAssumption == MaxDecisions \in Nat /\ MaxFaults \in Nat /\ MaxCrashes \in Nat

Decisions == 1..MaxDecisions

\* What a decision's trace may say: the outcome seen as it came, or as taken
\* up again from the saved response (a field of the payload says so).
Payloads == {"live", "recovered"}

\* What the slot, the planner, a publication and the memory queue may hold.
Envelopes == [d : Decisions, state : {"reserved", "complete"}, payload : Payloads \cup {None}]
Plans == [d : Decisions, state : {"evidence", "calling", "paid", "answered", "failed"},
          recovered : BOOLEAN]
Publications == [d : Decisions, payload : Payloads, live : BOOLEAN,
                 at : {"check", "stage", "enqueue", "acknowledge", "deliver"}]
Waiting == [payload : Payloads, envelope : BOOLEAN]

\* How the delivery of one row, or of a batch of them, ends.
Outcomes == {"clean", "errors", "storage"}

ASSUME NoneAssumption ==
    /\ None \notin Decisions /\ None \notin Payloads
    /\ None \notin Envelopes /\ None \notin Waiting
    /\ None \notin Plans /\ None \notin Publications

VARIABLES
    evidence,    \* the highest evidence/Dn.json
    saved,       \* decisions with a planner-responses file
    slot,        \* the decision slot of the control store, or None
    outbox,      \* the payload of each decision's row in trace-outbox.sqlite
    paid,        \* decisions whose call reached the provider
    pc,          \* the controller: down or loop
    number,      \* the next decision's number
    planning,    \* the decision being planned, or None
    publishing,  \* the trace being published, or None
    draining,    \* the future of drain_trace_outbox is not None
    queue,       \* pending_trace_enqueues: what waits for each decision, or None
    unresolved,  \* a reservation was found that nobody works on
    unknown,     \* the control store could not be read
    blocked,     \* trace_storage_blocked
    failures,    \* trace_failures
    faults, crashes

durable == <<evidence, saved, slot, outbox, paid>>
flags == <<draining, unresolved, unknown, blocked, failures>>
bounds == <<faults, crashes>>
vars == <<durable, pc, number, planning, publishing, queue, flags, bounds>>

MaxTraceFailures == 3

TypeOK ==
    /\ evidence \in 0..MaxDecisions
    /\ saved \subseteq Decisions
    /\ slot \in Envelopes \cup {None}
    /\ slot # None => (slot.state = "reserved" <=> slot.payload = None)
    /\ outbox \in [Decisions -> Payloads \cup {None}]
    /\ paid \subseteq Decisions
    /\ pc \in {"down", "loop"}
    /\ number \in 1..(MaxDecisions + 1)
    /\ planning \in Plans \cup {None}
    /\ publishing \in Publications \cup {None}
    /\ draining \in BOOLEAN
    /\ queue \in [Decisions -> Waiting \cup {None}]
    /\ unresolved \in BOOLEAN /\ unknown \in BOOLEAN /\ blocked \in BOOLEAN
    /\ failures \in 0..MaxTraceFailures
    /\ faults \in 0..MaxFaults
    /\ crashes \in 0..MaxCrashes

EmptyQueue == [d \in Decisions |-> None]

Init ==
    /\ evidence = 0
    /\ saved = {}
    /\ slot = None
    /\ outbox = [d \in Decisions |-> None]
    /\ paid = {}
    /\ pc = "loop"
    /\ number = 1
    /\ planning = None
    /\ publishing = None
    /\ draining = FALSE
    /\ queue = EmptyQueue
    /\ unresolved = FALSE
    /\ unknown = FALSE
    /\ blocked = FALSE
    /\ failures = 0
    /\ faults = 0
    /\ crashes = 0

-----------------------------------------------------------------------------
\* The loop is at work and no publication is under way.
Looping == pc = "loop" /\ publishing = None

\* Storage refuses an operation.
Refused == faults < MaxFaults /\ faults' = faults + 1

Holds(d, state) == slot # None /\ slot.d = d /\ slot.state = state

\* _stage refuses a reservation while the slot holds another intent.
Occupied == slot # None

Reservation(d) == [d |-> d, state |-> "reserved", payload |-> None]

\* The gate before paid planning.
MayPlan ==
    /\ planning = None
    /\ queue = EmptyQueue
    /\ ~unresolved /\ ~unknown /\ ~blocked

\* The evidence of the next decision is written.
WriteEvidence ==
    /\ Looping
    /\ MayPlan
    /\ number \in Decisions
    /\ evidence' = number
    /\ planning' = [d |-> number, state |-> "evidence", recovered |-> FALSE]
    /\ UNCHANGED <<saved, slot, outbox, paid, pc, number, publishing, queue, flags, bounds>>

\* Mutant of Reserve: the call is submitted without a reservation.
ReserveNothing ==
    /\ Looping
    /\ planning # None /\ planning.state = "evidence"
    /\ planning' = [planning EXCEPT !.state = "calling"]
    /\ number' = number + 1
    /\ UNCHANGED <<durable, pc, publishing, queue, flags, bounds>>

\* reserve_decision, then the call is submitted.
Reserve ==
    /\ Looping
    /\ planning # None /\ planning.state = "evidence"
    /\ ~Occupied
    /\ slot' = Reservation(planning.d)
    /\ planning' = [planning EXCEPT !.state = "calling"]
    /\ number' = number + 1
    /\ UNCHANGED <<evidence, saved, outbox, paid, pc, publishing, queue, flags, bounds>>

\* StorageBlocked, before or after the reservation is committed, or because
\* another intent holds the slot: nothing is submitted, and the number is used
\* again.
ReserveRefused ==
    /\ Looping
    /\ planning # None /\ planning.state = "evidence"
    /\ \/ Occupied /\ UNCHANGED <<slot, faults>>
       \/ Refused /\ UNCHANGED slot
       \/ Refused /\ ~Occupied /\ slot' = Reservation(planning.d)
    /\ planning' = None
    /\ blocked' = TRUE
    /\ UNCHANGED <<evidence, saved, outbox, paid, pc, number, publishing, queue, draining,
                   unresolved, unknown, failures, crashes>>

\* The planner thread: the request reaches the provider, or never does.
Dispatch ==
    /\ pc = "loop"
    /\ planning # None /\ planning.state = "calling"
    /\ \/ paid' = paid \cup {planning.d} /\ planning' = [planning EXCEPT !.state = "paid"]
       \/ planning' = [planning EXCEPT !.state = "failed"] /\ UNCHANGED paid
    /\ UNCHANGED <<evidence, saved, slot, outbox, pc, number, publishing, queue, flags, bounds>>

\* The provider's answer is a decision, or is of no use.
Answer ==
    /\ pc = "loop"
    /\ planning # None /\ planning.state = "paid"
    /\ \E result \in {"answered", "failed"} : planning' = [planning EXCEPT !.state = result]
    /\ UNCHANGED <<durable, pc, number, publishing, queue, flags, bounds>>

-----------------------------------------------------------------------------
\* The publication of a trace starts with the check of the outbox.
Publish(d, payload, live, at) ==
    publishing' = [d |-> d, payload |-> payload, live |-> live, at |-> at]

\* The future is done: the response is saved and applied, and the outcome is
\* published.  A response that cannot be saved has failed.
Handle ==
    /\ Looping
    /\ planning # None /\ planning.state \in {"answered", "failed"}
    /\ \/ /\ planning.state = "answered"
          /\ saved' = saved \cup {planning.d}
          /\ UNCHANGED faults
       \/ planning.state = "failed" /\ UNCHANGED <<saved, faults>>
       \/ planning.state = "answered" /\ Refused /\ UNCHANGED saved
    /\ Publish(planning.d, IF planning.recovered THEN "recovered" ELSE "live", TRUE, "check")
    /\ UNCHANGED <<evidence, slot, outbox, paid, pc, number, planning, queue, flags, crashes>>

\* A publication is over: the controller goes on without the decision, or the
\* tracing pass drops the entry.
Published(d) ==
    /\ publishing' = None
    /\ IF publishing.live
       THEN planning' = None /\ UNCHANGED queue
       ELSE queue' = [queue EXCEPT ![d] = None] /\ UNCHANGED planning

\* A publication fails before the delivery.  Refused for storage, a
\* decision's payload is retained in memory; any other failure of a queued
\* one counts against the tracing passes.
Fails(storage) ==
    /\ publishing' = None
    /\ blocked' = (blocked \/ storage)
    /\ IF publishing.live
       THEN /\ planning' = None
            /\ queue' = IF storage /\ queue[publishing.d] = None
                        THEN [queue EXCEPT ![publishing.d] =
                                [payload |-> publishing.payload, envelope |-> FALSE]]
                        ELSE queue
            /\ UNCHANGED failures
       ELSE /\ failures' = IF storage THEN failures ELSE failures + 1
            /\ UNCHANGED <<planning, queue>>

Publishes(at) == pc = "loop" /\ publishing # None /\ publishing.at = at

Enqueued(d, payload) == outbox[d] = payload

\* What is in the outbox is delivered next.
Delivers ==
    /\ publishing' = [publishing EXCEPT !.at = "deliver"]
    /\ UNCHANGED <<planning, queue, blocked, failures>>

\* _decision_already_enqueued.
Check ==
    /\ Publishes("check")
    /\ LET d == publishing.d
       IN \/ /\ (slot # None /\ slot.d = d) \/ outbox[d] = None
             /\ publishing' = [publishing EXCEPT !.at = "stage"]
             /\ UNCHANGED <<planning, queue, blocked, failures>>
          \/ /\ ~(slot # None /\ slot.d = d) /\ outbox[d] # None
             /\ IF Enqueued(d, publishing.payload)
                THEN Delivers
                ELSE Fails(FALSE)
    /\ UNCHANGED <<durable, pc, number, draining, unresolved, unknown, bounds>>

Complete == [d |-> publishing.d, state |-> "complete", payload |-> publishing.payload]

\* ControlIntentStore.stage: the reservation is completed, a repetition is
\* accepted, another intent blocks.
Stage ==
    /\ Publishes("stage")
    /\ IF slot = Complete \/ Holds(publishing.d, "reserved")
       THEN /\ slot' = Complete
            /\ publishing' = [publishing EXCEPT !.at = "enqueue"]
            /\ UNCHANGED <<planning, queue, blocked, failures>>
       ELSE Fails(slot # None) /\ UNCHANGED slot
    /\ UNCHANGED <<evidence, saved, outbox, paid, pc, number, draining, unresolved, unknown, bounds>>

\* _enqueue_trace: one row for each decision, never another payload.
Enqueue ==
    /\ Publishes("enqueue")
    /\ IF outbox[publishing.d] \in {None, publishing.payload}
       THEN /\ outbox' = [outbox EXCEPT ![publishing.d] = publishing.payload]
            /\ publishing' = [publishing EXCEPT !.at = "acknowledge"]
            /\ UNCHANGED <<planning, queue, blocked, failures>>
       ELSE Fails(FALSE) /\ UNCHANGED outbox
    /\ UNCHANGED <<evidence, saved, slot, paid, pc, number, draining, unresolved, unknown, bounds>>

\* The outbox row is read back and compared with the slot.
Readback == Holds(publishing.d, "complete") /\ outbox[publishing.d] = slot.payload

\* ControlIntentStore.acknowledge.
Acknowledge ==
    /\ Publishes("acknowledge")
    /\ IF Readback
       THEN slot' = None /\ Delivers
       ELSE Fails(FALSE) /\ UNCHANGED slot
    /\ UNCHANGED <<evidence, saved, outbox, paid, pc, number, draining, unresolved, unknown, bounds>>

\* Storage refuses a step of the publication; staging, enqueueing and
\* acknowledging may have been committed all the same.
PublishRefused ==
    /\ pc = "loop" /\ publishing # None /\ publishing.at # "deliver"
    /\ Refused
    /\ \/ UNCHANGED <<slot, outbox>>
       \/ /\ publishing.at = "stage" /\ Holds(publishing.d, "reserved")
          /\ slot' = Complete
          /\ UNCHANGED outbox
       \/ /\ publishing.at = "enqueue" /\ outbox[publishing.d] = None
          /\ outbox' = [outbox EXCEPT ![publishing.d] = publishing.payload]
          /\ UNCHANGED slot
       \/ /\ publishing.at = "acknowledge" /\ Readback
          /\ slot' = None
          /\ UNCHANGED outbox
    /\ Fails(TRUE)
    /\ UNCHANGED <<evidence, saved, paid, pc, number, draining, unresolved, unknown, crashes>>

\* _deliver_trace ends: delivered, failed or refused.  The outbox has the
\* trace, so the decision and the queued entry are done with in any case; a
\* failure counts against the tracing passes if it was one of theirs.
Deliver(how) ==
    /\ Publishes("deliver")
    /\ Published(publishing.d)
    /\ blocked' = (blocked \/ how = "storage")
    /\ failures' = IF how = "errors" /\ ~publishing.live THEN failures + 1 ELSE failures
    /\ UNCHANGED <<durable, pc, number, draining, unresolved, unknown, bounds>>

-----------------------------------------------------------------------------
\* _recover_saved_planner_response: a reserved decision with a saved response
\* is taken up as if its call had just returned.
Recover(d) ==
    /\ Looping
    /\ planning = None
    /\ Holds(d, "reserved")
    /\ d \in saved
    /\ planning' = [d |-> d, state |-> "answered", recovered |-> TRUE]
    /\ UNCHANGED <<durable, pc, number, publishing, queue, flags, bounds>>

\* _hydrate_control_queue: a completed slot takes the place of what waits in
\* memory; a reservation nobody works on is unresolved.
Hydrated ==
    IF slot # None /\ slot.state = "complete"
    THEN [queue EXCEPT ![slot.d] = [payload |-> slot.payload, envelope |-> TRUE]]
    ELSE queue

Unresolved(q, active) ==
    slot # None /\ slot.state = "reserved" /\ slot.d # active /\ q[slot.d] = None

Active == IF planning = None THEN None ELSE planning.d

\* Envelopes first, then by number.
First(q) ==
    LET waiting == {d \in Decisions : q[d] # None}
        staged == {d \in waiting : q[d].envelope}
        best == IF staged # {} THEN staged ELSE waiting
    IN CHOOSE d \in best : \A e \in best : d <= e

\* Nothing is left to publish: the block ends if the outbox is delivered, and
\* is kept while another thread drains it.
Drained ==
    \/ blocked' = FALSE /\ UNCHANGED draining
    \/ draining' = TRUE /\ UNCHANGED blocked

\* Mutant of TracePass: the queue is not hydrated from the slot.
TracePassInMemory ==
    /\ Looping /\ ~draining
    /\ failures < MaxTraceFailures
    /\ unresolved' = FALSE
    /\ unknown' = FALSE
    /\ IF queue = EmptyQueue
       THEN Drained /\ UNCHANGED publishing
       ELSE /\ Publish(First(queue), queue[First(queue)].payload, FALSE, "check")
            /\ UNCHANGED <<blocked, draining>>
    /\ UNCHANGED <<durable, pc, number, planning, queue, failures, bounds>>

\* A tracing pass of the loop: the queue is hydrated and its first entry is
\* published, or the outbox is drained.
TracePass ==
    /\ Looping /\ ~draining
    /\ failures < MaxTraceFailures
    /\ queue' = Hydrated
    /\ unresolved' = Unresolved(queue', Active)
    /\ unknown' = FALSE
    /\ IF queue' = EmptyQueue
       THEN Drained /\ UNCHANGED publishing
       ELSE LET d == First(queue')
            IN /\ Publish(d, queue'[d].payload, FALSE,
                          IF queue'[d].envelope THEN "enqueue" ELSE "check")
               /\ UNCHANGED <<blocked, draining>>
    /\ UNCHANGED <<durable, pc, number, planning, failures, bounds>>

\* The report of a drain is taken: it decides whether storage blocks, and an
\* error counts against the tracing passes.
DrainReport(how) ==
    /\ Looping
    /\ draining
    /\ draining' = FALSE
    /\ blocked' = (how = "storage")
    /\ failures' = CASE how = "clean"   -> 0
                     [] how = "errors"  -> failures + 1
                     [] how = "storage" -> failures
    /\ UNCHANGED <<durable, pc, number, planning, publishing, queue, unresolved, unknown, bounds>>

\* The control store cannot be read, by a tracing pass or by the search for a
\* saved response: its state is unknown.
TracePassRefused ==
    /\ Looping
    /\ planning = None \/ (failures < MaxTraceFailures /\ ~draining)
    /\ Refused
    /\ unknown' = TRUE
    /\ blocked' = TRUE
    /\ UNCHANGED <<durable, pc, number, planning, publishing, queue, draining, unresolved, failures,
                   crashes>>

Crash ==
    /\ pc = "loop"
    /\ crashes < MaxCrashes
    /\ crashes' = crashes + 1
    /\ pc' = "down"
    /\ planning' = None
    /\ publishing' = None
    /\ draining' = FALSE
    /\ UNCHANGED <<durable, number, queue, unresolved, unknown, blocked, failures, faults>>

\* The unit is restarted: the queue is what the slot holds, and numbers go on
\* after the last evidence.
Start ==
    /\ pc = "down"
    /\ pc' = "loop"
    /\ number' = evidence + 1
    /\ queue' = IF slot # None /\ slot.state = "complete"
                THEN [EmptyQueue EXCEPT ![slot.d] = [payload |-> slot.payload, envelope |-> TRUE]]
                ELSE EmptyQueue
    /\ unresolved' = Unresolved(queue', None)
    /\ unknown' = FALSE
    /\ blocked' = (queue' # EmptyQueue)
    /\ failures' = 0
    /\ UNCHANGED <<durable, planning, publishing, draining, bounds>>

Publication == Check \/ Stage \/ Enqueue \/ Acknowledge

Next ==
    \/ WriteEvidence \/ Reserve \/ ReserveRefused \/ Dispatch \/ Answer \/ Handle
    \/ Publication \/ PublishRefused
    \/ \E d \in Decisions : Recover(d)
    \/ \E how \in Outcomes : Deliver(how) \/ DrainReport(how)
    \/ TracePass \/ TracePassRefused \/ Crash \/ Start

Spec == Init /\ [][Next]_vars

-----------------------------------------------------------------------------
(* What the slot is for.                                                   *)

\* No paid call is forgotten: from the moment a call is paid for, either the
\* slot or the outbox holds its decision, across refusals and deaths.
ChargeAccounted ==
    \A d \in paid : outbox[d] # None \/ (slot # None /\ slot.d = d)

\* A call is paid for only when the trace of every earlier paid decision is
\* in the outbox.
PaidInTurn ==
    [][\A d \in paid' \ paid : \A e \in paid : outbox[e] # None]_vars

\* A planner response that was saved is traced in the end, without another
\* call, whatever was refused or died in between, unless three failures have
\* put an end to the tracing passes of this process.
SavedIsTraced ==
    \A d \in Decisions : d \in saved ~> outbox[d] # None \/ failures = MaxTraceFailures
=============================================================================
