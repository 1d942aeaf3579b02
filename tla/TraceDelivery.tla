----------------------------- MODULE TraceDelivery -----------------------------
(***************************************************************************)
(* The delivery of the rows of trace-outbox.sqlite to the tracking server  *)
(* (research_telemetry.py), composed with the controller that fills them.  *)
(*                                                                         *)
(* A row is delivered by the loop, right after its publication, and by the *)
(* drain, a batch of rows at a time in the uploader's thread.  Its trace   *)
(* gets its identity in a span; the receipt that names it is persisted     *)
(* before the span ends, so that a delivery cut short verifies or restores *)
(* that trace and emits no other.  When that write is refused the span     *)
(* ends all the same, and its trace is exported under an identity no row   *)
(* remembers.  SQLite's lock is not held across a delivery, and only the   *)
(* emission is serialised.                                                 *)
(*                                                                         *)
(* Rows of other roles, rows without a stored trace, a changed server and  *)
(* what is in a trace are left out.  An export is over when EndSpan is:    *)
(* nothing reads the server before the flush that waits for it.            *)
(***************************************************************************)
EXTENDS PlannerControl, FiniteSets, Sequences

CONSTANTS
    Limit,       \* rows a drain selects
    MaxOutages   \* bound: deliveries that fail

ASSUME DeliveryAssumption == Limit \in Nat /\ MaxOutages \in Nat /\ None \notin Nat

VARIABLES
    receipt,     \* the trace the row of each decision names, or None
    delivered,   \* rows marked delivered
    link,        \* the trace traces/decision-n.json names, or None
    spans,       \* for each span begun for a decision, the thread whose receipt
                 \* names its trace, or None when that receipt was refused
    readable,    \* traces the server has, as <<decision, span>>
    job,         \* the delivery each thread is at, or None
    batch,       \* rows the drain has still to deliver
    outcome,     \* what the drain will report, None before it has selected them
    overlapped,  \* history: rows that two threads were delivering at once
    outages

tracking == <<receipt, delivered, link, spans, readable, overlapped>>
deliveryVars == <<tracking, job, batch, outcome, outages>>
allVars == <<vars, deliveryVars>>

Threads == {"loop", "drain"}
Jobs == [d : Decisions, id : Nat \cup {None}, at : {"emit", "span", "verify", "publish"}]

ASSUME NoJobAssumption == None \notin Jobs \cup Outcomes \cup Threads

Rows == {d \in Decisions : outbox[d] # None}
Pending == Rows \ delivered

DeliveryTypeOK ==
    /\ receipt \in [Decisions -> Nat \cup {None}]
    /\ delivered \subseteq Decisions
    /\ link \in [Decisions -> Nat \cup {None}]
    /\ spans \in [Decisions -> Seq(Threads \cup {None})]
    /\ readable \subseteq Decisions \X Nat
    /\ job \in [Threads -> Jobs \cup {None}]
    /\ \A t \in Threads : job[t] # None => (job[t].at = "emit" <=> job[t].id = None)
    /\ batch \subseteq Decisions
    /\ outcome \in Outcomes \cup {None}
    /\ overlapped \subseteq Decisions
    /\ outages \in 0..MaxOutages

DeliveryInit ==
    /\ Init
    /\ receipt = [d \in Decisions |-> None]
    /\ delivered = {}
    /\ link = [d \in Decisions |-> None]
    /\ spans = [d \in Decisions |-> <<>>]
    /\ readable = {}
    /\ job = [t \in Threads |-> None]
    /\ batch = {}
    /\ outcome = None
    /\ overlapped = {}
    /\ outages = 0

-----------------------------------------------------------------------------
\* What a thread delivers next: its publication, or the first row of its batch.
Has(t, d) ==
    /\ job[t] = None
    /\ \/ t = "loop" /\ Publishes("deliver") /\ d = publishing.d
       \/ t = "drain" /\ d \in batch /\ \A e \in batch : d <= e

\* A delivery ends.  The loop's ends its publication; after the drain's the
\* batch goes on, unless storage refused it.
Ends(t, d, how) ==
    /\ job' = [job EXCEPT ![t] = None]
    /\ \/ t = "loop" /\ Deliver(how) /\ UNCHANGED <<batch, outcome>>
       \/ /\ t = "drain"
          /\ batch' = IF how = "storage" THEN {} ELSE batch \ {d}
          /\ outcome' = IF how = "clean" THEN outcome ELSE how
          /\ UNCHANGED vars

Goes(t, at) ==
    /\ job' = [job EXCEPT ![t].at = at]
    /\ UNCHANGED <<vars, batch, outcome>>

At(t, at) == job[t] # None /\ job[t].at = at

\* The row is read, and the lock released with the count of the attempt.
Begin(t) == \E d \in Decisions :
    /\ Has(t, d)
    /\ IF d \in delivered
       THEN Ends(t, d, "clean") /\ UNCHANGED overlapped
       ELSE /\ job' = [job EXCEPT ![t] =
                         [d |-> d, id |-> receipt[d],
                          at |-> IF receipt[d] = None THEN "emit" ELSE "verify"]]
            /\ overlapped' = IF \E u \in Threads \ {t} : job[u] # None /\ job[u].d = d
                             THEN overlapped \cup {d} ELSE overlapped
            /\ UNCHANGED <<vars, batch, outcome>>
    /\ UNCHANGED <<receipt, delivered, link, spans, readable, outages>>

\* No other thread is between the start and the end of its span.
TrackingOperation(t) == \A u \in Threads \ {t} : ~At(u, "span")

\* A span for decision d: its trace is a new one.
Span(d, by) == spans' = [spans EXCEPT ![d] = Append(@, by)]
NewTrace(d) == Len(spans[d]) + 1

\* Mutant of Persist: the receipt is kept in memory until the span has ended.
PersistLate(t) ==
    /\ At(t, "emit")
    /\ TrackingOperation(t)
    /\ LET d == job[t].d IN
         /\ Span(d, t)
         /\ job' = [job EXCEPT ![t] = [d |-> d, id |-> NewTrace(d), at |-> "span"]]
    /\ UNCHANGED <<vars, batch, outcome, receipt, delivered, link, readable, overlapped, outages>>

\* A span is begun, and its identity persisted in the row.
Persist(t) ==
    /\ At(t, "emit")
    /\ TrackingOperation(t)
    /\ LET d == job[t].d IN
         /\ Span(d, t)
         /\ receipt' = [receipt EXCEPT ![d] = NewTrace(d)]
         /\ job' = [job EXCEPT ![t] = [d |-> d, id |-> NewTrace(d), at |-> "span"]]
    /\ UNCHANGED <<vars, batch, outcome, delivered, link, readable, overlapped, outages>>

Trace(t) == <<job[t].d, job[t].id>>

\* The span ends: the exporter delivers its trace, or swallows its own error.
EndSpan(t) ==
    /\ At(t, "span")
    /\ readable' \in {readable, readable \cup {Trace(t)}}
    /\ Goes(t, "verify")
    /\ UNCHANGED <<receipt, delivered, link, spans, overlapped, outages>>

\* _verify_or_restore_trace: the trace is read back, or uploaded again under
\* the same identity and read back.
Verify(t) ==
    /\ At(t, "verify")
    /\ readable' = readable \cup {Trace(t)}
    /\ Goes(t, "publish")
    /\ UNCHANGED <<receipt, delivered, link, spans, overlapped, outages>>

\* The link is written and the row marked.
PublishRow(t) ==
    /\ At(t, "publish")
    /\ link' = [link EXCEPT ![job[t].d] = job[t].id]
    /\ delivered' = delivered \cup {job[t].d}
    /\ Ends(t, job[t].d, "clean")
    /\ UNCHANGED <<receipt, spans, readable, overlapped, outages>>

\* The server is away, or storage refuses: the delivery fails, and what its
\* step does may have been done.  A refusal inside the span ends it, and its
\* trace is exported: under no receipt, or under one committed nonetheless.
Fail(t, how) ==
    /\ job[t] # None /\ ~At(t, "span")
    /\ outages < MaxOutages
    /\ outages' = outages + 1
    /\ Ends(t, job[t].d, how)
    /\ LET d == job[t].d
           exported == readable \cup {<<d, NewTrace(d)>>}
       IN  \/ UNCHANGED <<receipt, link, spans, readable, delivered>>
           \/ /\ At(t, "emit") /\ TrackingOperation(t)
              /\ Span(d, None)
              /\ readable' = exported
              /\ UNCHANGED <<receipt, link, delivered>>
           \/ /\ At(t, "emit") /\ TrackingOperation(t)
              /\ Span(d, t)
              /\ receipt' = [receipt EXCEPT ![d] = NewTrace(d)]
              /\ readable' \in {readable, exported}
              /\ UNCHANGED <<link, delivered>>
           \/ /\ At(t, "verify")
              /\ readable' = readable \cup {Trace(t)}
              /\ UNCHANGED <<receipt, link, spans, delivered>>
           \/ /\ At(t, "publish")
              /\ link' = [link EXCEPT ![d] = job[t].id]
              /\ delivered' \in {delivered, delivered \cup {d}}
              /\ UNCHANGED <<receipt, spans, readable>>
    /\ UNCHANGED overlapped

Delivering(t) == Begin(t) \/ Persist(t) \/ EndSpan(t) \/ Verify(t) \/ PublishRow(t)

-----------------------------------------------------------------------------
\* The first rows, by number.
FirstOf(rows) == {d \in rows : Cardinality({e \in rows : e < d}) < Limit}

\* Mutant of Select: delivered rows are selected again.
SelectAll ==
    /\ draining /\ outcome = None
    /\ outcome' = "clean"
    /\ batch' = FirstOf(Rows)
    /\ UNCHANGED <<vars, tracking, job, outages>>

\* drain_trace_outbox selects its batch.
Select ==
    /\ draining /\ outcome = None
    /\ outcome' = "clean"
    /\ batch' = FirstOf(Pending)
    /\ UNCHANGED <<vars, tracking, job, outages>>

\* Storage refuses that read, or the last one.
SelectRefused ==
    /\ draining /\ batch = {} /\ outcome # "storage"
    /\ outages < MaxOutages
    /\ outages' = outages + 1
    /\ outcome' = "storage"
    /\ UNCHANGED <<vars, tracking, job, batch>>

\* The drain is over and the loop takes its report.
Report ==
    /\ outcome # None /\ batch = {}
    /\ DrainReport(outcome)
    /\ outcome' = None
    /\ UNCHANGED <<tracking, job, batch, outages>>

\* A tracing pass with nothing left to publish starts a drain while rows are
\* pending.
PassAndDrain ==
    /\ TracePass
    /\ queue' = EmptyQueue => (draining' <=> Pending # {})
    /\ UNCHANGED deliveryVars

\* Every thread dies with the controller.
CrashDelivery ==
    /\ Crash
    /\ job' = [t \in Threads |-> None]
    /\ batch' = {}
    /\ outcome' = None
    /\ UNCHANGED <<tracking, outages>>

\* The controller's own steps leave deliveries alone.
Controls(A) == A /\ UNCHANGED deliveryVars

DeliveryNext ==
    \/ Controls(WriteEvidence) \/ Controls(Reserve) \/ Controls(ReserveRefused)
    \/ Controls(Dispatch) \/ Controls(Answer) \/ Controls(Handle)
    \/ Controls(Publication) \/ Controls(PublishRefused)
    \/ \E d \in Decisions : Controls(Recover(d))
    \/ Controls(TracePassRefused) \/ Controls(Start)
    \/ PassAndDrain \/ CrashDelivery
    \/ \E t \in Threads : Delivering(t) \/ \E how \in {"errors", "storage"} : Fail(t, how)
    \/ Select \/ SelectRefused \/ Report

DeliverySpec == DeliveryInit /\ [][DeliveryNext]_allVars

\* The loop never stops iterating: every step it is able to make is made, a
\* saved response is looked for in each iteration, each thread goes on with
\* its delivery, and the unit is restarted.
FairDeliverySpec ==
    /\ DeliverySpec
    /\ WF_allVars(Controls(Handle)) /\ WF_allVars(Controls(Publication))
    /\ WF_allVars(Controls(Reserve))
    /\ \A d \in Decisions : WF_allVars(Controls(Recover(d)))
    /\ WF_allVars(PassAndDrain)
    /\ WF_allVars(Controls(Start))
    /\ \A t \in Threads : WF_allVars(Delivering(t))
    /\ WF_allVars(Select) /\ WF_allVars(Report)

-----------------------------------------------------------------------------
\* A row has one trace on the server, whatever failed or died in between.
\* There are two exceptions, and the plan's "exactly-once" holds outside them
\* only.  A trace whose receipt was refused inside its span is on the server
\* under a name the retry does not know.  And when the loop and a drain were
\* delivering the row at the same time, each of them has one trace and no
\* more: the receipt read before the emission is not read again inside it.
OneTraceEach ==
    \A m, n \in readable :
        LET a == spans[m[1]][m[2]]
            b == spans[n[1]][n[2]]
        IN  m[1] = n[1] /\ m # n /\ a # None /\ b # None
                => m[1] \in overlapped /\ a # b

\* What the link of a decision names is on the server, and a row that is
\* marked delivered has its link, even if two threads delivered it.
LinksReadable ==
    \A d \in Decisions :
        /\ link[d] # None => <<d, link[d]>> \in readable
        /\ d \in delivered => link[d] # None

\* What is in the outbox is delivered in the end, unless three failures have
\* put an end to the tracing passes of this process.
TraceIsDelivered ==
    \A d \in Decisions : outbox[d] # None ~> d \in delivered \/ failures = MaxTraceFailures
=============================================================================
