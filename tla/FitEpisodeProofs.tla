-------------------------- MODULE FitEpisodeProofs ---------------------------
(***************************************************************************)
(* Theorems about FitEpisode, for every number of episodes, crashes and    *)
(* refused writes.                                                         *)
(***************************************************************************)
EXTENDS FitEpisode, TLAPS

\* A living worker has not reported yet.
LivingIsPending ==
    \A n \in Nonces : worker[n] \in {"assigned", "running"} => raw[n] = "pending"

\* Only the episode in flight has a future.
OneFuture == \A n \in Nonces : future[n] # "none" => n = inflight

\* The episode in flight is the one in runtime.json, of an attempt without an
\* outcome.
FlightNamed ==
    inflight # None => Names(inflight) /\ row \notin Terminal

\* The controller is in the middle of a submission only with an episode, and
\* has none when it is down.
Submitting ==
    /\ pc = "submitted" => inflight # None
    /\ pc = "down" => inflight = None

\* A published episode is over: nobody is left to decide against it.
PublishedIsOver ==
    published # None =>
        /\ raw[published] = "value"
        /\ timer[published] = "off"
        /\ future[published] \notin {"pending", "timeout"}

\* A failed attempt has no published result.
FailureIsUnpublished == row = "failed" => published = None

\* Without a file there is no deadline.
LateHasFile == late => runtime # None

IInv ==
    /\ TypeOK
    /\ LivingIsPending
    /\ OneFuture
    /\ FlightNamed
    /\ Submitting
    /\ PublishedIsOver
    /\ LateHasFile
    /\ ReceiptStands
    /\ FailureIsUnpublished
    /\ FinishedByItsWorker

-----------------------------------------------------------------------------
(***************************************************************************)
(* Types that several actions build.                                       *)
(***************************************************************************)

Retries == [active : BOOLEAN, due : BOOLEAN, snapshot : Runtimes \cup {None}]

\* A deferral writes a well-typed retry.
LEMMA DefersTyped ==
    ASSUME NEW file \in Runtimes \cup {None}, Defers(file)
    PROVE  retry' \in Retries /\ row' = "reserved"
BY DEF Defers, Retries

\* A commit keeps the retry well typed.
LEMMA CommitsTyped ==
    ASSUME retry \in Retries, NEW status, Commits(status)
    PROVE  retry' \in Retries /\ row' = status
BY DEF Commits, Retries

\* A status written to a runtime gives a runtime.
LEMMA StatusTyped ==
    ASSUME NEW file \in Runtimes, NEW status \in Statuses
    PROVE  /\ [file EXCEPT !.status = status] \in Runtimes
           /\ [file EXCEPT !.status = status] # None
           /\ [file EXCEPT !.status = status].nonce = file.nonce
BY ExecutorAssumption DEF Runtimes, Statuses

\* Marked leaves no file where there was none, and a file where there was one.
LEMMA MarkedTyped ==
    ASSUME runtime \in Runtimes \cup {None}, NEW n \in Nonces, NEW status \in Statuses
    PROVE  /\ Marked(n, status) \in Runtimes \cup {None}
           /\ runtime # None => Marked(n, status) # None
BY ExecutorAssumption, StatusTyped DEF Marked, Names

-----------------------------------------------------------------------------
\* The clock.
LEMMA DeadlinePassesKeeps ==
    ASSUME IInv, DeadlinePasses, UNCHANGED controller
    PROVE  IInv'
<1>1. TypeOK'
  BY ExecutorAssumption, CrashAssumption DEF IInv, TypeOK, ExecutorTypeOK,
    Outcomes, Statuses, Runtimes, Terminal, DeadlinePasses, controller
<1>2. LivingIsPending'
  BY ExecutorAssumption, CrashAssumption DEF IInv, LivingIsPending, TypeOK,
    ExecutorTypeOK, Runtimes, Statuses, DeadlinePasses, controller
<1>3. OneFuture'
  BY ExecutorAssumption, CrashAssumption DEF IInv, OneFuture, FlightNamed,
    TypeOK, ExecutorTypeOK, Runtimes, Statuses, DeadlinePasses, controller
<1>4. FlightNamed'
  BY ExecutorAssumption, CrashAssumption DEF IInv, FlightNamed, Names,
    Terminal, OneFuture, Submitting, TypeOK, ExecutorTypeOK, Runtimes,
    Statuses, DeadlinePasses, controller
<1>5. Submitting'
  BY ExecutorAssumption, CrashAssumption DEF IInv, Submitting, FlightNamed,
    TypeOK, ExecutorTypeOK, Runtimes, Statuses, DeadlinePasses, controller
<1>6. PublishedIsOver'
  BY ExecutorAssumption, CrashAssumption DEF IInv, PublishedIsOver,
    LivingIsPending, ReceiptStands, OneFuture, FlightNamed, TypeOK,
    ExecutorTypeOK, Runtimes, Statuses, DeadlinePasses, controller
<1>7. LateHasFile'
  BY ExecutorAssumption, CrashAssumption DEF IInv, LateHasFile, TypeOK,
    ExecutorTypeOK, Runtimes, Statuses, DeadlinePasses, controller
<1>8. ReceiptStands'
  BY ExecutorAssumption, CrashAssumption DEF IInv, ReceiptStands, Names,
    PublishedIsOver, LivingIsPending, TypeOK, ExecutorTypeOK, Runtimes,
    Statuses, DeadlinePasses, controller
<1>9. FailureIsUnpublished'
  BY ExecutorAssumption, CrashAssumption DEF IInv, FailureIsUnpublished,
    FlightNamed, OneFuture, Submitting, TypeOK, ExecutorTypeOK, Runtimes,
    Statuses, DeadlinePasses, controller
<1>10. FinishedByItsWorker'
  BY ExecutorAssumption, CrashAssumption DEF IInv, FinishedByItsWorker,
    LivingIsPending, ReceiptStands, TypeOK, ExecutorTypeOK, Runtimes,
    Statuses, DeadlinePasses, controller
<1>q. QED BY <1>1, <1>2, <1>3, <1>4, <1>5, <1>6, <1>7, <1>8, <1>9, <1>10 DEF IInv

\* The worker claims the episode or stops before it.
LEMMA ClaimKeeps ==
    ASSUME IInv, NEW n \in Nonces, Claim(n), UNCHANGED controller
    PROVE  IInv'
<1>1. TypeOK'
  BY ExecutorAssumption, CrashAssumption DEF IInv, TypeOK, ExecutorTypeOK,
    Outcomes, Statuses, Runtimes, Terminal, Claim, Stops, MayClaim, Names,
    Blocked, controller
<1>2. LivingIsPending'
  BY ExecutorAssumption, CrashAssumption DEF IInv, LivingIsPending, TypeOK,
    ExecutorTypeOK, Runtimes, Statuses, Claim, Stops, MayClaim, Names,
    Blocked, Outcomes, controller
<1>3. OneFuture'
  BY ExecutorAssumption, CrashAssumption DEF IInv, OneFuture, FlightNamed,
    TypeOK, ExecutorTypeOK, Runtimes, Statuses, Claim, Stops, MayClaim, Names,
    Blocked, Outcomes, controller
<1>4. FlightNamed'
  BY ExecutorAssumption, CrashAssumption DEF IInv, FlightNamed, Names,
    Terminal, OneFuture, Submitting, TypeOK, ExecutorTypeOK, Runtimes,
    Statuses, Claim, Stops, MayClaim, Blocked, Outcomes, controller
<1>5. Submitting'
  BY ExecutorAssumption, CrashAssumption DEF IInv, Submitting, FlightNamed,
    TypeOK, ExecutorTypeOK, Runtimes, Statuses, Claim, Stops, MayClaim, Names,
    Blocked, Outcomes, controller
<1>6. PublishedIsOver'
  BY ExecutorAssumption, CrashAssumption DEF IInv, PublishedIsOver,
    LivingIsPending, ReceiptStands, OneFuture, FlightNamed, TypeOK,
    ExecutorTypeOK, Runtimes, Statuses, Claim, Stops, MayClaim, Names,
    Blocked, Outcomes, controller
<1>7. LateHasFile'
  BY ExecutorAssumption, CrashAssumption DEF IInv, LateHasFile, TypeOK,
    ExecutorTypeOK, Runtimes, Statuses, Claim, Stops, MayClaim, Names,
    Blocked, Outcomes, controller
<1>8. ReceiptStands'
  BY ExecutorAssumption, CrashAssumption DEF IInv, ReceiptStands, Names,
    PublishedIsOver, LivingIsPending, TypeOK, ExecutorTypeOK, Runtimes,
    Statuses, Claim, Stops, MayClaim, Blocked, Outcomes, controller
<1>9. FailureIsUnpublished'
  BY ExecutorAssumption, CrashAssumption DEF IInv, FailureIsUnpublished,
    FlightNamed, OneFuture, Submitting, TypeOK, ExecutorTypeOK, Runtimes,
    Statuses, Claim, Stops, MayClaim, Names, Blocked, Outcomes, controller
<1>10. FinishedByItsWorker'
  BY ExecutorAssumption, CrashAssumption DEF IInv, FinishedByItsWorker,
    LivingIsPending, ReceiptStands, TypeOK, ExecutorTypeOK, Runtimes,
    Statuses, Claim, Stops, MayClaim, Names, Blocked, Outcomes, controller
<1>q. QED BY <1>1, <1>2, <1>3, <1>4, <1>5, <1>6, <1>7, <1>8, <1>9, <1>10 DEF IInv

\* The worker ends and writes how.
LEMMA EndKeeps ==
    ASSUME IInv, NEW n \in Nonces, End(n), UNCHANGED controller
    PROVE  IInv'
<1>1. TypeOK'
  BY ExecutorAssumption, CrashAssumption DEF IInv, TypeOK, ExecutorTypeOK,
    Outcomes, Statuses, Runtimes, Terminal, End, Stops, Ended, Marked, Names,
    Blocked, controller
<1>2. LivingIsPending'
  BY ExecutorAssumption, CrashAssumption DEF IInv, LivingIsPending, TypeOK,
    ExecutorTypeOK, Runtimes, Statuses, End, Stops, Ended, Marked, Names,
    Blocked, Outcomes, controller
<1>3. OneFuture'
  BY ExecutorAssumption, CrashAssumption DEF IInv, OneFuture, FlightNamed,
    TypeOK, ExecutorTypeOK, Runtimes, Statuses, End, Stops, Ended, Marked,
    Names, Blocked, Outcomes, controller
<1>4. FlightNamed'
  BY ExecutorAssumption, CrashAssumption DEF IInv, FlightNamed, Names,
    Terminal, OneFuture, Submitting, TypeOK, ExecutorTypeOK, Runtimes,
    Statuses, End, Stops, Ended, Marked, Blocked, Outcomes, controller
<1>5. Submitting'
  BY ExecutorAssumption, CrashAssumption DEF IInv, Submitting, FlightNamed,
    TypeOK, ExecutorTypeOK, Runtimes, Statuses, End, Stops, Ended, Marked,
    Names, Blocked, Outcomes, controller
<1>6. PublishedIsOver'
  BY ExecutorAssumption, CrashAssumption DEF IInv, PublishedIsOver,
    LivingIsPending, ReceiptStands, OneFuture, FlightNamed, TypeOK,
    ExecutorTypeOK, Runtimes, Statuses, End, Stops, Ended, Marked, Names,
    Blocked, Outcomes, controller
<1>7. LateHasFile'
  BY ExecutorAssumption, CrashAssumption DEF IInv, LateHasFile, TypeOK,
    ExecutorTypeOK, Runtimes, Statuses, End, Stops, Ended, Marked, Names,
    Blocked, Outcomes, controller
<1>8. ReceiptStands'
  BY ExecutorAssumption, CrashAssumption DEF IInv, ReceiptStands, Names,
    PublishedIsOver, LivingIsPending, TypeOK, ExecutorTypeOK, Runtimes,
    Statuses, End, Stops, Ended, Marked, Blocked, Outcomes, controller
<1>9. FailureIsUnpublished'
  BY ExecutorAssumption, CrashAssumption DEF IInv, FailureIsUnpublished,
    FlightNamed, OneFuture, Submitting, TypeOK, ExecutorTypeOK, Runtimes,
    Statuses, End, Stops, Ended, Marked, Names, Blocked, Outcomes, controller
<1>10. FinishedByItsWorker'
  BY ExecutorAssumption, CrashAssumption DEF IInv, FinishedByItsWorker,
    LivingIsPending, ReceiptStands, TypeOK, ExecutorTypeOK, Runtimes,
    Statuses, End, Stops, Ended, Marked, Names, Blocked, Outcomes, controller
<1>q. QED BY <1>1, <1>2, <1>3, <1>4, <1>5, <1>6, <1>7, <1>8, <1>9, <1>10 DEF IInv

\* The worker ends without a write, or with one that was refused.
LEMMA WorkerStopsKeeps ==
    ASSUME IInv, NEW n \in Nonces, EndUnwritten(n) \/ WorkerDies(n) \/ Cancelled(n), UNCHANGED controller
    PROVE  IInv'
<1>1. TypeOK'
  BY ExecutorAssumption, CrashAssumption DEF IInv, TypeOK, ExecutorTypeOK,
    Outcomes, Statuses, Runtimes, Terminal, EndUnwritten, Ended, Marked, Names,
    WorkerDies, Cancelled, Stops, Blocked, controller
<1>2. LivingIsPending'
  BY ExecutorAssumption, CrashAssumption DEF IInv, LivingIsPending, TypeOK,
    ExecutorTypeOK, Runtimes, Statuses, EndUnwritten, Ended, Marked, Names,
    WorkerDies, Cancelled, Stops, Blocked, Outcomes, controller
<1>3. OneFuture'
  BY ExecutorAssumption, CrashAssumption DEF IInv, OneFuture, FlightNamed,
    TypeOK, ExecutorTypeOK, Runtimes, Statuses, EndUnwritten, Ended, Marked, Names,
    WorkerDies, Cancelled, Stops, Blocked, Outcomes, controller
<1>4. FlightNamed'
  BY ExecutorAssumption, CrashAssumption DEF IInv, FlightNamed, Names,
    Terminal, OneFuture, Submitting, TypeOK, ExecutorTypeOK, Runtimes,
    Statuses, EndUnwritten, Ended, Marked, WorkerDies, Cancelled, Stops, Blocked, Outcomes, controller
<1>5. Submitting'
  BY ExecutorAssumption, CrashAssumption DEF IInv, Submitting, FlightNamed,
    TypeOK, ExecutorTypeOK, Runtimes, Statuses, EndUnwritten, Ended, Marked, Names,
    WorkerDies, Cancelled, Stops, Blocked, Outcomes, controller
<1>6. PublishedIsOver'
  BY ExecutorAssumption, CrashAssumption DEF IInv, PublishedIsOver,
    LivingIsPending, ReceiptStands, OneFuture, FlightNamed, TypeOK,
    ExecutorTypeOK, Runtimes, Statuses, EndUnwritten, Ended, Marked, Names,
    WorkerDies, Cancelled, Stops, Blocked, Outcomes, controller
<1>7. LateHasFile'
  <2>1. late' = late
    BY DEF EndUnwritten, WorkerDies, Cancelled
  <2>2. runtime' = runtime \/ \E status \in Statuses : runtime' = Marked(n, status)
    BY DEF EndUnwritten, Ended, WorkerDies, Cancelled, Statuses
  <2>3. ASSUME NEW status \in Statuses, runtime' = Marked(n, status), runtime # None
        PROVE  runtime' # None
    BY <2>3, ExecutorAssumption DEF IInv, TypeOK, ExecutorTypeOK, Marked, Names, Runtimes
  <2> QED BY <2>1, <2>2, <2>3 DEF IInv, LateHasFile, Marked, Names
<1>8. ReceiptStands'
  BY ExecutorAssumption, CrashAssumption DEF IInv, ReceiptStands, Names,
    PublishedIsOver, LivingIsPending, TypeOK, ExecutorTypeOK, Runtimes,
    Statuses, EndUnwritten, Ended, Marked, WorkerDies, Cancelled, Stops, Blocked, Outcomes, controller
<1>9. FailureIsUnpublished'
  BY ExecutorAssumption, CrashAssumption DEF IInv, FailureIsUnpublished,
    FlightNamed, OneFuture, Submitting, TypeOK, ExecutorTypeOK, Runtimes,
    Statuses, EndUnwritten, Ended, Marked, Names,
    WorkerDies, Cancelled, Stops, Blocked, Outcomes, controller
<1>10. FinishedByItsWorker'
  BY ExecutorAssumption, CrashAssumption DEF IInv, FinishedByItsWorker,
    LivingIsPending, ReceiptStands, TypeOK, ExecutorTypeOK, Runtimes,
    Statuses, EndUnwritten, Ended, Marked, Names,
    WorkerDies, Cancelled, Stops, Blocked, Outcomes, controller
<1>q. QED BY <1>1, <1>2, <1>3, <1>4, <1>5, <1>6, <1>7, <1>8, <1>9, <1>10 DEF IInv

\* The timer decides.
LEMMA ExpireKeeps ==
    ASSUME IInv, NEW n \in Nonces, Expire(n), UNCHANGED controller
    PROVE  IInv'
<1>1. TypeOK'
  BY ExecutorAssumption, CrashAssumption DEF IInv, TypeOK, ExecutorTypeOK,
    Outcomes, Statuses, Runtimes, Terminal, Expire, controller
<1>2. LivingIsPending'
  BY ExecutorAssumption, CrashAssumption DEF IInv, LivingIsPending, TypeOK,
    ExecutorTypeOK, Runtimes, Statuses, Expire, controller
<1>3. OneFuture'
  BY ExecutorAssumption, CrashAssumption DEF IInv, OneFuture, FlightNamed,
    TypeOK, ExecutorTypeOK, Runtimes, Statuses, Expire, controller
<1>4. FlightNamed'
  BY ExecutorAssumption, CrashAssumption DEF IInv, FlightNamed, Names,
    Terminal, OneFuture, Submitting, TypeOK, ExecutorTypeOK, Runtimes,
    Statuses, Expire, controller
<1>5. Submitting'
  BY ExecutorAssumption, CrashAssumption DEF IInv, Submitting, FlightNamed,
    TypeOK, ExecutorTypeOK, Runtimes, Statuses, Expire, controller
<1>6. PublishedIsOver'
  BY ExecutorAssumption, CrashAssumption DEF IInv, PublishedIsOver,
    LivingIsPending, ReceiptStands, OneFuture, FlightNamed, TypeOK,
    ExecutorTypeOK, Runtimes, Statuses, Expire, controller
<1>7. LateHasFile'
  BY ExecutorAssumption, CrashAssumption DEF IInv, LateHasFile, TypeOK,
    ExecutorTypeOK, Runtimes, Statuses, Expire, controller
<1>8. ReceiptStands'
  BY ExecutorAssumption, CrashAssumption DEF IInv, ReceiptStands, Names,
    PublishedIsOver, LivingIsPending, TypeOK, ExecutorTypeOK, Runtimes,
    Statuses, Expire, controller
<1>9. FailureIsUnpublished'
  BY ExecutorAssumption, CrashAssumption DEF IInv, FailureIsUnpublished,
    FlightNamed, OneFuture, Submitting, TypeOK, ExecutorTypeOK, Runtimes,
    Statuses, Expire, controller
<1>10. FinishedByItsWorker'
  BY ExecutorAssumption, CrashAssumption DEF IInv, FinishedByItsWorker,
    LivingIsPending, ReceiptStands, TypeOK, ExecutorTypeOK, Runtimes,
    Statuses, Expire, controller
<1>q. QED BY <1>1, <1>2, <1>3, <1>4, <1>5, <1>6, <1>7, <1>8, <1>9, <1>10 DEF IInv

\* The timer writes its decision.
LEMMA MarkExpiredKeeps ==
    ASSUME IInv, NEW n \in Nonces, MarkExpired(n), UNCHANGED controller
    PROVE  IInv'
<1>1. TypeOK'
  BY ExecutorAssumption, CrashAssumption DEF IInv, TypeOK, ExecutorTypeOK,
    Outcomes, Statuses, Runtimes, Terminal, MarkExpired, Marked, Names,
    Blocked, controller
<1>2. LivingIsPending'
  BY ExecutorAssumption, CrashAssumption DEF IInv, LivingIsPending, TypeOK,
    ExecutorTypeOK, Runtimes, Statuses, MarkExpired, Marked, Names, Blocked,
    controller
<1>3. OneFuture'
  BY ExecutorAssumption, CrashAssumption DEF IInv, OneFuture, FlightNamed,
    TypeOK, ExecutorTypeOK, Runtimes, Statuses, MarkExpired, Marked, Names,
    Blocked, controller
<1>4. FlightNamed'
  BY ExecutorAssumption, CrashAssumption DEF IInv, FlightNamed, Names,
    Terminal, OneFuture, Submitting, TypeOK, ExecutorTypeOK, Runtimes,
    Statuses, MarkExpired, Marked, Blocked, controller
<1>5. Submitting'
  BY ExecutorAssumption, CrashAssumption DEF IInv, Submitting, FlightNamed,
    TypeOK, ExecutorTypeOK, Runtimes, Statuses, MarkExpired, Marked, Names,
    Blocked, controller
<1>6. PublishedIsOver'
  BY ExecutorAssumption, CrashAssumption DEF IInv, PublishedIsOver,
    LivingIsPending, ReceiptStands, OneFuture, FlightNamed, TypeOK,
    ExecutorTypeOK, Runtimes, Statuses, MarkExpired, Marked, Names, Blocked,
    controller
<1>7. LateHasFile'
  BY ExecutorAssumption, CrashAssumption DEF IInv, LateHasFile, TypeOK,
    ExecutorTypeOK, Runtimes, Statuses, MarkExpired, Marked, Names, Blocked,
    controller
<1>8. ReceiptStands'
  BY ExecutorAssumption, CrashAssumption DEF IInv, ReceiptStands, Names,
    PublishedIsOver, LivingIsPending, TypeOK, ExecutorTypeOK, Runtimes,
    Statuses, MarkExpired, Marked, Blocked, controller
<1>9. FailureIsUnpublished'
  BY ExecutorAssumption, CrashAssumption DEF IInv, FailureIsUnpublished,
    FlightNamed, OneFuture, Submitting, TypeOK, ExecutorTypeOK, Runtimes,
    Statuses, MarkExpired, Marked, Names, Blocked, controller
<1>10. FinishedByItsWorker'
  BY ExecutorAssumption, CrashAssumption DEF IInv, FinishedByItsWorker,
    LivingIsPending, ReceiptStands, TypeOK, ExecutorTypeOK, Runtimes,
    Statuses, MarkExpired, Marked, Names, Blocked, controller
<1>q. QED BY <1>1, <1>2, <1>3, <1>4, <1>5, <1>6, <1>7, <1>8, <1>9, <1>10 DEF IInv

\* The callback accepts and publishes.
LEMMA AcceptKeeps ==
    ASSUME IInv, NEW n \in Nonces, Accept(n)
    PROVE  IInv'
<1>1. TypeOK'
  BY ExecutorAssumption, CrashAssumption DEF IInv, TypeOK, ExecutorTypeOK,
    Outcomes, Statuses, Runtimes, Terminal, Accept, FinishAccepted, Undecided,
    Acceptable, Names, Resolve, Blocked
<1>2. LivingIsPending'
  BY ExecutorAssumption, CrashAssumption DEF IInv, LivingIsPending, TypeOK,
    ExecutorTypeOK, Runtimes, Statuses, Accept, FinishAccepted, Undecided,
    Acceptable, Names, Resolve, Blocked, Outcomes
<1>3. OneFuture'
  BY ExecutorAssumption, CrashAssumption DEF IInv, OneFuture, FlightNamed,
    TypeOK, ExecutorTypeOK, Runtimes, Statuses, Accept, FinishAccepted,
    Undecided, Acceptable, Names, Resolve, Blocked, Outcomes
<1>4. FlightNamed'
  BY ExecutorAssumption, CrashAssumption DEF IInv, FlightNamed, Names,
    Terminal, OneFuture, Submitting, TypeOK, ExecutorTypeOK, Runtimes,
    Statuses, Accept, FinishAccepted, Undecided, Acceptable, Resolve, Blocked,
    Outcomes
<1>5. Submitting'
  BY ExecutorAssumption, CrashAssumption DEF IInv, Submitting, FlightNamed,
    TypeOK, ExecutorTypeOK, Runtimes, Statuses, Accept, FinishAccepted,
    Undecided, Acceptable, Names, Resolve, Blocked, Outcomes
<1>6. PublishedIsOver'
  BY ExecutorAssumption, CrashAssumption DEF IInv, PublishedIsOver,
    LivingIsPending, ReceiptStands, OneFuture, FlightNamed, TypeOK,
    ExecutorTypeOK, Runtimes, Statuses, Accept, FinishAccepted, Undecided,
    Acceptable, Names, Resolve, Blocked, Outcomes
<1>7. LateHasFile'
  BY ExecutorAssumption, CrashAssumption DEF IInv, LateHasFile, TypeOK,
    ExecutorTypeOK, Runtimes, Statuses, Accept, FinishAccepted, Undecided,
    Acceptable, Names, Resolve, Blocked, Outcomes
<1>8. ReceiptStands'
  BY ExecutorAssumption, CrashAssumption DEF IInv, ReceiptStands, Names,
    PublishedIsOver, LivingIsPending, TypeOK, ExecutorTypeOK, Runtimes,
    Statuses, Accept, FinishAccepted, Undecided, Acceptable, Resolve, Blocked,
    Outcomes
<1>9. FailureIsUnpublished'
  BY ExecutorAssumption, CrashAssumption DEF IInv, FailureIsUnpublished,
    FlightNamed, OneFuture, Submitting, TypeOK, ExecutorTypeOK, Runtimes,
    Statuses, Accept, FinishAccepted, Undecided, Acceptable, Names, Resolve,
    Blocked, Outcomes
<1>10. FinishedByItsWorker'
  BY ExecutorAssumption, CrashAssumption DEF IInv, FinishedByItsWorker,
    LivingIsPending, ReceiptStands, TypeOK, ExecutorTypeOK, Runtimes,
    Statuses, Accept, FinishAccepted, Undecided, Acceptable, Names, Resolve,
    Blocked, Outcomes
<1>q. QED BY <1>1, <1>2, <1>3, <1>4, <1>5, <1>6, <1>7, <1>8, <1>9, <1>10 DEF IInv

\* The callback reports anything else.
LEMMA FinishUnacceptedKeeps ==
    ASSUME IInv, NEW n \in Nonces, FinishUnaccepted(n)
    PROVE  IInv'
<1>1. TypeOK'
  BY ExecutorAssumption, CrashAssumption DEF IInv, TypeOK, ExecutorTypeOK,
    Outcomes, Statuses, Runtimes, Terminal, FinishUnaccepted, FinishTimedOut,
    FinishFailed, Undecided, Acceptable, Marked, Names, Resolve, Blocked,
    controller
<1>2. LivingIsPending'
  BY ExecutorAssumption, CrashAssumption DEF IInv, LivingIsPending, TypeOK,
    ExecutorTypeOK, Runtimes, Statuses, FinishUnaccepted, FinishTimedOut,
    FinishFailed, Undecided, Acceptable, Marked, Names, Resolve, Blocked,
    Outcomes, controller
<1>3. OneFuture'
  BY ExecutorAssumption, CrashAssumption DEF IInv, OneFuture, FlightNamed,
    TypeOK, ExecutorTypeOK, Runtimes, Statuses, FinishUnaccepted,
    FinishTimedOut, FinishFailed, Undecided, Acceptable, Marked, Names,
    Resolve, Blocked, Outcomes, controller
<1>4. FlightNamed'
  BY ExecutorAssumption, CrashAssumption DEF IInv, FlightNamed, Names,
    Terminal, OneFuture, Submitting, TypeOK, ExecutorTypeOK, Runtimes,
    Statuses, FinishUnaccepted, FinishTimedOut, FinishFailed, Undecided,
    Acceptable, Marked, Resolve, Blocked, Outcomes, controller
<1>5. Submitting'
  BY ExecutorAssumption, CrashAssumption DEF IInv, Submitting, FlightNamed,
    TypeOK, ExecutorTypeOK, Runtimes, Statuses, FinishUnaccepted,
    FinishTimedOut, FinishFailed, Undecided, Acceptable, Marked, Names,
    Resolve, Blocked, Outcomes, controller
<1>6. PublishedIsOver'
  BY ExecutorAssumption, CrashAssumption DEF IInv, PublishedIsOver,
    LivingIsPending, ReceiptStands, OneFuture, FlightNamed, TypeOK,
    ExecutorTypeOK, Runtimes, Statuses, FinishUnaccepted, FinishTimedOut,
    FinishFailed, Undecided, Acceptable, Marked, Names, Resolve, Blocked,
    Outcomes, controller
<1>7. LateHasFile'
  <2>1. CASE runtime' = runtime
    BY <2>1 DEF IInv, LateHasFile, FinishUnaccepted, FinishTimedOut, FinishFailed
  <2>2. CASE runtime' = Marked(n, "timed_out")
    BY <2>2, MarkedTyped DEF IInv, LateHasFile, TypeOK, ExecutorTypeOK, Statuses,
      FinishUnaccepted, FinishTimedOut, FinishFailed
  <2>q. QED BY <2>1, <2>2 DEF FinishUnaccepted, FinishTimedOut, FinishFailed
<1>8. ReceiptStands'
  BY ExecutorAssumption, CrashAssumption DEF IInv, ReceiptStands, Names,
    PublishedIsOver, LivingIsPending, TypeOK, ExecutorTypeOK, Runtimes,
    Statuses, FinishUnaccepted, FinishTimedOut, FinishFailed, Undecided,
    Acceptable, Marked, Resolve, Blocked, Outcomes, controller
<1>9. FailureIsUnpublished'
  BY ExecutorAssumption, CrashAssumption DEF IInv, FailureIsUnpublished,
    FlightNamed, OneFuture, Submitting, TypeOK, ExecutorTypeOK, Runtimes,
    Statuses, FinishUnaccepted, FinishTimedOut, FinishFailed, Undecided,
    Acceptable, Marked, Names, Resolve, Blocked, Outcomes, controller
<1>10. FinishedByItsWorker'
  BY ExecutorAssumption, CrashAssumption DEF IInv, FinishedByItsWorker,
    LivingIsPending, ReceiptStands, TypeOK, ExecutorTypeOK, Runtimes,
    Statuses, FinishUnaccepted, FinishTimedOut, FinishFailed, Undecided,
    Acceptable, Marked, Names, Resolve, Blocked, Outcomes, controller
<1>q. QED BY <1>1, <1>2, <1>3, <1>4, <1>5, <1>6, <1>7, <1>8, <1>9, <1>10 DEF IInv

\* The backoff ends.
LEMMA BackoffElapsesKeeps ==
    ASSUME IInv, BackoffElapses
    PROVE  IInv'
<1>1. TypeOK'
  BY ExecutorAssumption, CrashAssumption DEF IInv, TypeOK, ExecutorTypeOK,
    Outcomes, Statuses, Runtimes, Terminal, BackoffElapses, executor
<1>2. LivingIsPending'
  BY ExecutorAssumption, CrashAssumption DEF IInv, LivingIsPending, TypeOK,
    ExecutorTypeOK, Runtimes, Statuses, BackoffElapses, executor
<1>3. OneFuture'
  BY ExecutorAssumption, CrashAssumption DEF IInv, OneFuture, FlightNamed,
    TypeOK, ExecutorTypeOK, Runtimes, Statuses, BackoffElapses, executor
<1>4. FlightNamed'
  BY ExecutorAssumption, CrashAssumption DEF IInv, FlightNamed, Names,
    Terminal, OneFuture, Submitting, TypeOK, ExecutorTypeOK, Runtimes,
    Statuses, BackoffElapses, executor
<1>5. Submitting'
  BY ExecutorAssumption, CrashAssumption DEF IInv, Submitting, FlightNamed,
    TypeOK, ExecutorTypeOK, Runtimes, Statuses, BackoffElapses, executor
<1>6. PublishedIsOver'
  BY ExecutorAssumption, CrashAssumption DEF IInv, PublishedIsOver,
    LivingIsPending, ReceiptStands, OneFuture, FlightNamed, TypeOK,
    ExecutorTypeOK, Runtimes, Statuses, BackoffElapses, executor
<1>7. LateHasFile'
  BY ExecutorAssumption, CrashAssumption DEF IInv, LateHasFile, TypeOK,
    ExecutorTypeOK, Runtimes, Statuses, BackoffElapses, executor
<1>8. ReceiptStands'
  BY ExecutorAssumption, CrashAssumption DEF IInv, ReceiptStands, Names,
    PublishedIsOver, LivingIsPending, TypeOK, ExecutorTypeOK, Runtimes,
    Statuses, BackoffElapses, executor
<1>9. FailureIsUnpublished'
  BY ExecutorAssumption, CrashAssumption DEF IInv, FailureIsUnpublished,
    FlightNamed, OneFuture, Submitting, TypeOK, ExecutorTypeOK, Runtimes,
    Statuses, BackoffElapses, executor
<1>10. FinishedByItsWorker'
  BY ExecutorAssumption, CrashAssumption DEF IInv, FinishedByItsWorker,
    LivingIsPending, ReceiptStands, TypeOK, ExecutorTypeOK, Runtimes,
    Statuses, BackoffElapses, executor
<1>q. QED BY <1>1, <1>2, <1>3, <1>4, <1>5, <1>6, <1>7, <1>8, <1>9, <1>10 DEF IInv

\* The loop commits a published result.
LEMMA CommitPublishedKeeps ==
    ASSUME IInv, CommitPublished
    PROVE  IInv'
<1>1. TypeOK'
  <2>1. ExecutorTypeOK'
    BY ExecutorAssumption, CrashAssumption DEF IInv, TypeOK, ExecutorTypeOK,
      Outcomes, Statuses, Runtimes, Terminal, CommitPublished, Pending,
      Commits, Defers, Interrupted, Blocked
  <2>2. retry' \in Retries /\ row' \in {"reserved", "running"} \cup Terminal
    BY CommitsTyped, DefersTyped DEF IInv, TypeOK, ExecutorTypeOK, Retries,
      Terminal, CommitPublished
  <2>4. published' \in Nonces \cup {None} /\ pc' \in {"down", "loop", "submitted"}
    BY ExecutorAssumption, CrashAssumption DEF IInv, TypeOK, ExecutorTypeOK,
      Outcomes, Statuses, Runtimes, Terminal, CommitPublished, Pending,
      Commits, Defers, Interrupted, Blocked
  <2>5. inflight' \in Nonces \cup {None} /\ crashes' \in 0..MaxCrashes
    BY ExecutorAssumption, CrashAssumption DEF IInv, TypeOK, ExecutorTypeOK,
      Outcomes, Statuses, Runtimes, Terminal, CommitPublished, Pending,
      Commits, Defers, Interrupted, Blocked
  <2>q. QED BY <2>1, <2>2, <2>4, <2>5 DEF TypeOK, Retries
<1>2. LivingIsPending'
  BY ExecutorAssumption, CrashAssumption DEF IInv, LivingIsPending, TypeOK,
    ExecutorTypeOK, Runtimes, Statuses, CommitPublished, Pending, Commits,
    Defers, Interrupted, Blocked, Terminal
<1>3. OneFuture'
  BY ExecutorAssumption, CrashAssumption DEF IInv, OneFuture, FlightNamed,
    TypeOK, ExecutorTypeOK, Runtimes, Statuses, CommitPublished, Pending,
    Commits, Defers, Interrupted, Blocked, Terminal
<1>4. FlightNamed'
  BY ExecutorAssumption, CrashAssumption DEF IInv, FlightNamed, Names,
    Terminal, OneFuture, Submitting, TypeOK, ExecutorTypeOK, Runtimes,
    Statuses, CommitPublished, Pending, Commits, Defers, Interrupted, Blocked
<1>5. Submitting'
  BY ExecutorAssumption, CrashAssumption DEF IInv, Submitting, FlightNamed,
    TypeOK, ExecutorTypeOK, Runtimes, Statuses, CommitPublished, Pending,
    Commits, Defers, Interrupted, Blocked, Terminal
<1>6. PublishedIsOver'
  BY ExecutorAssumption, CrashAssumption DEF IInv, PublishedIsOver,
    LivingIsPending, ReceiptStands, OneFuture, FlightNamed, TypeOK,
    ExecutorTypeOK, Runtimes, Statuses, CommitPublished, Pending, Commits,
    Defers, Interrupted, Blocked, Terminal
<1>7. LateHasFile'
  BY ExecutorAssumption, CrashAssumption DEF IInv, LateHasFile, TypeOK,
    ExecutorTypeOK, Runtimes, Statuses, CommitPublished, Pending, Commits,
    Defers, Interrupted, Blocked, Terminal
<1>8. ReceiptStands'
  BY ExecutorAssumption, CrashAssumption DEF IInv, ReceiptStands, Names,
    PublishedIsOver, LivingIsPending, TypeOK, ExecutorTypeOK, Runtimes,
    Statuses, CommitPublished, Pending, Commits, Defers, Interrupted, Blocked,
    Terminal
<1>9. FailureIsUnpublished'
  BY ExecutorAssumption, CrashAssumption DEF IInv, FailureIsUnpublished,
    FlightNamed, OneFuture, Submitting, TypeOK, ExecutorTypeOK, Runtimes,
    Statuses, CommitPublished, Pending, Commits, Defers, Interrupted, Blocked,
    Terminal
<1>10. FinishedByItsWorker'
  BY ExecutorAssumption, CrashAssumption DEF IInv, FinishedByItsWorker,
    LivingIsPending, ReceiptStands, TypeOK, ExecutorTypeOK, Runtimes,
    Statuses, CommitPublished, Pending, Commits, Defers, Interrupted, Blocked,
    Terminal
<1>q. QED BY <1>1, <1>2, <1>3, <1>4, <1>5, <1>6, <1>7, <1>8, <1>9, <1>10 DEF IInv

\* The loop submits an episode.
LEMMA SubmitFitKeeps ==
    ASSUME IInv, NEW n \in Nonces, SubmitFit(n)
    PROVE  IInv'
<1>1. TypeOK'
  BY ExecutorAssumption, CrashAssumption DEF IInv, TypeOK, ExecutorTypeOK,
    Outcomes, Statuses, Runtimes, Terminal, SubmitFit, Pending, Unpublished,
    Resettable, Fresh, Over, Names, Submit, Lateness, RetryReady
<1>2. LivingIsPending'
  BY ExecutorAssumption, CrashAssumption DEF IInv, LivingIsPending, TypeOK,
    ExecutorTypeOK, Runtimes, Statuses, SubmitFit, Pending, Unpublished,
    Resettable, Fresh, Over, Names, Submit, Lateness, RetryReady, Outcomes,
    Terminal
<1>3. OneFuture'
  BY ExecutorAssumption, CrashAssumption DEF IInv, OneFuture, FlightNamed,
    TypeOK, ExecutorTypeOK, Runtimes, Statuses, SubmitFit, Pending,
    Unpublished, Resettable, Fresh, Over, Names, Submit, Lateness, RetryReady,
    Outcomes, Terminal
<1>4. FlightNamed'
  BY ExecutorAssumption, CrashAssumption DEF IInv, FlightNamed, Names,
    Terminal, OneFuture, Submitting, TypeOK, ExecutorTypeOK, Runtimes,
    Statuses, SubmitFit, Pending, Unpublished, Resettable, Fresh, Over,
    Submit, Lateness, RetryReady, Outcomes
<1>5. Submitting'
  BY ExecutorAssumption, CrashAssumption DEF IInv, Submitting, FlightNamed,
    TypeOK, ExecutorTypeOK, Runtimes, Statuses, SubmitFit, Pending,
    Unpublished, Resettable, Fresh, Over, Names, Submit, Lateness, RetryReady,
    Outcomes, Terminal
<1>6. PublishedIsOver'
  BY ExecutorAssumption, CrashAssumption DEF IInv, PublishedIsOver,
    LivingIsPending, ReceiptStands, OneFuture, FlightNamed, TypeOK,
    ExecutorTypeOK, Runtimes, Statuses, SubmitFit, Pending, Unpublished,
    Resettable, Fresh, Over, Names, Submit, Lateness, RetryReady, Outcomes,
    Terminal
<1>7. LateHasFile'
  BY ExecutorAssumption, CrashAssumption DEF IInv, LateHasFile, TypeOK,
    ExecutorTypeOK, Runtimes, Statuses, SubmitFit, Pending, Unpublished,
    Resettable, Fresh, Over, Names, Submit, Lateness, RetryReady, Outcomes,
    Terminal
<1>8. ReceiptStands'
  BY ExecutorAssumption, CrashAssumption DEF IInv, ReceiptStands, Names,
    PublishedIsOver, LivingIsPending, TypeOK, ExecutorTypeOK, Runtimes,
    Statuses, SubmitFit, Pending, Unpublished, Resettable, Fresh, Over,
    Submit, Lateness, RetryReady, Outcomes, Terminal
<1>9. FailureIsUnpublished'
  BY ExecutorAssumption, CrashAssumption DEF IInv, FailureIsUnpublished,
    FlightNamed, OneFuture, Submitting, TypeOK, ExecutorTypeOK, Runtimes,
    Statuses, SubmitFit, Pending, Unpublished, Resettable, Fresh, Over, Names,
    Submit, Lateness, RetryReady, Outcomes, Terminal
<1>10. FinishedByItsWorker'
  BY ExecutorAssumption, CrashAssumption DEF IInv, FinishedByItsWorker,
    LivingIsPending, ReceiptStands, TypeOK, ExecutorTypeOK, Runtimes,
    Statuses, SubmitFit, Pending, Unpublished, Resettable, Fresh, Over, Names,
    Submit, Lateness, RetryReady, Outcomes, Terminal
<1>q. QED BY <1>1, <1>2, <1>3, <1>4, <1>5, <1>6, <1>7, <1>8, <1>9, <1>10 DEF IInv

\* The campaign dies after a reset.
LEMMA ResetOnlyKeeps ==
    ASSUME IInv, ResetOnly
    PROVE  IInv'
<1>1. TypeOK'
  <2>1. ExecutorTypeOK'
    <3>1. ExecutorTypeOK
      BY DEF IInv, TypeOK
    <3>2. runtime' = None /\ late' = FALSE /\ UNCHANGED <<blocks, raw>> /\ Orphan
      BY DEF ResetOnly, Dies, Orphan
    <3>3. worker' \in [Nonces -> {"none", "assigned", "running", "ended"}]
      BY <3>1, <3>2 DEF ExecutorTypeOK, Orphan
    <3>4. /\ future' \in [Nonces -> Outcomes \cup {"none", "pending"}]
          /\ timer' \in [Nonces -> {"off", "armed", "decided"}]
      BY <3>2 DEF Orphan
    <3> QED BY <3>1, <3>2, <3>3, <3>4 DEF ExecutorTypeOK
  <2>2. retry' \in [active : BOOLEAN, due : BOOLEAN, snapshot : Runtimes \cup {None}]
    BY ExecutorAssumption, CrashAssumption DEF IInv, TypeOK, ExecutorTypeOK,
      Outcomes, Statuses, Runtimes, Terminal, ResetOnly, Pending, Unpublished,
      Dies, Orphan
  <2>3. row' \in {"reserved", "running"} \cup Terminal
    BY ExecutorAssumption, CrashAssumption DEF IInv, TypeOK, ExecutorTypeOK,
      Outcomes, Statuses, Runtimes, Terminal, ResetOnly, Pending, Unpublished,
      Dies, Orphan
  <2>4. published' \in Nonces \cup {None} /\ pc' \in {"down", "loop", "submitted"}
    BY ExecutorAssumption, CrashAssumption DEF IInv, TypeOK, ExecutorTypeOK,
      Outcomes, Statuses, Runtimes, Terminal, ResetOnly, Pending, Unpublished,
      Dies, Orphan
  <2>5. inflight' \in Nonces \cup {None} /\ crashes' \in 0..MaxCrashes
    BY ExecutorAssumption, CrashAssumption DEF IInv, TypeOK, ExecutorTypeOK,
      Outcomes, Statuses, Runtimes, Terminal, ResetOnly, Pending, Unpublished,
      Dies, Orphan
  <2>q. QED BY <2>1, <2>2, <2>3, <2>4, <2>5 DEF TypeOK, Retries
<1>2. LivingIsPending'
  BY ExecutorAssumption, CrashAssumption DEF IInv, LivingIsPending, TypeOK,
    ExecutorTypeOK, Runtimes, Statuses, ResetOnly, Pending, Unpublished, Dies,
    Orphan
<1>3. OneFuture'
  BY ExecutorAssumption, CrashAssumption DEF IInv, OneFuture, FlightNamed,
    TypeOK, ExecutorTypeOK, Runtimes, Statuses, ResetOnly, Pending,
    Unpublished, Dies, Orphan
<1>4. FlightNamed'
  BY ExecutorAssumption, CrashAssumption DEF IInv, FlightNamed, Names,
    Terminal, OneFuture, Submitting, TypeOK, ExecutorTypeOK, Runtimes,
    Statuses, ResetOnly, Pending, Unpublished, Dies, Orphan
<1>5. Submitting'
  BY ExecutorAssumption, CrashAssumption DEF IInv, Submitting, FlightNamed,
    TypeOK, ExecutorTypeOK, Runtimes, Statuses, ResetOnly, Pending,
    Unpublished, Dies, Orphan
<1>6. PublishedIsOver'
  BY ExecutorAssumption, CrashAssumption DEF IInv, PublishedIsOver,
    LivingIsPending, ReceiptStands, OneFuture, FlightNamed, TypeOK,
    ExecutorTypeOK, Runtimes, Statuses, ResetOnly, Pending, Unpublished, Dies,
    Orphan
<1>7. LateHasFile'
  BY ExecutorAssumption, CrashAssumption DEF IInv, LateHasFile, TypeOK,
    ExecutorTypeOK, Runtimes, Statuses, ResetOnly, Pending, Unpublished, Dies,
    Orphan
<1>8. ReceiptStands'
  BY ExecutorAssumption, CrashAssumption DEF IInv, ReceiptStands, Names,
    PublishedIsOver, LivingIsPending, TypeOK, ExecutorTypeOK, Runtimes,
    Statuses, ResetOnly, Pending, Unpublished, Dies, Orphan
<1>9. FailureIsUnpublished'
  BY ExecutorAssumption, CrashAssumption DEF IInv, FailureIsUnpublished,
    FlightNamed, OneFuture, Submitting, TypeOK, ExecutorTypeOK, Runtimes,
    Statuses, ResetOnly, Pending, Unpublished, Dies, Orphan
<1>10. FinishedByItsWorker'
  BY ExecutorAssumption, CrashAssumption DEF IInv, FinishedByItsWorker,
    LivingIsPending, ReceiptStands, TypeOK, ExecutorTypeOK, Runtimes,
    Statuses, ResetOnly, Pending, Unpublished, Dies, Orphan
<1>q. QED BY <1>1, <1>2, <1>3, <1>4, <1>5, <1>6, <1>7, <1>8, <1>9, <1>10 DEF IInv

\* A reset is refused.
LEMMA ResetRefusedKeeps ==
    ASSUME IInv, ResetRefused
    PROVE  IInv'
<1>1. TypeOK'
  <2>1. ExecutorTypeOK'
    BY ExecutorAssumption, CrashAssumption DEF IInv, TypeOK, ExecutorTypeOK,
      Outcomes, Statuses, Runtimes, Terminal, ResetRefused, Pending,
      Unpublished, Dies, Orphan
  <2>2. retry' \in [active : BOOLEAN, due : BOOLEAN, snapshot : Runtimes \cup {None}]
    BY ExecutorAssumption, CrashAssumption DEF IInv, TypeOK, ExecutorTypeOK,
      Outcomes, Statuses, Runtimes, Terminal, ResetRefused, Pending,
      Unpublished, Dies, Orphan
  <2>3. row' \in {"reserved", "running"} \cup Terminal
    BY ExecutorAssumption, CrashAssumption DEF IInv, TypeOK, ExecutorTypeOK,
      Outcomes, Statuses, Runtimes, Terminal, ResetRefused, Pending,
      Unpublished, Dies, Orphan
  <2>4. published' \in Nonces \cup {None} /\ pc' \in {"down", "loop", "submitted"}
    BY ExecutorAssumption, CrashAssumption DEF IInv, TypeOK, ExecutorTypeOK,
      Outcomes, Statuses, Runtimes, Terminal, ResetRefused, Pending,
      Unpublished, Dies, Orphan
  <2>5. inflight' \in Nonces \cup {None} /\ crashes' \in 0..MaxCrashes
    BY ExecutorAssumption, CrashAssumption DEF IInv, TypeOK, ExecutorTypeOK,
      Outcomes, Statuses, Runtimes, Terminal, ResetRefused, Pending,
      Unpublished, Dies, Orphan
  <2>q. QED BY <2>1, <2>2, <2>3, <2>4, <2>5 DEF TypeOK, Retries
<1>2. LivingIsPending'
  BY ExecutorAssumption, CrashAssumption DEF IInv, LivingIsPending, TypeOK,
    ExecutorTypeOK, Runtimes, Statuses, ResetRefused, Pending, Unpublished,
    Dies, Orphan
<1>3. OneFuture'
  BY ExecutorAssumption, CrashAssumption DEF IInv, OneFuture, FlightNamed,
    TypeOK, ExecutorTypeOK, Runtimes, Statuses, ResetRefused, Pending,
    Unpublished, Dies, Orphan
<1>4. FlightNamed'
  BY ExecutorAssumption, CrashAssumption DEF IInv, FlightNamed, Names,
    Terminal, OneFuture, Submitting, TypeOK, ExecutorTypeOK, Runtimes,
    Statuses, ResetRefused, Pending, Unpublished, Dies, Orphan
<1>5. Submitting'
  BY ExecutorAssumption, CrashAssumption DEF IInv, Submitting, FlightNamed,
    TypeOK, ExecutorTypeOK, Runtimes, Statuses, ResetRefused, Pending,
    Unpublished, Dies, Orphan
<1>6. PublishedIsOver'
  BY ExecutorAssumption, CrashAssumption DEF IInv, PublishedIsOver,
    LivingIsPending, ReceiptStands, OneFuture, FlightNamed, TypeOK,
    ExecutorTypeOK, Runtimes, Statuses, ResetRefused, Pending, Unpublished,
    Dies, Orphan
<1>7. LateHasFile'
  BY ExecutorAssumption, CrashAssumption DEF IInv, LateHasFile, TypeOK,
    ExecutorTypeOK, Runtimes, Statuses, ResetRefused, Pending, Unpublished,
    Dies, Orphan
<1>8. ReceiptStands'
  BY ExecutorAssumption, CrashAssumption DEF IInv, ReceiptStands, Names,
    PublishedIsOver, LivingIsPending, TypeOK, ExecutorTypeOK, Runtimes,
    Statuses, ResetRefused, Pending, Unpublished, Dies, Orphan
<1>9. FailureIsUnpublished'
  BY ExecutorAssumption, CrashAssumption DEF IInv, FailureIsUnpublished,
    FlightNamed, OneFuture, Submitting, TypeOK, ExecutorTypeOK, Runtimes,
    Statuses, ResetRefused, Pending, Unpublished, Dies, Orphan
<1>10. FinishedByItsWorker'
  BY ExecutorAssumption, CrashAssumption DEF IInv, FinishedByItsWorker,
    LivingIsPending, ReceiptStands, TypeOK, ExecutorTypeOK, Runtimes,
    Statuses, ResetRefused, Pending, Unpublished, Dies, Orphan
<1>q. QED BY <1>1, <1>2, <1>3, <1>4, <1>5, <1>6, <1>7, <1>8, <1>9, <1>10 DEF IInv

\* The row is marked, or the campaign dies.
LEMMA MarkRunningKeeps ==
    ASSUME IInv, MarkRunning
    PROVE  IInv'
<1>1. TypeOK'
  <2>1. ExecutorTypeOK'
    BY ExecutorAssumption, CrashAssumption DEF IInv, TypeOK, ExecutorTypeOK,
      Outcomes, Statuses, Runtimes, Terminal, MarkRunning, Blocked, Dies,
      Orphan, executor
  <2>2. retry' \in [active : BOOLEAN, due : BOOLEAN, snapshot : Runtimes \cup {None}]
    BY ExecutorAssumption, CrashAssumption DEF IInv, TypeOK, ExecutorTypeOK,
      Outcomes, Statuses, Runtimes, Terminal, MarkRunning, Blocked, Dies,
      Orphan, executor
  <2>3. row' \in {"reserved", "running"} \cup Terminal
    BY ExecutorAssumption, CrashAssumption DEF IInv, TypeOK, ExecutorTypeOK,
      Outcomes, Statuses, Runtimes, Terminal, MarkRunning, Blocked, Dies,
      Orphan, executor
  <2>4. published' \in Nonces \cup {None} /\ pc' \in {"down", "loop", "submitted"}
    BY ExecutorAssumption, CrashAssumption DEF IInv, TypeOK, ExecutorTypeOK,
      Outcomes, Statuses, Runtimes, Terminal, MarkRunning, Blocked, Dies,
      Orphan, executor
  <2>5. inflight' \in Nonces \cup {None} /\ crashes' \in 0..MaxCrashes
    BY ExecutorAssumption, CrashAssumption DEF IInv, TypeOK, ExecutorTypeOK,
      Outcomes, Statuses, Runtimes, Terminal, MarkRunning, Blocked, Dies,
      Orphan, executor
  <2>q. QED BY <2>1, <2>2, <2>3, <2>4, <2>5 DEF TypeOK, Retries
<1>2. LivingIsPending'
  BY ExecutorAssumption, CrashAssumption DEF IInv, LivingIsPending, TypeOK,
    ExecutorTypeOK, Runtimes, Statuses, MarkRunning, Blocked, Dies, Orphan,
    executor, Terminal
<1>3. OneFuture'
  BY ExecutorAssumption, CrashAssumption DEF IInv, OneFuture, FlightNamed,
    TypeOK, ExecutorTypeOK, Runtimes, Statuses, MarkRunning, Blocked, Dies,
    Orphan, executor, Terminal
<1>4. FlightNamed'
  BY ExecutorAssumption, CrashAssumption DEF IInv, FlightNamed, Names,
    Terminal, OneFuture, Submitting, TypeOK, ExecutorTypeOK, Runtimes,
    Statuses, MarkRunning, Blocked, Dies, Orphan, executor
<1>5. Submitting'
  BY ExecutorAssumption, CrashAssumption DEF IInv, Submitting, FlightNamed,
    TypeOK, ExecutorTypeOK, Runtimes, Statuses, MarkRunning, Blocked, Dies,
    Orphan, executor, Terminal
<1>6. PublishedIsOver'
  BY ExecutorAssumption, CrashAssumption DEF IInv, PublishedIsOver,
    LivingIsPending, ReceiptStands, OneFuture, FlightNamed, TypeOK,
    ExecutorTypeOK, Runtimes, Statuses, MarkRunning, Blocked, Dies, Orphan,
    executor, Terminal
<1>7. LateHasFile'
  BY ExecutorAssumption, CrashAssumption DEF IInv, LateHasFile, TypeOK,
    ExecutorTypeOK, Runtimes, Statuses, MarkRunning, Blocked, Dies, Orphan,
    executor, Terminal
<1>8. ReceiptStands'
  BY ExecutorAssumption, CrashAssumption DEF IInv, ReceiptStands, Names,
    PublishedIsOver, LivingIsPending, TypeOK, ExecutorTypeOK, Runtimes,
    Statuses, MarkRunning, Blocked, Dies, Orphan, executor, Terminal
<1>9. FailureIsUnpublished'
  BY ExecutorAssumption, CrashAssumption DEF IInv, FailureIsUnpublished,
    FlightNamed, OneFuture, Submitting, TypeOK, ExecutorTypeOK, Runtimes,
    Statuses, MarkRunning, Blocked, Dies, Orphan, executor, Terminal
<1>10. FinishedByItsWorker'
  BY ExecutorAssumption, CrashAssumption DEF IInv, FinishedByItsWorker,
    LivingIsPending, ReceiptStands, TypeOK, ExecutorTypeOK, Runtimes,
    Statuses, MarkRunning, Blocked, Dies, Orphan, executor, Terminal
<1>q. QED BY <1>1, <1>2, <1>3, <1>4, <1>5, <1>6, <1>7, <1>8, <1>9, <1>10 DEF IInv

\* A published result is taken from the pool.
LEMMA CompletePublishedKeeps ==
    ASSUME IInv, NEW n \in Nonces, CompletePublished(n)
    PROVE  IInv'
<1>1. TypeOK'
  <2>1. ExecutorTypeOK'
    BY ExecutorAssumption, CrashAssumption DEF IInv, TypeOK, ExecutorTypeOK,
      Outcomes, Statuses, Runtimes, Terminal, CompletePublished, Takes,
      Cleaned, Commits, Proceeds, Interrupted, Defers, Raises, Blocked
  <2>2. retry' \in Retries /\ row' \in {"reserved", "running"} \cup Terminal
    BY CommitsTyped, DefersTyped DEF IInv, TypeOK, ExecutorTypeOK, Retries,
      Terminal, CompletePublished, Takes, Raises
  <2>4. published' \in Nonces \cup {None} /\ pc' \in {"down", "loop", "submitted"}
    BY ExecutorAssumption, CrashAssumption DEF IInv, TypeOK, ExecutorTypeOK,
      Outcomes, Statuses, Runtimes, Terminal, CompletePublished, Takes,
      Cleaned, Commits, Proceeds, Interrupted, Defers, Raises, Blocked
  <2>5. inflight' \in Nonces \cup {None} /\ crashes' \in 0..MaxCrashes
    BY ExecutorAssumption, CrashAssumption DEF IInv, TypeOK, ExecutorTypeOK,
      Outcomes, Statuses, Runtimes, Terminal, CompletePublished, Takes,
      Cleaned, Commits, Proceeds, Interrupted, Defers, Raises, Blocked
  <2>q. QED BY <2>1, <2>2, <2>4, <2>5 DEF TypeOK, Retries
<1>2. LivingIsPending'
  BY ExecutorAssumption, CrashAssumption DEF IInv, LivingIsPending, TypeOK,
    ExecutorTypeOK, Runtimes, Statuses, CompletePublished, Takes, Cleaned,
    Commits, Proceeds, Interrupted, Defers, Raises, Blocked, Outcomes,
    Terminal
<1>3. OneFuture'
  BY ExecutorAssumption, CrashAssumption DEF IInv, OneFuture, FlightNamed,
    TypeOK, ExecutorTypeOK, Runtimes, Statuses, CompletePublished, Takes,
    Cleaned, Commits, Proceeds, Interrupted, Defers, Raises, Blocked,
    Outcomes, Terminal
<1>4. FlightNamed'
  BY ExecutorAssumption, CrashAssumption DEF IInv, FlightNamed, Names,
    Terminal, OneFuture, Submitting, TypeOK, ExecutorTypeOK, Runtimes,
    Statuses, CompletePublished, Takes, Cleaned, Commits, Proceeds,
    Interrupted, Defers, Raises, Blocked, Outcomes
<1>5. Submitting'
  BY ExecutorAssumption, CrashAssumption DEF IInv, Submitting, FlightNamed,
    TypeOK, ExecutorTypeOK, Runtimes, Statuses, CompletePublished, Takes,
    Cleaned, Commits, Proceeds, Interrupted, Defers, Raises, Blocked,
    Outcomes, Terminal
<1>6. PublishedIsOver'
  BY ExecutorAssumption, CrashAssumption DEF IInv, PublishedIsOver,
    LivingIsPending, ReceiptStands, OneFuture, FlightNamed, TypeOK,
    ExecutorTypeOK, Runtimes, Statuses, CompletePublished, Takes, Cleaned,
    Commits, Proceeds, Interrupted, Defers, Raises, Blocked, Outcomes,
    Terminal
<1>7. LateHasFile'
  BY ExecutorAssumption, CrashAssumption DEF IInv, LateHasFile, TypeOK,
    ExecutorTypeOK, Runtimes, Statuses, CompletePublished, Takes, Cleaned,
    Commits, Proceeds, Interrupted, Defers, Raises, Blocked, Outcomes,
    Terminal
<1>8. ReceiptStands'
  BY ExecutorAssumption, CrashAssumption DEF IInv, ReceiptStands, Names,
    PublishedIsOver, LivingIsPending, TypeOK, ExecutorTypeOK, Runtimes,
    Statuses, CompletePublished, Takes, Cleaned, Commits, Proceeds,
    Interrupted, Defers, Raises, Blocked, Outcomes, Terminal
<1>9. FailureIsUnpublished'
  BY ExecutorAssumption, CrashAssumption DEF IInv, FailureIsUnpublished,
    FlightNamed, OneFuture, Submitting, TypeOK, ExecutorTypeOK, Runtimes,
    Statuses, CompletePublished, Takes, Cleaned, Commits, Proceeds,
    Interrupted, Defers, Raises, Blocked, Outcomes, Terminal
<1>10. FinishedByItsWorker'
  BY ExecutorAssumption, CrashAssumption DEF IInv, FinishedByItsWorker,
    LivingIsPending, ReceiptStands, TypeOK, ExecutorTypeOK, Runtimes,
    Statuses, CompletePublished, Takes, Cleaned, Commits, Proceeds,
    Interrupted, Defers, Raises, Blocked, Outcomes, Terminal
<1>q. QED BY <1>1, <1>2, <1>3, <1>4, <1>5, <1>6, <1>7, <1>8, <1>9, <1>10 DEF IInv

\* A storage failure is taken from the pool.
LEMMA CompleteBlockedKeeps ==
    ASSUME IInv, NEW n \in Nonces, CompleteBlocked(n)
    PROVE  IInv'
<1>1. TypeOK'
  <2>1. ExecutorTypeOK'
    BY ExecutorAssumption, CrashAssumption DEF IInv, TypeOK, ExecutorTypeOK,
      Outcomes, Statuses, Runtimes, Terminal, CompleteBlocked, Takes, Cleaned,
      Proceeds, Interrupted, Defers, Raises
  <2>2. retry' \in Retries /\ row' \in {"reserved", "running"} \cup Terminal
    BY CommitsTyped, DefersTyped DEF IInv, TypeOK, ExecutorTypeOK, Retries,
      Terminal, CompleteBlocked, Takes, Raises
  <2>4. published' \in Nonces \cup {None} /\ pc' \in {"down", "loop", "submitted"}
    BY ExecutorAssumption, CrashAssumption DEF IInv, TypeOK, ExecutorTypeOK,
      Outcomes, Statuses, Runtimes, Terminal, CompleteBlocked, Takes, Cleaned,
      Proceeds, Interrupted, Defers, Raises
  <2>5. inflight' \in Nonces \cup {None} /\ crashes' \in 0..MaxCrashes
    BY ExecutorAssumption, CrashAssumption DEF IInv, TypeOK, ExecutorTypeOK,
      Outcomes, Statuses, Runtimes, Terminal, CompleteBlocked, Takes, Cleaned,
      Proceeds, Interrupted, Defers, Raises
  <2>q. QED BY <2>1, <2>2, <2>4, <2>5 DEF TypeOK, Retries
<1>2. LivingIsPending'
  BY ExecutorAssumption, CrashAssumption DEF IInv, LivingIsPending, TypeOK,
    ExecutorTypeOK, Runtimes, Statuses, CompleteBlocked, Takes, Cleaned,
    Proceeds, Interrupted, Defers, Raises, Outcomes, Terminal
<1>3. OneFuture'
  BY ExecutorAssumption, CrashAssumption DEF IInv, OneFuture, FlightNamed,
    TypeOK, ExecutorTypeOK, Runtimes, Statuses, CompleteBlocked, Takes,
    Cleaned, Proceeds, Interrupted, Defers, Raises, Outcomes, Terminal
<1>4. FlightNamed'
  BY ExecutorAssumption, CrashAssumption DEF IInv, FlightNamed, Names,
    Terminal, OneFuture, Submitting, TypeOK, ExecutorTypeOK, Runtimes,
    Statuses, CompleteBlocked, Takes, Cleaned, Proceeds, Interrupted, Defers,
    Raises, Outcomes
<1>5. Submitting'
  BY ExecutorAssumption, CrashAssumption DEF IInv, Submitting, FlightNamed,
    TypeOK, ExecutorTypeOK, Runtimes, Statuses, CompleteBlocked, Takes,
    Cleaned, Proceeds, Interrupted, Defers, Raises, Outcomes, Terminal
<1>6. PublishedIsOver'
  BY ExecutorAssumption, CrashAssumption DEF IInv, PublishedIsOver,
    LivingIsPending, ReceiptStands, OneFuture, FlightNamed, TypeOK,
    ExecutorTypeOK, Runtimes, Statuses, CompleteBlocked, Takes, Cleaned,
    Proceeds, Interrupted, Defers, Raises, Outcomes, Terminal
<1>7. LateHasFile'
  BY ExecutorAssumption, CrashAssumption DEF IInv, LateHasFile, TypeOK,
    ExecutorTypeOK, Runtimes, Statuses, CompleteBlocked, Takes, Cleaned,
    Proceeds, Interrupted, Defers, Raises, Outcomes, Terminal
<1>8. ReceiptStands'
  BY ExecutorAssumption, CrashAssumption DEF IInv, ReceiptStands, Names,
    PublishedIsOver, LivingIsPending, TypeOK, ExecutorTypeOK, Runtimes,
    Statuses, CompleteBlocked, Takes, Cleaned, Proceeds, Interrupted, Defers,
    Raises, Outcomes, Terminal
<1>9. FailureIsUnpublished'
  BY ExecutorAssumption, CrashAssumption DEF IInv, FailureIsUnpublished,
    FlightNamed, OneFuture, Submitting, TypeOK, ExecutorTypeOK, Runtimes,
    Statuses, CompleteBlocked, Takes, Cleaned, Proceeds, Interrupted, Defers,
    Raises, Outcomes, Terminal
<1>10. FinishedByItsWorker'
  BY ExecutorAssumption, CrashAssumption DEF IInv, FinishedByItsWorker,
    LivingIsPending, ReceiptStands, TypeOK, ExecutorTypeOK, Runtimes,
    Statuses, CompleteBlocked, Takes, Cleaned, Proceeds, Interrupted, Defers,
    Raises, Outcomes, Terminal
<1>q. QED BY <1>1, <1>2, <1>3, <1>4, <1>5, <1>6, <1>7, <1>8, <1>9, <1>10 DEF IInv

\* A failure is taken from the pool.
LEMMA CompleteFailedKeeps ==
    ASSUME IInv, NEW n \in Nonces, CompleteFailed(n)
    PROVE  IInv'
<1>1. TypeOK'
  <2>1. ExecutorTypeOK'
    <3>1. runtime \in Runtimes
      BY ExecutorAssumption DEF IInv, TypeOK, ExecutorTypeOK, FlightNamed,
        Names, CompleteFailed, Takes
    <3>2. runtime' \in Runtimes
      BY <3>1, StatusTyped DEF CompleteFailed, Statuses
    <3>3. worker' \in [Nonces -> {"none", "assigned", "running", "ended"}]
      BY DEF IInv, TypeOK, ExecutorTypeOK, CompleteFailed, Takes, Cleaned
    <3>4. /\ future' \in [Nonces -> Outcomes \cup {"none", "pending"}]
          /\ timer' \in [Nonces -> {"off", "armed", "decided"}]
      BY DEF IInv, TypeOK, ExecutorTypeOK, CompleteFailed, Proceeds, Raises
    <3>q. QED BY <3>2, <3>3, <3>4, ExecutorAssumption DEF IInv, TypeOK,
        ExecutorTypeOK, CompleteFailed, Takes, Blocked
  <2>2. retry' \in Retries /\ row' \in {"reserved", "running"} \cup Terminal
    <3>1. runtime \in Runtimes /\ retry \in Retries
      BY ExecutorAssumption DEF IInv, TypeOK, ExecutorTypeOK, Retries, FlightNamed, Names,
        CompleteFailed, Takes, Outcomes
    <3>2. runtime' \in Runtimes
      BY <3>1, StatusTyped DEF CompleteFailed, Statuses
    <3>3. CASE Commits("failed")
      BY <3>1, <3>3, CommitsTyped DEF Terminal
    <3>4. CASE Defers(runtime')
      BY <3>2, <3>4, DefersTyped
    <3>5. CASE Raises
      BY <3>1, <3>5 DEF Raises, IInv, TypeOK
    <3>q. QED BY <3>3, <3>4, <3>5 DEF CompleteFailed
  <2>4. published' \in Nonces \cup {None} /\ pc' \in {"down", "loop", "submitted"}
    BY ExecutorAssumption, CrashAssumption DEF IInv, TypeOK, ExecutorTypeOK,
      Outcomes, Statuses, Runtimes, Terminal, CompleteFailed, Takes, Cleaned,
      Commits, Proceeds, Interrupted, Defers, Raises, Blocked, Names
  <2>5. inflight' \in Nonces \cup {None} /\ crashes' \in 0..MaxCrashes
    BY ExecutorAssumption, CrashAssumption DEF IInv, TypeOK, ExecutorTypeOK,
      Outcomes, Statuses, Runtimes, Terminal, CompleteFailed, Takes, Cleaned,
      Commits, Proceeds, Interrupted, Defers, Raises, Blocked, Names
  <2>q. QED BY <2>1, <2>2, <2>4, <2>5 DEF TypeOK, Retries
<1>2. LivingIsPending'
  BY ExecutorAssumption, CrashAssumption DEF IInv, LivingIsPending, TypeOK,
    ExecutorTypeOK, Runtimes, Statuses, CompleteFailed, Takes, Cleaned,
    Commits, Proceeds, Interrupted, Defers, Raises, Blocked, Outcomes,
    Terminal, Names
<1>3. OneFuture'
  BY ExecutorAssumption, CrashAssumption DEF IInv, OneFuture, FlightNamed,
    TypeOK, ExecutorTypeOK, Runtimes, Statuses, CompleteFailed, Takes,
    Cleaned, Commits, Proceeds, Interrupted, Defers, Raises, Blocked,
    Outcomes, Terminal, Names
<1>4. FlightNamed'
  BY ExecutorAssumption, CrashAssumption DEF IInv, FlightNamed, Names,
    Terminal, OneFuture, Submitting, TypeOK, ExecutorTypeOK, Runtimes,
    Statuses, CompleteFailed, Takes, Cleaned, Commits, Proceeds, Interrupted,
    Defers, Raises, Blocked, Outcomes
<1>5. Submitting'
  BY ExecutorAssumption, CrashAssumption DEF IInv, Submitting, FlightNamed,
    TypeOK, ExecutorTypeOK, Runtimes, Statuses, CompleteFailed, Takes,
    Cleaned, Commits, Proceeds, Interrupted, Defers, Raises, Blocked,
    Outcomes, Terminal, Names
<1>6. PublishedIsOver'
  BY ExecutorAssumption, CrashAssumption DEF IInv, PublishedIsOver,
    LivingIsPending, ReceiptStands, OneFuture, FlightNamed, TypeOK,
    ExecutorTypeOK, Runtimes, Statuses, CompleteFailed, Takes, Cleaned,
    Commits, Proceeds, Interrupted, Defers, Raises, Blocked, Outcomes,
    Terminal, Names
<1>7. LateHasFile'
  BY ExecutorAssumption, CrashAssumption DEF IInv, LateHasFile, TypeOK,
    ExecutorTypeOK, Runtimes, Statuses, CompleteFailed, Takes, Cleaned,
    Commits, Proceeds, Interrupted, Defers, Raises, Blocked, Outcomes,
    Terminal, Names
<1>8. ReceiptStands'
  BY ExecutorAssumption, CrashAssumption DEF IInv, ReceiptStands, Names,
    PublishedIsOver, LivingIsPending, TypeOK, ExecutorTypeOK, Runtimes,
    Statuses, CompleteFailed, Takes, Cleaned, Commits, Proceeds, Interrupted,
    Defers, Raises, Blocked, Outcomes, Terminal
<1>9. FailureIsUnpublished'
  BY ExecutorAssumption, CrashAssumption DEF IInv, FailureIsUnpublished,
    FlightNamed, OneFuture, Submitting, TypeOK, ExecutorTypeOK, Runtimes,
    Statuses, CompleteFailed, Takes, Cleaned, Commits, Proceeds, Interrupted,
    Defers, Raises, Blocked, Outcomes, Terminal, Names
<1>10. FinishedByItsWorker'
  BY ExecutorAssumption, CrashAssumption DEF IInv, FinishedByItsWorker,
    LivingIsPending, ReceiptStands, TypeOK, ExecutorTypeOK, Runtimes,
    Statuses, CompleteFailed, Takes, Cleaned, Commits, Proceeds, Interrupted,
    Defers, Raises, Blocked, Outcomes, Terminal, Names
<1>q. QED BY <1>1, <1>2, <1>3, <1>4, <1>5, <1>6, <1>7, <1>8, <1>9, <1>10 DEF IInv

\* The next controller starts.
LEMMA StartKeeps ==
    ASSUME IInv, Start
    PROVE  IInv'
<1>1. TypeOK'
  <2>1. ExecutorTypeOK'
    BY ExecutorAssumption, CrashAssumption DEF IInv, TypeOK, ExecutorTypeOK,
      Outcomes, Statuses, Runtimes, Terminal, Start, Commits, Defers,
      Interrupted, Cleaned, Blocked, RetryReady
  <2>2. retry' \in Retries /\ row' \in {"reserved", "running"} \cup Terminal
    BY CommitsTyped, DefersTyped DEF IInv, TypeOK, ExecutorTypeOK, Retries,
      Terminal, Start
  <2>4. published' \in Nonces \cup {None} /\ pc' \in {"down", "loop", "submitted"}
    BY ExecutorAssumption, CrashAssumption DEF IInv, TypeOK, ExecutorTypeOK,
      Outcomes, Statuses, Runtimes, Terminal, Start, Commits, Defers,
      Interrupted, Cleaned, Blocked, RetryReady
  <2>5. inflight' \in Nonces \cup {None} /\ crashes' \in 0..MaxCrashes
    BY ExecutorAssumption, CrashAssumption DEF IInv, TypeOK, ExecutorTypeOK,
      Outcomes, Statuses, Runtimes, Terminal, Start, Commits, Defers,
      Interrupted, Cleaned, Blocked, RetryReady
  <2>q. QED BY <2>1, <2>2, <2>4, <2>5 DEF TypeOK, Retries
<1>2. LivingIsPending'
  BY ExecutorAssumption, CrashAssumption DEF IInv, LivingIsPending, TypeOK,
    ExecutorTypeOK, Runtimes, Statuses, Start, Commits, Defers, Interrupted,
    Cleaned, Blocked, RetryReady, Terminal
<1>3. OneFuture'
  BY ExecutorAssumption, CrashAssumption DEF IInv, OneFuture, FlightNamed,
    TypeOK, ExecutorTypeOK, Runtimes, Statuses, Start, Commits, Defers,
    Interrupted, Cleaned, Blocked, RetryReady, Terminal
<1>4. FlightNamed'
  BY ExecutorAssumption, CrashAssumption DEF IInv, FlightNamed, Names,
    Terminal, OneFuture, Submitting, TypeOK, ExecutorTypeOK, Runtimes,
    Statuses, Start, Commits, Defers, Interrupted, Cleaned, Blocked,
    RetryReady
<1>5. Submitting'
  BY ExecutorAssumption, CrashAssumption DEF IInv, Submitting, FlightNamed,
    TypeOK, ExecutorTypeOK, Runtimes, Statuses, Start, Commits, Defers,
    Interrupted, Cleaned, Blocked, RetryReady, Terminal
<1>6. PublishedIsOver'
  BY ExecutorAssumption, CrashAssumption DEF IInv, PublishedIsOver,
    LivingIsPending, ReceiptStands, OneFuture, FlightNamed, TypeOK,
    ExecutorTypeOK, Runtimes, Statuses, Start, Commits, Defers, Interrupted,
    Cleaned, Blocked, RetryReady, Terminal
<1>7. LateHasFile'
  BY ExecutorAssumption, CrashAssumption DEF IInv, LateHasFile, TypeOK,
    ExecutorTypeOK, Runtimes, Statuses, Start, Commits, Defers, Interrupted,
    Cleaned, Blocked, RetryReady, Terminal
<1>8. ReceiptStands'
  BY ExecutorAssumption, CrashAssumption DEF IInv, ReceiptStands, Names,
    PublishedIsOver, LivingIsPending, TypeOK, ExecutorTypeOK, Runtimes,
    Statuses, Start, Commits, Defers, Interrupted, Cleaned, Blocked,
    RetryReady, Terminal
<1>9. FailureIsUnpublished'
  BY ExecutorAssumption, CrashAssumption DEF IInv, FailureIsUnpublished,
    FlightNamed, OneFuture, Submitting, TypeOK, ExecutorTypeOK, Runtimes,
    Statuses, Start, Commits, Defers, Interrupted, Cleaned, Blocked,
    RetryReady, Terminal
<1>10. FinishedByItsWorker'
  BY ExecutorAssumption, CrashAssumption DEF IInv, FinishedByItsWorker,
    LivingIsPending, ReceiptStands, TypeOK, ExecutorTypeOK, Runtimes,
    Statuses, Start, Commits, Defers, Interrupted, Cleaned, Blocked,
    RetryReady, Terminal
<1>q. QED BY <1>1, <1>2, <1>3, <1>4, <1>5, <1>6, <1>7, <1>8, <1>9, <1>10 DEF IInv

\* The controller dies.
LEMMA CrashKeeps ==
    ASSUME IInv, Crash
    PROVE  IInv'
<1>1. TypeOK'
  <2>1. ExecutorTypeOK'
    BY ExecutorAssumption, CrashAssumption DEF IInv, TypeOK, ExecutorTypeOK,
      Outcomes, Statuses, Runtimes, Terminal, Crash, Dies, Orphan
  <2>2. retry' \in [active : BOOLEAN, due : BOOLEAN, snapshot : Runtimes \cup {None}]
    BY ExecutorAssumption, CrashAssumption DEF IInv, TypeOK, ExecutorTypeOK,
      Outcomes, Statuses, Runtimes, Terminal, Crash, Dies, Orphan
  <2>3. row' \in {"reserved", "running"} \cup Terminal
    BY ExecutorAssumption, CrashAssumption DEF IInv, TypeOK, ExecutorTypeOK,
      Outcomes, Statuses, Runtimes, Terminal, Crash, Dies, Orphan
  <2>4. published' \in Nonces \cup {None} /\ pc' \in {"down", "loop", "submitted"}
    BY ExecutorAssumption, CrashAssumption DEF IInv, TypeOK, ExecutorTypeOK,
      Outcomes, Statuses, Runtimes, Terminal, Crash, Dies, Orphan
  <2>5. inflight' \in Nonces \cup {None} /\ crashes' \in 0..MaxCrashes
    BY ExecutorAssumption, CrashAssumption DEF IInv, TypeOK, ExecutorTypeOK,
      Outcomes, Statuses, Runtimes, Terminal, Crash, Dies, Orphan
  <2>q. QED BY <2>1, <2>2, <2>3, <2>4, <2>5 DEF TypeOK, Retries
<1>2. LivingIsPending'
  BY ExecutorAssumption, CrashAssumption DEF IInv, LivingIsPending, TypeOK,
    ExecutorTypeOK, Runtimes, Statuses, Crash, Dies, Orphan
<1>3. OneFuture'
  BY ExecutorAssumption, CrashAssumption DEF IInv, OneFuture, FlightNamed,
    TypeOK, ExecutorTypeOK, Runtimes, Statuses, Crash, Dies, Orphan
<1>4. FlightNamed'
  BY ExecutorAssumption, CrashAssumption DEF IInv, FlightNamed, Names,
    Terminal, OneFuture, Submitting, TypeOK, ExecutorTypeOK, Runtimes,
    Statuses, Crash, Dies, Orphan
<1>5. Submitting'
  BY ExecutorAssumption, CrashAssumption DEF IInv, Submitting, FlightNamed,
    TypeOK, ExecutorTypeOK, Runtimes, Statuses, Crash, Dies, Orphan
<1>6. PublishedIsOver'
  BY ExecutorAssumption, CrashAssumption DEF IInv, PublishedIsOver,
    LivingIsPending, ReceiptStands, OneFuture, FlightNamed, TypeOK,
    ExecutorTypeOK, Runtimes, Statuses, Crash, Dies, Orphan
<1>7. LateHasFile'
  BY ExecutorAssumption, CrashAssumption DEF IInv, LateHasFile, TypeOK,
    ExecutorTypeOK, Runtimes, Statuses, Crash, Dies, Orphan
<1>8. ReceiptStands'
  BY ExecutorAssumption, CrashAssumption DEF IInv, ReceiptStands, Names,
    PublishedIsOver, LivingIsPending, TypeOK, ExecutorTypeOK, Runtimes,
    Statuses, Crash, Dies, Orphan
<1>9. FailureIsUnpublished'
  BY ExecutorAssumption, CrashAssumption DEF IInv, FailureIsUnpublished,
    FlightNamed, OneFuture, Submitting, TypeOK, ExecutorTypeOK, Runtimes,
    Statuses, Crash, Dies, Orphan
<1>10. FinishedByItsWorker'
  BY ExecutorAssumption, CrashAssumption DEF IInv, FinishedByItsWorker,
    LivingIsPending, ReceiptStands, TypeOK, ExecutorTypeOK, Runtimes,
    Statuses, Crash, Dies, Orphan
<1>q. QED BY <1>1, <1>2, <1>3, <1>4, <1>5, <1>6, <1>7, <1>8, <1>9, <1>10 DEF IInv

-----------------------------------------------------------------------------
(***************************************************************************)
(* The inductive invariant and what follows from it.                       *)
(***************************************************************************)

LEMMA InitInv == Init => IInv
<1> SUFFICES ASSUME Init PROVE IInv
  OBVIOUS
<1>1. TypeOK
  <2>1. ExecutorTypeOK
    <3>1. late \in BOOLEAN
      BY DEF Init, ExecutorInit
    <3>2. runtime \in Runtimes \cup {None}
      BY DEF Init, ExecutorInit
    <3>3. worker \in [Nonces -> {"none", "assigned", "running", "ended"}]
      BY DEF Init, ExecutorInit
    <3>4. raw \in [Nonces -> Outcomes \cup {"none", "pending"}]
      BY DEF Init, ExecutorInit
    <3>5. future \in [Nonces -> Outcomes \cup {"none", "pending"}]
      BY DEF Init, ExecutorInit
    <3>6. timer \in [Nonces -> {"off", "armed", "decided"}]
      BY DEF Init, ExecutorInit
    <3>7. blocks \in 0..MaxBlocks
      BY ExecutorAssumption DEF Init, ExecutorInit
    <3>q. QED BY <3>1, <3>2, <3>3, <3>4, <3>5, <3>6, <3>7 DEF ExecutorTypeOK
  <2>2. retry \in Retries
    BY DEF Init, NoRetry, Retries
  <2>3. row \in {"reserved", "running"} \cup Terminal /\ pc \in {"down", "loop", "submitted"}
    BY DEF Init
  <2>4. published \in Nonces \cup {None} /\ inflight \in Nonces \cup {None}
    BY DEF Init
  <2>5. crashes \in 0..MaxCrashes
    BY CrashAssumption DEF Init
  <2>q. QED BY <2>1, <2>2, <2>3, <2>4, <2>5 DEF TypeOK, Retries
<1>2. LivingIsPending /\ OneFuture /\ FlightNamed /\ Submitting
  BY DEF Init, ExecutorInit, LivingIsPending, OneFuture, FlightNamed, Submitting
<1>3. PublishedIsOver /\ LateHasFile /\ ReceiptStands /\ FailureIsUnpublished
      /\ FinishedByItsWorker
  BY DEF Init, ExecutorInit, PublishedIsOver, LateHasFile, ReceiptStands,
    FailureIsUnpublished, FinishedByItsWorker
<1>q. QED BY <1>1, <1>2, <1>3 DEF IInv

LEMMA StutterKeeps == ASSUME IInv, UNCHANGED vars PROVE IInv'
BY DEF vars, executor, controller, IInv, TypeOK, ExecutorTypeOK, LivingIsPending,
  OneFuture, FlightNamed, Submitting, PublishedIsOver, LateHasFile,
  ReceiptStands, FailureIsUnpublished, FinishedByItsWorker, Names

LEMMA NextKeeps == IInv /\ [Next]_vars => IInv'
<1> SUFFICES ASSUME IInv, [Next]_vars PROVE IInv'
  OBVIOUS
<1>1. CASE ExecutorStep
  <2>1. CASE DeadlinePasses
    BY <1>1, <2>1, DeadlinePassesKeeps DEF ExecutorStep
  <2>2. CASE \E n \in Nonces : WorkerStep(n)
    BY <1>1, <2>2, ClaimKeeps, EndKeeps, WorkerStopsKeeps DEF ExecutorStep, WorkerStep
  <2>3. CASE \E n \in Nonces : TimerStep(n)
    BY <1>1, <2>3, ExpireKeeps, MarkExpiredKeeps DEF ExecutorStep, TimerStep
  <2>q. QED BY <1>1, <2>1, <2>2, <2>3 DEF ExecutorStep
<1>2. CASE BackoffElapses \/ CommitPublished \/ ResetOnly \/ ResetRefused
  BY <1>2, BackoffElapsesKeeps, CommitPublishedKeeps, ResetOnlyKeeps, ResetRefusedKeeps
<1>3. CASE MarkRunning \/ Start \/ Crash
  BY <1>3, MarkRunningKeeps, StartKeeps, CrashKeeps
<1>4. ASSUME NEW n \in Nonces, SubmitFit(n) \/ Accept(n) \/ FinishUnaccepted(n)
      PROVE  IInv'
  BY <1>4, SubmitFitKeeps, AcceptKeeps, FinishUnacceptedKeeps
<1>5. ASSUME NEW n \in Nonces,
             CompletePublished(n) \/ CompleteBlocked(n) \/ CompleteFailed(n)
      PROVE  IInv'
  BY <1>5, CompletePublishedKeeps, CompleteBlockedKeeps, CompleteFailedKeeps
<1>6. CASE UNCHANGED vars
  BY <1>6, StutterKeeps
<1>q. QED BY <1>1, <1>2, <1>3, <1>4, <1>5, <1>6 DEF Next

\* The strengthened invariant holds in every reachable state.
THEOREM InductiveInvariant == Spec => []IInv
BY InitInv, NextKeeps, PTL DEF Spec

\* runtime.json, the ledger row, the retry row and the futures keep their types:
\* in particular a storage wait always archives a well-formed runtime.
THEOREM TypeCorrect == Spec => []TypeOK
BY InductiveInvariant, PTL DEF IInv

\* read_accepted never rejects a result that publish_accepted wrote.
THEOREM ReceiptsStand == Spec => []ReceiptStands
BY InductiveInvariant, PTL DEF IInv

\* A runtime is finished only by the worker whose nonce it names.
THEOREM FinishedByWorker == Spec => []FinishedByItsWorker
BY InductiveInvariant, PTL DEF IInv

\* The deadline's decision and the acceptance of a result exclude each other.
THEOREM DeadlineOrResult == Spec => []TimeoutExcludesResult
<1>1. IInv => TimeoutExcludesResult
  BY ExecutorAssumption DEF IInv, PublishedIsOver, TimeoutExcludesResult
<1>q. QED BY <1>1, InductiveInvariant, PTL

\* No orphan takes runtime.json from the episode in flight.
THEOREM FlightKeepsFile == Spec => []CurrentEpisodeNamed
<1>1. IInv => CurrentEpisodeNamed
  BY DEF IInv, FlightNamed, CurrentEpisodeNamed
<1>q. QED BY <1>1, InductiveInvariant, PTL

\* Only a reset that was archived for a storage wait renews the allowance.
THEOREM AllowanceIsKept == Spec => AllowanceKept
<1>1. ASSUME IInv, [Next]_vars, late, ~late'
      PROVE  retry.active /\ retry.snapshot = runtime
  <2>1. runtime # None
    BY <1>1 DEF IInv, LateHasFile
  <2>2. CASE \E n \in Nonces : SubmitFit(n)
    BY <1>1, <2>1, <2>2 DEF SubmitFit, Submit, Lateness, Resettable
  <2>3. CASE ResetOnly
    BY <2>1, <2>3 DEF ResetOnly, Resettable
  <2>4. CASE ExecutorStep
    BY <1>1, <2>4 DEF ExecutorStep, DeadlinePasses, WorkerStep, TimerStep, Claim, End,
      EndUnwritten, WorkerDies, Cancelled, Expire, MarkExpired
  <2>5. CASE BackoffElapses \/ CommitPublished \/ ResetRefused \/ MarkRunning \/ Start \/ Crash
    BY <1>1, <2>5 DEF BackoffElapses, CommitPublished, ResetRefused, MarkRunning, Start,
      Crash, executor
  <2>6. CASE \E n \in Nonces : Accept(n) \/ FinishUnaccepted(n)
    BY <1>1, <2>6 DEF Accept, FinishAccepted, FinishUnaccepted, FinishTimedOut, FinishFailed
  <2>7. CASE \E n \in Nonces : CompletePublished(n) \/ CompleteBlocked(n) \/ CompleteFailed(n)
    BY <1>1, <2>7 DEF CompletePublished, CompleteBlocked, CompleteFailed, Takes
  <2>8. CASE UNCHANGED vars
    BY <1>1, <2>8 DEF vars, executor
  <2>q. QED BY <1>1, <2>2, <2>3, <2>4, <2>5, <2>6, <2>7, <2>8 DEF Next
<1>2. IInv /\ [Next]_vars => [late /\ ~late' => retry.active /\ retry.snapshot = runtime]_vars
  BY <1>1
<1>q. QED BY <1>2, InductiveInvariant, PTL DEF Spec, AllowanceKept

-----------------------------------------------------------------------------
(***************************************************************************)
(* FitEpisode implements AttemptOutcome.                                   *)
(***************************************************************************)

outcomeVars == <<IF row \in Terminal THEN row ELSE "open", published # None>>

\* The callback publishes at most once, and only for an open attempt.
LEMMA AcceptPublishes ==
    ASSUME IInv, NEW n \in Nonces, Accept(n)
    PROVE  /\ row \notin Terminal /\ row' = row
           /\ published = None
           /\ published' \in {None, n}
<1>1. future[n] = "pending" /\ Names(n)
  BY DEF Accept, FinishAccepted, Undecided, Acceptable
<1>2. row \notin Terminal
  BY <1>1, ExecutorAssumption DEF IInv, OneFuture, FlightNamed
<1>3. published = None
  BY <1>1 DEF IInv, ReceiptStands, PublishedIsOver, Names
<1>q. QED BY <1>2, <1>3 DEF Accept

\* A commit of the controller is one of the two decisions.
LEMMA CommitDecides ==
    ASSUME IInv, row \notin Terminal, published' = published,
           \/ row' = "completed" /\ published # None
           \/ row' = "failed" /\ published = None
           \/ row' \notin Terminal
    PROVE  \/ Promise!Succeed \/ Promise!Fail \/ UNCHANGED outcomeVars
BY DEF Promise!Succeed, Promise!Fail, outcomeVars, Terminal

LEMMA StepPromised == IInv /\ [Next]_vars =>
    [Promise!Publish \/ Promise!Succeed \/ Promise!Fail]_outcomeVars
<1> SUFFICES ASSUME IInv, [Next]_vars
             PROVE  \/ Promise!Publish \/ Promise!Succeed \/ Promise!Fail
                    \/ UNCHANGED outcomeVars
  OBVIOUS
<1>1. CASE row' = row /\ published' = published
  BY <1>1 DEF outcomeVars
<1>2. ASSUME NEW n \in Nonces, Accept(n)
      PROVE  Promise!Publish \/ UNCHANGED outcomeVars
  BY <1>2, AcceptPublishes, ExecutorAssumption
    DEF Promise!Publish, outcomeVars
<1>3. ASSUME NEW n \in Nonces,
             CompletePublished(n) \/ CompleteBlocked(n) \/ CompleteFailed(n)
      PROVE  Promise!Succeed \/ Promise!Fail \/ UNCHANGED outcomeVars
  <2>1. row \notin Terminal /\ published' = published
    BY <1>3, ExecutorAssumption DEF IInv, FlightNamed, CompletePublished, CompleteBlocked,
      CompleteFailed, Takes
  <2>2. \/ row' = "completed" /\ published # None
        \/ row' = "failed" /\ published = None
        \/ row' \in {row, "reserved"}
    BY <1>3 DEF CompletePublished, CompleteBlocked, CompleteFailed, Commits, Defers, Raises
  <2>q. QED BY <2>1, <2>2, CommitDecides DEF Terminal
<1>4. CASE CommitPublished
  <2>1. row \notin Terminal /\ published' = published
    BY <1>4 DEF CommitPublished, Pending, Terminal
  <2>2. (row' = "completed" /\ published # None) \/ row' = "reserved"
    BY <1>4 DEF CommitPublished, Commits, Defers
  <2>q. QED BY <2>1, <2>2, CommitDecides DEF Terminal
<1>5. CASE Start
  <2>1. CASE row \in Terminal
    BY <1>1, <1>5, <2>1 DEF Start, Terminal
  <2>2. CASE row \notin Terminal
    <3>1. \/ row' = "completed" /\ published # None
          \/ row' \in {row, "reserved"}
      BY <1>5 DEF Start, Commits, Defers
    <3>q. QED BY <2>2, <3>1, <1>5, CommitDecides DEF Start, Terminal
  <2>q. QED BY <2>1, <2>2
<1>6. CASE MarkRunning
  <2>1. row \notin Terminal
    BY <1>6 DEF IInv, Submitting, FlightNamed, MarkRunning
  <2>q. QED BY <1>6, <2>1 DEF MarkRunning, outcomeVars, Terminal
<1>7. CASE \E n \in Nonces : SubmitFit(n) \/ FinishUnaccepted(n)
  BY <1>1, <1>7 DEF SubmitFit, FinishUnaccepted, controller
<1>8. CASE ExecutorStep \/ BackoffElapses \/ ResetOnly \/ ResetRefused \/ Crash
  BY <1>1, <1>8 DEF ExecutorStep, BackoffElapses, ResetOnly, ResetRefused, Crash, controller
<1>9. CASE UNCHANGED vars
  BY <1>1, <1>9 DEF vars, controller
<1>q. QED BY <1>2, <1>3, <1>4, <1>5, <1>6, <1>7, <1>8, <1>9 DEF Next

\* Whatever is crashed, deferred, orphaned or retried, an attempt implements
\* AttemptOutcome.
THEOREM ImplementsOutcome == Spec => OutcomePromised
<1>1. Init => Promise!OutcomeInit
  BY DEF Init, Promise!OutcomeInit, Terminal
<1>q. QED
  BY <1>1, StepPromised, InductiveInvariant, PTL
    DEF Spec, OutcomePromised, Promise!OutcomeSpec, outcomeVars
=============================================================================
