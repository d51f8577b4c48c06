---------------------------- MODULE ServerProofs ----------------------------
(***************************************************************************)
(* What the server promises, for every value of Server's constants: type   *)
(* correctness, the order of coroutines on the event loop, what the data   *)
(* on the volume says, and what hot-set runs do.  Each part begins with    *)
(* the invariants it needs.                                                *)
(***************************************************************************)
EXTENDS ServerProperties, SequenceTheorems, TLAPS

(***************************************************************************)
(* Types, and who may run.                                                 *)
(*                                                                         *)
(* TypeOK is not inductive: that a run stays within its plan needs         *)
(* AwaitsInPlan, and that the queue stays a sequence when a waiter is      *)
(* cancelled needs WaitersQueued.  On top of the resulting TypeInv:        *)
(*   - OneRunAtATime, inductive with it: the run lock;                     *)
(*   - LoopOwner: a coroutine between two awaits owns the event loop;      *)
(*   - ResultMatchesDisk, which needs LoopOwner: while one preview is      *)
(*     about to record its result no other coroutine stores a snapshot.    *)
(***************************************************************************)
\* The plan is a sequence of datasets and Tier A its beginning.
LEMMA PlanFacts ==
  /\ Plan \in Seq(Datasets)
  /\ Len(Plan) \in Nat
  /\ Len(TierA) \in 0..Len(Plan)
  /\ \A i \in 1..Len(Plan) : Plan[i] \in Datasets
  BY MaterializerAssumption DEF Plan

\* What a source answers, or an idle coroutine holds, is a reply.
LEMMA ReplyTypes ==
  /\ NoReply \in Reply
  /\ SharedTypeOK => \A l \in Locators : Replies(l) \subseteq Reply
  BY ServingAssumption DEF NoReply, FetchError, Replies, Fetched, Reply, Versions, SharedTypeOK

\* A preview that has not started is a well-formed request record.
LEMMA IdleRequestType ==
  ASSUME NEW d \in Datasets PROVE IdleRequest(d) \in RequestState
  BY ReplyTypes, ServingAssumption DEF IdleRequest, RequestState, Freshness, Versions

\* A run that has not started is a well-formed run record.
LEMMA IdleRunType == IdleRun \in RunState
  BY ReplyTypes, PlanFacts DEF IdleRun, RunState, LocatorResult, Outcome

\* write_snapshot stores an artifact.
LEMMA StoreType ==
  ASSUME SharedTypeOK, NEW l \in Locators, NEW v \in Versions, StoreSnapshot(l, v)
  PROVE  artifact' \in [Locators -> Artifact]
  BY ServingAssumption DEF SharedTypeOK, StoreSnapshot, Artifact, Ages

\* upsert_health stores a health row.
LEMMA UpsertType ==
  ASSUME SharedTypeOK, NEW d \in Datasets, NEW s \in HealthStatus,
         NEW w \in HealthWriter, UpsertHealth(d, s, w)
  PROVE  health' \in [Datasets -> HealthRow]
  BY DEF SharedTypeOK, UpsertHealth, HealthRow

\* _result_from_payload makes a well-formed request record.
LEMMA ServeFromType ==
  ASSUME PreviewTypeOK, NEW r \in Requests, NEW v \in Versions,
         NEW o \in Outcomes \cup {"none"}
  PROVE  ServeFrom(r, v, o) \in RequestState
  BY DEF PreviewTypeOK, ServeFrom, RequestState

\* _closed_failure_result makes a well-formed request record.
LEMMA CloseWithType ==
  ASSUME PreviewTypeOK, NEW r \in Requests,
         NEW s \in {"none", "fetch", "snapshot", "normalization"}
  PROVE  CloseWith(r, s) \in RequestState
  BY DEF PreviewTypeOK, CloseWith, RequestState, Outcomes

\* evaluate_snapshot_freshness returns one of its four statuses.
LEMMA FreshnessType == \A d : FreshnessOf(d) \in Freshness
  BY DEF FreshnessOf, Freshness

\* The policy returns resolution outcomes.
LEMMA PolicyTypes ==
  /\ \A s \in Freshness : InitialOutcome(s) \in Outcomes
  /\ \A s \in Freshness : RefreshFailureOutcome(s) \in Outcomes
  BY DEF InitialOutcome, RefreshFailureOutcome, Outcomes, Freshness
-----------------------------------------------------------------------------
\* A run that awaits a fetch is at a dataset of its plan.
AwaitsInPlan ==
  \A x \in Runners :
    run[x].pc \in {"fetching", "answered"} => run[x].at <= Len(Plan)

\* A runner that awaits the lock is in its queue.
WaitersQueued ==
  \A x \in Runners : run[x].pc = "waiting" =>
    \E i \in 1..Len(waiters) : waiters[i] = x

TypeInv == TypeOK /\ AwaitsInPlan /\ WaitersQueued

\* Every step of a preview keeps the request and the shared state typed.
LEMMA PreviewType ==
  ASSUME TypeOK, NEW r \in Requests, Preview(r)
  PROVE  PreviewTypeOK' /\ SharedTypeOK'
<1> USE RequestsAssumption DEF TypeOK, Target
<1>t. request \in [Requests -> RequestState] /\ request[r].dataset \in Datasets
  BY DEF PreviewTypeOK, RequestState
<1>l. LocatorOf[Target(r)] \in Locators
  BY <1>t, ServingAssumption
<1>v. OnDisk(Target(r)) \in Versions
  BY <1>l DEF OnDisk, SharedTypeOK, Artifact
<1>1. CASE \E d \in Datasets : Submit(r, d)
  <2>1. PICK d \in Datasets : Submit(r, d)
    BY <1>1
  <2>2. IdleRequest(d) \in RequestState /\ FreshnessOf(d) \in Freshness
    BY IdleRequestType, FreshnessType
  <2>3. PreviewTypeOK'
    BY <2>1, <2>2, <1>t, PolicyTypes
       DEF Submit, PreviewTypeOK, RequestState, Outcomes, LocalOutcomes
  <2> QED
    BY <2>1, <2>3 DEF Submit, SharedTypeOK
<1>2. CASE ReadLocal(r)
  <2>1. PreviewTypeOK'
    <3>1. CASE Readable(Target(r))
      <4>1. request[r].outcome \in Outcomes \cup {"none"}
        BY <1>t DEF RequestState
      <4> QED
        BY <3>1, <4>1, <1>2, <1>t, <1>v, ServeFromType DEF ReadLocal, PreviewTypeOK
    <3>2. CASE ~Readable(Target(r))
      <4>1. LocalUnusableOutcome(request[r].outcome) \in Outcomes \cup {"none"}
        BY <1>t DEF RequestState, LocalUnusableOutcome, Outcomes
      <4> DEFINE next == [request[r] EXCEPT !.pc = "fetch",
                            !.outcome = LocalUnusableOutcome(request[r].outcome)]
      <4>2. next \in RequestState
        BY <4>1, <1>t DEF RequestState
      <4>3. request' = [request EXCEPT ![r] = next]
        BY <3>2, <1>2, <1>t DEF ReadLocal, RequestState
      <4> HIDE DEF next
      <4> QED
        BY <4>2, <4>3, <1>t DEF PreviewTypeOK
    <3> QED BY <3>1, <3>2
  <2> QED
    BY <1>2, <2>1 DEF ReadLocal, SharedTypeOK, sharedVars
<1>3. CASE StartFetch(r)
  <2>1. [request[r] EXCEPT !.pc = "fetching"] \in RequestState
    BY <1>t DEF RequestState
  <2> QED
    BY <1>3, <2>1, <1>t DEF StartFetch, PreviewTypeOK, SharedTypeOK
<1>4. CASE RefuseFetch(r)
  <2>1. [request[r] EXCEPT !.pc = "fallback", !.stage = "fetch"] \in RequestState
    BY <1>t DEF RequestState
  <2> QED
    BY <1>4, <2>1, <1>t DEF RefuseFetch, PreviewTypeOK, SharedTypeOK, sharedVars
<1>5. CASE PreviewAnswered(r)
  <2>1. PICK reply \in Replies(LocatorOf[Target(r)]) :
          request' = [request EXCEPT ![r] =
                        [@ EXCEPT !.pc = "answered", !.reply = reply]]
    BY <1>5 DEF PreviewAnswered
  <2>2. reply \in Reply
    BY <1>l, ReplyTypes
  <2>3. [request[r] EXCEPT !.pc = "answered", !.reply = reply] \in RequestState
    BY <2>2, <1>t DEF RequestState
  <2> QED
    BY <1>5, <2>1, <2>3, <1>t DEF PreviewAnswered, PreviewTypeOK, SharedTypeOK, sharedVars
<1>6. CASE ResumeFailed(r)
  <2>1. PICK stage \in {"fetch", "snapshot"} :
          request' = [request EXCEPT ![r] =
                        [@ EXCEPT !.pc = "fallback", !.stage = stage]]
    BY <1>6 DEF ResumeFailed
  <2>2. [request[r] EXCEPT !.pc = "fallback", !.stage = stage] \in RequestState
    BY <1>t DEF RequestState
  <2> QED
    BY <1>6, <2>1, <2>2, <1>t DEF ResumeFailed, PreviewTypeOK, SharedTypeOK
<1>7. CASE ResumeWritten(r)
  <2>1. request[r].reply.payload \in Versions
    BY <1>t DEF RequestState, Reply
  <2>2. PreviewTypeOK'
    BY <1>7, <2>1, <1>t, ServeFromType DEF ResumeWritten, PreviewTypeOK, Outcomes
  <2> QED
    BY <1>7, <2>1, <2>2, <1>l, StoreType DEF ResumeWritten, SharedTypeOK
<1>8. CASE FallBack(r)
  <2>1. PreviewTypeOK'
    BY <1>8, <1>t, <1>v, ServeFromType, CloseWithType DEF FallBack, PreviewTypeOK, Outcomes, RequestState
  <2> QED
    BY <1>8, <2>1 DEF FallBack, SharedTypeOK, sharedVars
<1>9. CASE RecordResult(r)
  <2>1. PreviewTypeOK'
    BY <1>9, <1>t, IdleRequestType DEF RecordResult, PreviewTypeOK
  <2>2. health' \in [Datasets -> HealthRow]
    BY <1>9, <1>t, UpsertType DEF RecordResult, SharedTypeOK, HealthOfPreview, HealthStatus, HealthWriter
  <2> QED
    BY <1>9, <2>1, <2>2 DEF RecordResult, SharedTypeOK
<1>10. CASE CancelPreview(r)
  BY <1>10, <1>t, IdleRequestType, ServingAssumption DEF CancelPreview, PreviewTypeOK, SharedTypeOK
<1> QED
  BY <1>1, <1>2, <1>3, <1>4, <1>5, <1>6, <1>7, <1>8, <1>9, <1>10
     DEF Preview, PreviewNext, PreviewStep
-----------------------------------------------------------------------------
\* Appending a result for a dataset within the plan keeps the run typed.
LEMMA ConcludeType ==
  ASSUME TypeInv, NEW x \in Runners, run[x].at <= Len(Plan), NEW o \in Outcome
  PROVE  /\ Conclude(x, o) \in RunState
         /\ Conclude(x, o).pc = "select"
<1>1. run[x] \in RunState /\ Len(Plan) \in Nat
  BY PlanFacts DEF TypeInv, TypeOK, MaterializerTypeOK
<1>2. [run[x].results EXCEPT ![run[x].at] = o] \in [1..Len(Plan) -> Outcome]
  BY <1>1 DEF RunState
<1>3. run[x].at + 1 \in 1..(Len(Plan) + 1)
  BY <1>1 DEF RunState
<1> QED
  BY <1>1, <1>2, <1>3, ReplyTypes DEF Conclude, RunState

\* So does remembering it for the locator.
LEMMA ConcludeLocatorType ==
  ASSUME TypeInv, NEW x \in Runners, run[x].at <= Len(Plan), NEW o \in LocatorResult
  PROVE  /\ ConcludeLocator(x, o) \in RunState
         /\ ConcludeLocator(x, o).pc = "select"
<1>1. Conclude(x, o) \in RunState /\ Conclude(x, o).pc = "select"
  BY ConcludeType DEF LocatorResult, Outcome
<1>2. [Conclude(x, o).locators EXCEPT ![VisitedLocator(x)] = o]
        \in [Locators -> LocatorResult]
  BY <1>1 DEF RunState
<1> QED
  BY <1>1, <1>2 DEF ConcludeLocator, RunState

\* What the steps that leave the queue alone have to show.
LEMMA RunUpdate ==
  ASSUME TypeInv, NEW x \in Runners, NEW e \in RunState,
         run' = [run EXCEPT ![x] = e], waiters' = waiters,
         e.pc \in {"fetching", "answered"} => e.at <= Len(Plan),
         e.pc # "waiting"
  PROVE  /\ run' \in [Runners -> RunState]
         /\ AwaitsInPlan'
         /\ WaitersQueued'
  BY DEF TypeInv, TypeOK, MaterializerTypeOK, AwaitsInPlan, WaitersQueued

\* A cancelled waiter leaves the queue and nobody else does.
LEMMA WithoutType ==
  ASSUME NEW S, NEW q \in Seq(S), NEW x, \E j \in 1..Len(q) : q[j] = x
  PROVE  /\ Without(q, x) \in Seq(S)
         /\ \A y : y # x /\ (\E j \in 1..Len(q) : q[j] = y) =>
              \E j \in 1..Len(Without(q, x)) : Without(q, x)[j] = y
<1> DEFINE i == CHOOSE j \in 1..Len(q) : q[j] = x
           w == [j \in 1..(Len(q) - 1) |-> IF j < i THEN q[j] ELSE q[j + 1]]
<1>1. i \in 1..Len(q) /\ q[i] = x
  OBVIOUS
<1>2. Len(q) \in Nat /\ Len(q) - 1 \in Nat /\ \A j \in 1..Len(q) : q[j] \in S
  BY <1>1
<1>3. Without(q, x) = w
  BY DEF Without
<1> HIDE DEF i
<1>4. w \in Seq(S) /\ Len(w) = Len(q) - 1
  <2>1. \A j \in 1..(Len(q) - 1) : w[j] \in S
    BY <1>1, <1>2
  <2>2. w \in [1..(Len(q) - 1) -> S]
    BY <2>1
  <2> QED
    BY <2>2, <1>2, SeqDef, LenProperties
<1>5. ASSUME NEW y, y # x, NEW j \in 1..Len(q), q[j] = y
      PROVE  \E k \in 1..Len(w) : w[k] = y
  <2>1. j # i
    BY <1>1, <1>5
  <2>2. CASE j < i
    BY <2>2, <1>1, <1>2, <1>4, <1>5
  <2>3. CASE j > i
    <3>1. j - 1 \in 1..Len(w) /\ ~(j - 1 < i) /\ w[j - 1] = q[j]
      BY <2>3, <1>1, <1>2, <1>4
    <3> QED
      BY <3>1, <1>5
  <2> QED
    BY <2>1, <2>2, <2>3, <1>1, <1>2
<1> QED
  BY <1>3, <1>4, <1>5

\* Starting a run, or queueing for the lock, keeps the types.
LEMMA StartRunType ==
  ASSUME TypeInv, NEW x \in Runners, NEW o \in BOOLEAN, StartRun(x, o)
  PROVE  MaterializerTypeOK' /\ SharedTypeOK' /\ AwaitsInPlan' /\ WaitersQueued'
<1> USE DEF TypeInv, TypeOK
<1>1. x \in Coroutines /\ run \in [Runners -> RunState] /\ waiters \in Seq(Runners)
  BY MaterializerAssumption DEF MaterializerTypeOK
<1>2. \A p \in {"select", "waiting"} :
        [IdleRun EXCEPT !.pc = p, !.optional = o] \in RunState
  BY IdleRunType DEF RunState
<1>3. CASE LockFree
  <2> DEFINE e == [IdleRun EXCEPT !.pc = "select", !.optional = o]
  <2>1. e \in RunState /\ e.pc = "select"
    BY <1>2, IdleRunType DEF RunState
  <2>2. run' = [run EXCEPT ![x] = e] /\ waiters' = waiters /\ lock' = x /\ onLoop' = x
    BY <1>3 DEF StartRun
  <2> HIDE DEF e
  <2>3. run' \in [Runners -> RunState] /\ AwaitsInPlan' /\ WaitersQueued'
    BY <2>1, <2>2, RunUpdate
  <2> QED
    BY <2>2, <2>3, <1>1 DEF StartRun, MaterializerTypeOK, SharedTypeOK
<1>4. CASE ~LockFree
  <2> DEFINE e == [IdleRun EXCEPT !.pc = "waiting", !.optional = o]
  <2>1. e \in RunState /\ e.pc = "waiting"
    BY <1>2, IdleRunType DEF RunState
  <2>2. run' = [run EXCEPT ![x] = e] /\ waiters' = Append(waiters, x)
    BY <1>4 DEF StartRun
  <2> HIDE DEF e
  <2>3. run' \in [Runners -> RunState] /\ AwaitsInPlan'
    BY <2>1, <2>2, <1>1 DEF AwaitsInPlan
  <2>4. /\ waiters' \in Seq(Runners)
        /\ Len(waiters') = Len(waiters) + 1 /\ Len(waiters) \in Nat
        /\ waiters'[Len(waiters) + 1] = x
        /\ \A i \in 1..Len(waiters) : waiters'[i] = waiters[i]
    BY <2>2, <1>1
  <2>5. WaitersQueued'
    <3> SUFFICES ASSUME NEW y \in Runners, run'[y].pc = "waiting"
                 PROVE  \E i \in 1..Len(waiters') : waiters'[i] = y
      BY DEF WaitersQueued
    <3>1. CASE y = x
      BY <3>1, <2>4
    <3>2. CASE y # x
      <4>1. run[y].pc = "waiting"
        BY <3>2, <2>2, <1>1
      <4>2. PICK i \in 1..Len(waiters) : waiters[i] = y
        BY <4>1 DEF WaitersQueued
      <4> QED
        BY <4>2, <2>4
    <3> QED BY <3>1, <3>2
  <2> QED
    BY <1>4, <2>3, <2>4, <2>5 DEF StartRun, MaterializerTypeOK, SharedTypeOK
<1> QED BY <1>3, <1>4

\* Handing the lock to the first waiter keeps the types and the other waiters.
LEMMA GrantLockType ==
  ASSUME TypeInv, NEW x \in Runners, GrantLock(x)
  PROVE  MaterializerTypeOK' /\ SharedTypeOK' /\ AwaitsInPlan' /\ WaitersQueued'
<1> USE DEF TypeInv, TypeOK
<1>1. /\ x \in Coroutines /\ run \in [Runners -> RunState] /\ waiters \in Seq(Runners)
      /\ waiters # <<>> /\ waiters' = Tail(waiters) /\ x = waiters[1]
  BY MaterializerAssumption DEF MaterializerTypeOK, GrantLock
<1>2. [run[x] EXCEPT !.pc = "select"] \in RunState
  BY <1>1 DEF RunState
<1>3. run' \in [Runners -> RunState] /\ AwaitsInPlan'
  BY <1>1, <1>2 DEF GrantLock, AwaitsInPlan
<1>4. WaitersQueued'
  <2> SUFFICES ASSUME NEW y \in Runners, run'[y].pc = "waiting"
               PROVE  \E i \in 1..Len(waiters') : waiters'[i] = y
    BY DEF WaitersQueued
  <2>1. y # x /\ run[y].pc = "waiting"
    BY <1>1 DEF GrantLock, RunState
  <2>2. PICK i \in 1..Len(waiters) : waiters[i] = y
    BY <2>1 DEF WaitersQueued
  <2>3. i - 1 \in 1..Len(waiters') /\ waiters'[i - 1] = y
    BY <2>1, <2>2, <1>1
  <2> QED
    BY <2>3
<1> QED
  BY <1>1, <1>3, <1>4 DEF GrantLock, MaterializerTypeOK, SharedTypeOK

\* Cancelling a queued or fetching call keeps the types and the other waiters.
LEMMA CancelRunType ==
  ASSUME TypeInv, NEW x \in Runners, CancelRun(x)
  PROVE  MaterializerTypeOK' /\ SharedTypeOK' /\ AwaitsInPlan' /\ WaitersQueued'
<1> USE DEF TypeInv, TypeOK
<1>1. /\ run \in [Runners -> RunState] /\ waiters \in Seq(Runners)
      /\ run' = [run EXCEPT ![x] = IdleRun] /\ IdleRun \in RunState
      /\ IdleRun.pc = "idle"
  BY IdleRunType DEF MaterializerTypeOK, CancelRun, IdleRun
<1>2. SharedTypeOK' /\ attemptAge' \in [Locators -> Ages]
  BY ServingAssumption DEF CancelRun, SharedTypeOK, MaterializerTypeOK
<1>3. CASE run[x].pc = "waiting"
  <2>1. waiters' = Without(waiters, x) /\ lock' = lock
    BY <1>3 DEF CancelRun
  <2>2. \E j \in 1..Len(waiters) : waiters[j] = x
    BY <1>3 DEF WaitersQueued
  <2>3. waiters' \in Seq(Runners)
    BY <2>1, <2>2, <1>1, WithoutType
  <2>4. AwaitsInPlan'
    BY <1>1 DEF AwaitsInPlan
  <2>5. WaitersQueued'
    <3> SUFFICES ASSUME NEW y \in Runners, run'[y].pc = "waiting"
                 PROVE  \E i \in 1..Len(waiters') : waiters'[i] = y
      BY DEF WaitersQueued
    <3>1. y # x /\ run[y].pc = "waiting"
      BY <1>1
    <3>2. \E i \in 1..Len(waiters) : waiters[i] = y
      BY <3>1 DEF WaitersQueued
    <3>3. \E i \in 1..Len(Without(waiters, x)) : Without(waiters, x)[i] = y
      BY <3>1, <3>2, <2>2, <1>1, WithoutType
    <3> QED
      BY <3>3, <2>1
  <2> QED
    BY <1>1, <1>2, <2>1, <2>3, <2>4, <2>5 DEF MaterializerTypeOK
<1>4. CASE run[x].pc # "waiting"
  <2>1. lock' = NoCoroutine /\ waiters' = waiters
    BY <1>4 DEF CancelRun, ReleaseLock
  <2> QED
    BY <2>1, <1>1, <1>2, RunUpdate DEF MaterializerTypeOK
<1> QED BY <1>3, <1>4

\* The dataset a run visits, and its locator, exist.
LEMMA VisitedType ==
  ASSUME TypeInv, NEW x \in Runners, run[x].at <= Len(Plan)
  PROVE  Visited(x) \in Datasets /\ VisitedLocator(x) \in Locators
  BY PlanFacts, ServingAssumption
     DEF TypeInv, TypeOK, MaterializerTypeOK, RunState, Visited, VisitedLocator

\* A run visits a beginning of the plan.
LEMMA PlanLengthType ==
  ASSUME NEW x \in Runners PROVE PlanLength(x) \in 0..Len(Plan)
  BY PlanFacts DEF PlanLength

\* Every step of a run keeps the run, the queue and the shared state typed.
LEMMA MaterializeType ==
  ASSUME TypeInv, NEW x \in Runners, RunNext(x)
  PROVE  MaterializerTypeOK' /\ SharedTypeOK' /\ AwaitsInPlan' /\ WaitersQueued'
<1> USE DEF TypeOK
<1>t. /\ run \in [Runners -> RunState] /\ run[x] \in RunState /\ x \in Coroutines
      /\ TypeOK /\ SharedTypeOK /\ MaterializerTypeOK
  BY MaterializerAssumption DEF TypeInv, MaterializerTypeOK
<1>s. Selecting(x) => /\ run[x].at <= Len(Plan) /\ run[x].pc = "select"
                      /\ VisitedLocator(x) \in Locators
  <2> SUFFICES ASSUME Selecting(x) PROVE run[x].at <= Len(Plan)
    BY VisitedType DEF Selecting
  <2> QED
    BY <1>t, PlanLengthType, PlanFacts DEF Selecting, RunState
<1>a. run[x].pc \in {"fetching", "answered"} =>
        run[x].at <= Len(Plan) /\ VisitedLocator(x) \in Locators
  BY VisitedType DEF TypeInv, AwaitsInPlan
<1>1. CASE \E o \in BOOLEAN : StartRun(x, o)
  BY <1>1, StartRunType
<1>2. CASE GrantLock(x)
  BY <1>2, GrantLockType
<1>3. CASE LookupFails(x)
  <2>1. Conclude(x, "lookup") \in RunState /\ Conclude(x, "lookup").pc = "select"
    BY <1>3, <1>s, ConcludeType DEF LookupFails, Outcome
  <2>2. run' \in [Runners -> RunState] /\ AwaitsInPlan' /\ WaitersQueued'
    BY <1>3, <2>1, RunUpdate DEF LookupFails
  <2> QED
    BY <1>3, <2>2, <1>t DEF LookupFails, MaterializerTypeOK, SharedTypeOK, sharedVars
<1>4. CASE ReuseFresh(x)
  <2>1. Conclude(x, "skipped") \in RunState /\ Conclude(x, "skipped").pc = "select"
    BY <1>4, <1>s, ConcludeType DEF ReuseFresh, Outcome
  <2>2. run' \in [Runners -> RunState] /\ AwaitsInPlan' /\ WaitersQueued'
    BY <1>4, <2>1, RunUpdate DEF ReuseFresh
  <2> QED
    BY <1>4, <2>2, <1>t DEF ReuseFresh, MaterializerTypeOK, SharedTypeOK, sharedVars
<1>5. CASE ReuseLocatorResult(x)
  <2> DEFINE o == run[x].locators[VisitedLocator(x)]
  <2>1. o \in Outcome
    BY <1>5, <1>s, <1>t DEF ReuseLocatorResult, RunState, LocatorResult, Outcome
  <2>2. run' = [run EXCEPT ![x] = Conclude(x, o)] /\ waiters' = waiters
    BY <1>5 DEF ReuseLocatorResult
  <2> HIDE DEF o
  <2>3. Conclude(x, o) \in RunState /\ Conclude(x, o).pc = "select"
    BY <1>5, <2>1, <1>s, ConcludeType DEF ReuseLocatorResult
  <2>4. run' \in [Runners -> RunState] /\ AwaitsInPlan' /\ WaitersQueued'
    BY <2>2, <2>3, RunUpdate
  <2> QED
    BY <1>5, <2>4, <1>t DEF ReuseLocatorResult, MaterializerTypeOK, SharedTypeOK, sharedVars
<1>6. CASE CooldownBlocks(x)
  <2>1. PICK o \in {"skipped", "fetch"} :
          run' = [run EXCEPT ![x] = ConcludeLocator(x, o)] /\ waiters' = waiters
    BY <1>6 DEF CooldownBlocks
  <2>2. ConcludeLocator(x, o) \in RunState /\ ConcludeLocator(x, o).pc = "select"
    BY <1>6, <1>s, ConcludeLocatorType DEF CooldownBlocks, LocatorResult
  <2>3. run' \in [Runners -> RunState] /\ AwaitsInPlan' /\ WaitersQueued'
    BY <2>1, <2>2, RunUpdate
  <2> QED
    BY <1>6, <2>3, <1>t DEF CooldownBlocks, MaterializerTypeOK, SharedTypeOK, sharedVars
<1>7. CASE StartRunFetch(x)
  <2> DEFINE e == [run[x] EXCEPT !.pc = "fetching"]
  <2>1. e \in RunState /\ e.pc = "fetching" /\ e.at = run[x].at
    BY <1>t DEF RunState
  <2>2. run' = [run EXCEPT ![x] = e] /\ waiters' = waiters
    BY <1>7, <1>t DEF StartRunFetch
  <2>3. e.at <= Len(Plan)
    BY <1>7, <2>1, <1>s DEF StartRunFetch
  <2> HIDE DEF e
  <2>4. run' \in [Runners -> RunState] /\ AwaitsInPlan' /\ WaitersQueued'
    BY <2>1, <2>2, <2>3, RunUpdate
  <2>5. attemptAge' \in [Locators -> Ages]
    BY <1>7, <1>t, <1>s, ServingAssumption DEF StartRunFetch, MaterializerTypeOK, Ages
  <2> QED
    BY <1>7, <2>4, <2>5, <1>t DEF StartRunFetch, MaterializerTypeOK, SharedTypeOK
<1>8. CASE RunAnswered(x)
  <2>1. PICK reply \in Replies(VisitedLocator(x)) :
          run' = [run EXCEPT ![x] = [@ EXCEPT !.pc = "answered", !.reply = reply]]
    BY <1>8 DEF RunAnswered
  <2> DEFINE e == [run[x] EXCEPT !.pc = "answered", !.reply = reply]
  <2>2. reply \in Reply
    BY <1>8, <1>a, <1>t, ReplyTypes DEF RunAnswered
  <2>3. e \in RunState /\ e.pc = "answered" /\ e.at = run[x].at
    BY <2>2, <1>t DEF RunState
  <2>4. run' = [run EXCEPT ![x] = e] /\ waiters' = waiters /\ e.at <= Len(Plan)
    BY <1>8, <2>1, <2>3, <1>a, <1>t DEF RunAnswered
  <2> HIDE DEF e
  <2>5. run' \in [Runners -> RunState] /\ AwaitsInPlan' /\ WaitersQueued'
    BY <2>3, <2>4, RunUpdate
  <2> QED
    BY <1>8, <2>5, <1>t DEF RunAnswered, MaterializerTypeOK, SharedTypeOK, sharedVars
<1>9. CASE ResumeRunFailed(x)
  <2>1. PICK o \in {"fetch", "snapshot"} :
          run' = [run EXCEPT ![x] = ConcludeLocator(x, o)] /\ waiters' = waiters
    BY <1>9 DEF ResumeRunFailed
  <2>2. ConcludeLocator(x, o) \in RunState /\ ConcludeLocator(x, o).pc = "select"
    BY <1>9, <1>a, ConcludeLocatorType DEF ResumeRunFailed, LocatorResult
  <2>3. run' \in [Runners -> RunState] /\ AwaitsInPlan' /\ WaitersQueued'
    BY <2>1, <2>2, RunUpdate
  <2> QED
    BY <1>9, <2>3, <1>t DEF ResumeRunFailed, MaterializerTypeOK, SharedTypeOK
<1>10. CASE ResumeRunWritten(x)
  <2> DEFINE e == ConcludeLocator(x, "materialized")
  <2>1. e \in RunState /\ e.pc = "select"
    BY <1>10, <1>a, ConcludeLocatorType DEF ResumeRunWritten, LocatorResult
  <2>2. run' = [run EXCEPT ![x] = e] /\ waiters' = waiters
    BY <1>10 DEF ResumeRunWritten
  <2> HIDE DEF e
  <2>3. run' \in [Runners -> RunState] /\ AwaitsInPlan' /\ WaitersQueued'
    BY <2>1, <2>2, RunUpdate
  <2>4. run[x].reply.payload \in Versions
    BY <1>t DEF RunState, Reply
  <2>5. artifact' \in [Locators -> Artifact]
    BY <1>10, <2>4, <1>a, <1>t, StoreType DEF ResumeRunWritten
  <2> QED
    BY <1>10, <2>3, <2>5, <1>t DEF ResumeRunWritten, MaterializerTypeOK, SharedTypeOK
<1>11. CASE PersistHealth(x)
  <2> DEFINE i == run[x].persisted + 1
             e == [run[x] EXCEPT !.persisted = i]
  <2>1. i \in 1..Len(Plan) /\ i \in 0..Len(Plan) /\ run[x].pc = "select"
    BY <1>11, <1>t, PlanLengthType, PlanFacts DEF PersistHealth, Persisting, RunState
  <2>2. e \in RunState /\ e.pc = "select"
    <3> HIDE DEF i
    <3> QED BY <2>1, <1>t DEF RunState
  <2>3. run' = [run EXCEPT ![x] = e] /\ waiters' = waiters
    BY <1>11, <1>t DEF PersistHealth
  <2> HIDE DEF e
  <2>4. run' \in [Runners -> RunState] /\ AwaitsInPlan' /\ WaitersQueued'
    BY <2>2, <2>3, RunUpdate
  <2>5. health' \in [Datasets -> HealthRow]
    <3> DEFINE verdict == HealthOfResult(run[x].results[i])
    <3>1. verdict = "none" \/ verdict \in HealthStatus
      BY DEF HealthOfResult, HealthStatus
    <3>2. IF verdict = "none" THEN health' = health
          ELSE UpsertHealth(Plan[i], verdict, "materialize")
      BY <1>11 DEF PersistHealth
    <3>3. Plan[i] \in Datasets /\ "materialize" \in HealthWriter
      BY <2>1, PlanFacts DEF HealthWriter
    <3> HIDE DEF verdict
    <3> QED
      BY <3>1, <3>2, <3>3, <1>t, UpsertType DEF SharedTypeOK
  <2> QED
    BY <1>11, <2>4, <2>5, <1>t DEF PersistHealth, MaterializerTypeOK, SharedTypeOK
<1>12. CASE FinishRun(x)
  <2>1. run' \in [Runners -> RunState] /\ AwaitsInPlan' /\ WaitersQueued'
    BY <1>12, IdleRunType, RunUpdate DEF FinishRun, IdleRun
  <2> QED
    BY <1>12, <2>1, <1>t DEF FinishRun, ReleaseLock, MaterializerTypeOK, SharedTypeOK
<1>13. CASE RunRaises(x)
  <2>1. run' \in [Runners -> RunState] /\ AwaitsInPlan' /\ WaitersQueued'
    BY <1>13, IdleRunType, RunUpdate DEF RunRaises, IdleRun
  <2> QED
    BY <1>13, <2>1, <1>t, ServingAssumption
       DEF RunRaises, ReleaseLock, MaterializerTypeOK, SharedTypeOK
<1>14. CASE CancelRun(x)
  BY <1>14, CancelRunType
<1> QED
  BY <1>1, <1>2, <1>3, <1>4, <1>5, <1>6, <1>7, <1>8, <1>9, <1>10, <1>11, <1>12,
     <1>13, <1>14 DEF RunNext, RunStep
-----------------------------------------------------------------------------
\* Ages saturate.
LEMMA TickAge == \A a \in Ages : Older(a) \in Ages
  BY ServingAssumption DEF Ages, Older

\* The strengthened type invariant holds when a process starts.
LEMMA InitTypeInv == Init => TypeInv
<1> SUFFICES ASSUME Init PROVE TypeInv
  OBVIOUS
<1> USE DEF Init
<1>1. SharedTypeOK
  <2>1. 0 \in Versions /\ AgeCap \in Ages /\ 0 \in 0..MaxDisruptions
    BY ServingAssumption DEF Versions, Ages
  <2>2. artifact \in [Locators -> Artifact]
    <3>1. NoArtifact \in Artifact
      BY <2>1 DEF Artifact, NoArtifact
    <3>2. [present : {TRUE}, usable : BOOLEAN, age : {AgeCap}, payload : {0}]
            \subseteq Artifact
      BY <2>1 DEF Artifact
    <3> QED
      BY <3>1, <3>2 DEF SharedInit
  <2>3. health \in [Datasets -> HealthRow]
    BY DEF SharedInit, SeededHealth, HealthRow, HealthStatus, HealthWriter
  <2> QED
    BY <2>1, <2>2, <2>3 DEF SharedInit, SharedTypeOK
<1>2. PreviewTypeOK
  BY IdleRequestType DEF PreviewInit, PreviewTypeOK
<1>3. run \in [Runners -> RunState] /\ \A x \in Runners : run[x].pc = "idle"
  BY IdleRunType DEF MaterializerInit, IdleRun
<1>4. MaterializerTypeOK
  BY <1>3, ServingAssumption DEF MaterializerInit, MaterializerTypeOK, Ages
<1>5. sourceQuiet \in [Locators -> Ages]
  BY ServingAssumption DEF Ages
<1> QED
  BY <1>1, <1>2, <1>3, <1>4, <1>5 DEF TypeInv, TypeOK, AwaitsInPlan, WaitersQueued

\* Every step of the server keeps it.
LEMMA NextTypeInv == TypeInv /\ [Next]_vars => TypeInv'
<1> SUFFICES ASSUME TypeInv, [Next]_vars PROVE TypeInv'
  OBVIOUS
<1> USE DEF TypeInv, TypeOK
<1>1. ASSUME NEW r \in Requests, Preview(r) PROVE TypeInv'
  BY <1>1, PreviewType
     DEF Preview, runVars, MaterializerTypeOK, AwaitsInPlan, WaitersQueued
<1>2. ASSUME NEW x \in Runners, Materialize(x) PROVE TypeInv'
  <2>1. MaterializerTypeOK' /\ SharedTypeOK' /\ AwaitsInPlan' /\ WaitersQueued'
    BY <1>2, MaterializeType DEF Materialize
  <2>2. sourceQuiet' \in [Locators -> Ages]
    BY <1>2, ServingAssumption DEF Materialize, Ages
  <2> QED
    BY <1>2, <2>1, <2>2 DEF Materialize, PreviewTypeOK
<1>3. ASSUME NEW l \in Locators, Publish(l) PROVE TypeInv'
  <2>1. upstream' \in [Locators -> Versions]
    BY <1>3, ServingAssumption DEF Publish, SharedTypeOK, Versions
  <2> QED
    BY <1>3, <2>1 DEF Publish, runVars, SharedTypeOK, PreviewTypeOK,
       MaterializerTypeOK, AwaitsInPlan, WaitersQueued
<1>4. CASE Tick
  <2>1. artifact' \in [Locators -> Artifact]
    BY <1>4, TickAge DEF Tick, SharedTypeOK, Artifact
  <2>2. attemptAge' \in [Locators -> Ages] /\ sourceQuiet' \in [Locators -> Ages]
    BY <1>4, TickAge DEF Tick, MaterializerTypeOK
  <2> QED
    BY <1>4, <2>1, <2>2 DEF Tick, SharedTypeOK, PreviewTypeOK,
       MaterializerTypeOK, AwaitsInPlan, WaitersQueued
<1>5. ASSUME NEW d \in Datasets, CanaryVerdict(d) PROVE TypeInv'
  <2>1. health' \in [Datasets -> HealthRow]
    BY <1>5, UpsertType DEF CanaryVerdict, HealthStatus, HealthWriter
  <2> QED
    BY <1>5, <2>1 DEF CanaryVerdict, runVars, SharedTypeOK, PreviewTypeOK,
       MaterializerTypeOK, AwaitsInPlan, WaitersQueued
<1>6. CASE Restart
  <2>1. PreviewTypeOK'
    BY <1>6, IdleRequestType DEF Restart, PreviewTypeOK, RequestState, Target
  <2>2. run' \in [Runners -> RunState] /\ \A x \in Runners : run'[x].pc = "idle"
    BY <1>6, IdleRunType DEF Restart, IdleRun
  <2>3. SharedTypeOK'
    BY <1>6, ServingAssumption DEF Restart, SharedTypeOK
  <2>4. MaterializerTypeOK' /\ sourceQuiet' \in [Locators -> Ages]
    BY <1>6, <2>2, ServingAssumption DEF Restart, MaterializerTypeOK, Ages
  <2> QED
    BY <2>1, <2>2, <2>3, <2>4 DEF AwaitsInPlan, WaitersQueued
<1>7. CASE UNCHANGED vars
  BY <1>7 DEF vars, sharedVars, runVars, SharedTypeOK, PreviewTypeOK,
     MaterializerTypeOK, AwaitsInPlan, WaitersQueued
<1> QED
  BY <1>1, <1>2, <1>3, <1>4, <1>5, <1>6, <1>7 DEF Next

\* The strengthened type invariant holds throughout (the server as composed by
\* create_server: previews, runs, the world around them).
THEOREM TypeInvariant == Spec => []TypeInv
  BY InitTypeInv, NextTypeInv, PTL DEF Spec

\* Every variable keeps its type, for all constants (TypeOK).
THEOREM TypeCorrect == Spec => []TypeOK
<1>1. TypeInv => TypeOK
  BY DEF TypeInv
<1> QED
  BY <1>1, TypeInvariant, PTL
-----------------------------------------------------------------------------
(***************************************************************************)
(* The lock, the event loop and the disk.                                  *)
(***************************************************************************)
\* The facts that most steps below rest on.
LEMMA Basics ==
  ASSUME TypeInv
  PROVE  /\ request \in [Requests -> RequestState]
         /\ run \in [Runners -> RunState]
         /\ artifact \in [Locators -> Artifact]
         /\ health \in [Datasets -> HealthRow]
         /\ NoCoroutine \notin Runners /\ NoCoroutine \notin Requests
         /\ Requests \cap Runners = {}
         /\ \A r \in Requests : Target(r) \in Datasets /\ LocatorOf[Target(r)] \in Locators
         /\ \A d \in Datasets : LocatorOf[d] \in Locators
  BY ServingAssumption, RequestsAssumption, MaterializerAssumption, ServerAssumption
     DEF TypeInv, TypeOK, SharedTypeOK, PreviewTypeOK, MaterializerTypeOK, Target, RequestState
-----------------------------------------------------------------------------
\* Concluding a dataset keeps the run active.
LEMMA ConcludePc ==
  ASSUME TypeInv, NEW x \in Runners, NEW o
  PROVE  Conclude(x, o).pc = "select" /\ ConcludeLocator(x, o).pc = "select"
  BY Basics DEF Conclude, ConcludeLocator, RunState

\* A step of one run keeps the run lock exclusive: the lock is taken only when
\* nobody holds it, and given back by every way a run can end.
LEMMA ActiveStep ==
  ASSUME TypeInv, OneRunAtATime, NEW x \in Runners, RunNext(x)
  PROVE  OneRunAtATime'
<1> USE DEF OneRunAtATime, Active
<1>1. CASE \E o \in BOOLEAN : StartRun(x, o)
  <2>1. PICK o \in BOOLEAN : StartRun(x, o)
    BY <1>1
  <2>2. CASE LockFree
    <3>1. run' = [run EXCEPT ![x] = [IdleRun EXCEPT !.pc = "select", !.optional = o]]
          /\ lock' = x /\ lock = NoCoroutine
      BY <2>1, <2>2 DEF StartRun, LockFree
    <3>2. run'[x].pc = "select" /\ \A y \in Runners \ {x} : run'[y] = run[y]
      BY <3>1, Basics DEF IdleRun
    <3> QED
      BY <3>1, <3>2, Basics
  <2>3. CASE ~LockFree
    <3>1. run' = [run EXCEPT ![x] = [IdleRun EXCEPT !.pc = "waiting", !.optional = o]]
          /\ lock' = lock /\ run[x].pc = "idle"
      BY <2>1, <2>3 DEF StartRun
    <3>2. run'[x].pc = "waiting" /\ \A y \in Runners \ {x} : run'[y] = run[y]
      BY <3>1, Basics DEF IdleRun
    <3> QED
      BY <3>1, <3>2
  <2> QED BY <2>2, <2>3
<1>2. CASE GrantLock(x)
  <2>1. run'[x].pc = "select" /\ (\A y \in Runners \ {x} : run'[y] = run[y])
        /\ lock' = x /\ lock = NoCoroutine
    BY <1>2, Basics DEF GrantLock, RunState
  <2> QED
    BY <2>1, Basics
<1>3. CASE FinishRun(x) \/ RunRaises(x) \/ (CancelRun(x) /\ run[x].pc # "waiting")
  <2>1. /\ lock' = NoCoroutine /\ run' = [run EXCEPT ![x] = IdleRun]
        /\ run[x].pc \in {"select", "fetching", "answered"}
    BY <1>3 DEF FinishRun, RunRaises, CancelRun, ReleaseLock, Persisting
  <2>2. run'[x].pc = "idle" /\ \A y \in Runners \ {x} : run'[y] = run[y]
    BY <2>1, Basics DEF IdleRun
  <2> QED
    BY <2>1, <2>2, Basics
<1>4. CASE CancelRun(x) /\ run[x].pc = "waiting"
  <2>1. lock' = lock /\ run' = [run EXCEPT ![x] = IdleRun]
    BY <1>4 DEF CancelRun
  <2>2. run'[x].pc = "idle" /\ \A y \in Runners \ {x} : run'[y] = run[y]
    BY <2>1, Basics DEF IdleRun
  <2> QED
    BY <2>1, <2>2, <1>4
<1>5. CASE \/ LookupFails(x) \/ ReuseFresh(x) \/ ReuseLocatorResult(x)
           \/ CooldownBlocks(x) \/ StartRunFetch(x) \/ RunAnswered(x)
           \/ ResumeRunFailed(x) \/ ResumeRunWritten(x) \/ PersistHealth(x)
  <2>1. lock' = lock /\ run[x].pc \in {"select", "fetching", "answered"}
    BY <1>5 DEF LookupFails, ReuseFresh, ReuseLocatorResult, CooldownBlocks,
       StartRunFetch, RunAnswered, ResumeRunFailed, ResumeRunWritten,
       PersistHealth, Selecting, Persisting
  <2>2. /\ run'[x].pc \in {"select", "fetching", "answered"}
        /\ \A y \in Runners \ {x} : run'[y] = run[y]
    <3>1. CASE LookupFails(x)
      BY <3>1, Basics, ConcludePc DEF LookupFails
    <3>2. CASE ReuseFresh(x)
      BY <3>2, Basics, ConcludePc DEF ReuseFresh
    <3>3. CASE ReuseLocatorResult(x)
      BY <3>3, Basics, ConcludePc DEF ReuseLocatorResult
    <3>4. CASE CooldownBlocks(x)
      BY <3>4, Basics, ConcludePc DEF CooldownBlocks
    <3>5. CASE StartRunFetch(x)
      BY <3>5, Basics DEF StartRunFetch, RunState
    <3>6. CASE RunAnswered(x)
      BY <3>6, Basics DEF RunAnswered, RunState
    <3>7. CASE ResumeRunFailed(x)
      BY <3>7, Basics, ConcludePc DEF ResumeRunFailed
    <3>8. CASE ResumeRunWritten(x)
      BY <3>8, Basics, ConcludePc DEF ResumeRunWritten
    <3>9. CASE PersistHealth(x)
      BY <3>9, <2>1, Basics DEF PersistHealth, RunState
    <3> QED
      BY <1>5, <3>1, <3>2, <3>3, <3>4, <3>5, <3>6, <3>7, <3>8, <3>9
  <2> QED
    BY <2>1, <2>2
<1> QED
  BY <1>1, <1>2, <1>3, <1>4, <1>5 DEF RunNext, RunStep

\* Every step of the server keeps the run lock exclusive.
LEMMA NextOneRun ==
  TypeInv /\ OneRunAtATime /\ [Next]_vars => OneRunAtATime'
<1> SUFFICES ASSUME TypeInv, OneRunAtATime, [Next]_vars PROVE OneRunAtATime'
  OBVIOUS
<1>1. ASSUME NEW x \in Runners, Materialize(x) PROVE OneRunAtATime'
  BY <1>1, ActiveStep DEF Materialize
<1>2. CASE Restart
  BY <1>2, Basics DEF Restart, OneRunAtATime, Active, IdleRun
<1>3. CASE UNCHANGED <<lock, run>>
  BY <1>3 DEF OneRunAtATime, Active
<1> QED
  BY <1>1, <1>2, <1>3
     DEF Next, Preview, Publish, Tick, CanaryVerdict, vars, runVars

\* Hot-set runs never overlap (materialize_hot_set's "async with
\* self._run_lock"): an active run holds the lock and the holder is active.
THEOREM MutualExclusion == Spec => []OneRunAtATime
<1>1. Init => OneRunAtATime
  BY InitTypeInv, Basics DEF Init, MaterializerInit, OneRunAtATime, Active, IdleRun
<1> QED
  BY <1>1, NextOneRun, TypeInvariant, PTL DEF Spec
-----------------------------------------------------------------------------
\* A coroutine that is between two of its awaits owns the event loop.
LoopOwner ==
  /\ \A r \in Requests :
       request[r].pc \in {"readLocal", "fetch", "fallback", "record"} => onLoop = r
  /\ \A x \in Runners : run[x].pc = "select" => onLoop = x

\* Where a step of a preview leaves its own request.
LEMMA PreviewEffect ==
  ASSUME TypeInv, NEW r \in Requests, Preview(r)
  PROVE  /\ \A s \in Requests \ {r} : request'[s] = request[s]
         /\ request'[r].pc \in {"readLocal", "fetch", "fallback", "record"} => onLoop' = r
         /\ \/ onLoop \in {NoCoroutine, r}
            \/ onLoop' = onLoop /\ request'[r].pc = "answered"
         /\ run' = run
<1>b. request \in [Requests -> RequestState] /\ request[r] \in RequestState
  BY Basics
<1>0. run' = run
  BY DEF Preview, runVars
<1>1. CASE \E d \in Datasets : Submit(r, d)
  BY <1>1, <1>0, <1>b DEF Submit
<1>2. CASE ReadLocal(r)
  BY <1>2, <1>0, <1>b DEF ReadLocal, sharedVars
<1>3. CASE StartFetch(r)
  BY <1>3, <1>0, <1>b DEF StartFetch, RequestState
<1>4. CASE RefuseFetch(r)
  BY <1>4, <1>0, <1>b DEF RefuseFetch, sharedVars
<1>5. CASE PreviewAnswered(r)
  BY <1>5, <1>0, <1>b DEF PreviewAnswered, RequestState, sharedVars
<1>6. CASE ResumeFailed(r) \/ ResumeWritten(r)
  BY <1>6, <1>0, <1>b DEF ResumeFailed, ResumeWritten
<1>7. CASE FallBack(r)
  BY <1>7, <1>0, <1>b DEF FallBack, sharedVars
<1>8. CASE RecordResult(r) \/ CancelPreview(r)
  BY <1>8, <1>0, <1>b DEF RecordResult, CancelPreview, IdleRequest
<1> QED
  BY <1>1, <1>2, <1>3, <1>4, <1>5, <1>6, <1>7, <1>8 DEF Preview, PreviewNext, PreviewStep

\* Where a step of a run leaves its own record.
LEMMA RunEffect ==
  ASSUME TypeInv, NEW x \in Runners, Materialize(x)
  PROVE  /\ \A y \in Runners \ {x} : run'[y] = run[y]
         /\ run'[x].pc = "select" => onLoop' = x
         /\ \/ onLoop \in {NoCoroutine, x}
            \/ onLoop' = onLoop /\ run'[x].pc = "answered"
         /\ request' = request
<1>b. run \in [Runners -> RunState] /\ run[x] \in RunState /\ request' = request
  BY Basics DEF Materialize
<1>1. CASE \E o \in BOOLEAN : StartRun(x, o)
  BY <1>1, <1>b DEF StartRun, IdleRun
<1>2. CASE GrantLock(x)
  BY <1>2, <1>b DEF GrantLock
<1>3. CASE LookupFails(x) \/ ReuseFresh(x) \/ ReuseLocatorResult(x) \/ CooldownBlocks(x)
  BY <1>3, <1>b DEF LookupFails, ReuseFresh, ReuseLocatorResult, CooldownBlocks,
     Selecting, sharedVars
<1>4. CASE StartRunFetch(x)
  BY <1>4, <1>b DEF StartRunFetch, Selecting, RunState
<1>5. CASE RunAnswered(x)
  BY <1>5, <1>b DEF RunAnswered, RunState, sharedVars
<1>6. CASE ResumeRunFailed(x) \/ ResumeRunWritten(x)
  BY <1>6, <1>b DEF ResumeRunFailed, ResumeRunWritten
<1>7. CASE PersistHealth(x)
  BY <1>7, <1>b DEF PersistHealth, Persisting
<1>8. CASE FinishRun(x) \/ RunRaises(x) \/ CancelRun(x)
  BY <1>8, <1>b DEF FinishRun, RunRaises, CancelRun, Persisting, IdleRun
<1> QED
  BY <1>1, <1>2, <1>3, <1>4, <1>5, <1>6, <1>7, <1>8
     DEF Materialize, RunNext, RunStep

\* Every step of the server leaves the event loop with the coroutine that is
\* between two awaits.
LEMMA NextLoopOwner ==
  TypeInv /\ LoopOwner /\ [Next]_vars => LoopOwner'
<1> SUFFICES ASSUME TypeInv, LoopOwner, [Next]_vars PROVE LoopOwner'
  OBVIOUS
<1> USE DEF LoopOwner
<1>1. ASSUME NEW r \in Requests, Preview(r) PROVE LoopOwner'
  BY <1>1, PreviewEffect, Basics
<1>2. ASSUME NEW x \in Runners, Materialize(x) PROVE LoopOwner'
  BY <1>2, RunEffect, Basics
<1>3. CASE Restart
  BY <1>3, Basics DEF Restart, IdleRequest, IdleRun
<1>4. CASE UNCHANGED <<request, run, onLoop>>
  BY <1>4
<1> QED
  BY <1>1, <1>2, <1>3, <1>4
     DEF Next, Publish, Tick, CanaryVerdict, vars, sharedVars, runVars
-----------------------------------------------------------------------------
\* A request about to be recorded as a success shows what the artifacts hold.
Shown(q, files) ==
  (q.pc = "record" /\ q.outcome # "fail_closed") =>
    /\ files[LocatorOf[q.dataset]].usable
    /\ q.served = files[LocatorOf[q.dataset]].payload

\* What _result_from_payload and _closed_failure_result put in a result.
LEMMA ServedFields ==
  ASSUME TypeInv, NEW r \in Requests, NEW v, NEW o
  PROVE  /\ ServeFrom(r, v, o).dataset = Target(r)
         /\ ServeFrom(r, v, o).served = v
         /\ \A s : CloseWith(r, s).outcome = "fail_closed"
  BY Basics DEF ServeFrom, CloseWith, RequestState, Target

\* write_snapshot changes the one artifact it names.
LEMMA Stored ==
  ASSUME TypeInv, NEW l \in Locators, NEW v, StoreSnapshot(l, v)
  PROVE  /\ artifact'[l].usable = TRUE /\ artifact'[l].payload = v
         /\ \A k \in Locators \ {l} : artifact'[k] = artifact[k]
  BY Basics DEF StoreSnapshot

\* A preview's own steps make a result of what is then on disk.
LEMMA OwnResult ==
  ASSUME TypeInv, NEW r \in Requests, Shown(request[r], artifact), Preview(r)
  PROVE  Shown(request'[r], artifact')
<1> DEFINE l == LocatorOf[Target(r)]
<1>b. /\ request \in [Requests -> RequestState] /\ request[r] \in RequestState
      /\ Target(r) = request[r].dataset /\ l \in Locators
  BY Basics DEF Target
<1>1. CASE \E d \in Datasets : Submit(r, d)
  <2>1. PICK d \in Datasets : Submit(r, d)
    BY <1>1
  <2> DEFINE first == InitialOutcome(FreshnessOf(d))
             started == [IdleRequest(d) EXCEPT !.seen = FreshnessOf(d)]
  <2>2. request'[r] =
           CASE first \in LocalOutcomes ->
                  [started EXCEPT !.pc = "readLocal", !.outcome = first]
             [] first = "refresh_then_serve" -> [started EXCEPT !.pc = "fetch"]
             [] OTHER -> [started EXCEPT !.pc = "record", !.stage = "fetch",
                                         !.outcome = "fail_closed",
                                         !.failed = TRUE]
    BY <2>1, <1>b DEF Submit
  <2> HIDE DEF first
  <2>3. request'[r].pc # "record" \/ request'[r].outcome = "fail_closed"
    <3>1. CASE first \in LocalOutcomes
      BY <2>2, <3>1 DEF IdleRequest
    <3>2. CASE first \notin LocalOutcomes /\ first = "refresh_then_serve"
      BY <2>2, <3>2 DEF IdleRequest
    <3>3. CASE first \notin LocalOutcomes /\ first # "refresh_then_serve"
      BY <2>2, <3>3 DEF IdleRequest
    <3> QED BY <3>1, <3>2, <3>3
  <2> QED
    BY <2>3 DEF Shown
<1>2. CASE ReadLocal(r)
  <2>0. artifact' = artifact
    BY <1>2 DEF ReadLocal, sharedVars
  <2>1. CASE Readable(Target(r))
    <3>1. request'[r] = ServeFrom(r, OnDisk(Target(r)), request[r].outcome)
      BY <2>1, <1>2, <1>b DEF ReadLocal
    <3>2. request'[r].dataset = Target(r) /\ request'[r].served = OnDisk(Target(r))
      BY <3>1, ServedFields
    <3> QED
      BY <3>2, <2>0, <2>1 DEF Shown, Readable, OnDisk
  <2>2. CASE ~Readable(Target(r))
    <3>1. request'[r] = [request[r] EXCEPT !.pc = "fetch",
                            !.outcome = LocalUnusableOutcome(request[r].outcome)]
      BY <2>2, <1>2, <1>b DEF ReadLocal
    <3>2. request'[r].pc = "fetch"
      BY <3>1, <1>b DEF RequestState
    <3> QED
      BY <3>2 DEF Shown
  <2> QED
    BY <2>1, <2>2
<1>3. CASE StartFetch(r) \/ RefuseFetch(r)
  <2>1. request'[r].pc \in {"fetching", "fallback"}
    BY <1>3, <1>b DEF StartFetch, RefuseFetch, RequestState
  <2> QED
    BY <2>1 DEF Shown
<1>4. CASE PreviewAnswered(r) \/ ResumeFailed(r)
  <2>1. request'[r].pc \in {"answered", "fallback"}
    BY <1>4, <1>b DEF PreviewAnswered, ResumeFailed, RequestState
  <2> QED
    BY <2>1 DEF Shown
<1>5. CASE RecordResult(r) \/ CancelPreview(r)
  <2>1. request'[r].pc = "idle"
    BY <1>5, <1>b DEF RecordResult, CancelPreview, IdleRequest
  <2> QED
    BY <2>1 DEF Shown
<1>6. CASE ResumeWritten(r)
  <2>1. request'[r] = ServeFrom(r, request[r].reply.payload, "refresh_then_serve")
    BY <1>6, <1>b DEF ResumeWritten
  <2>2. request'[r].dataset = Target(r) /\ request'[r].served = request[r].reply.payload
    BY <2>1, ServedFields
  <2>3. artifact'[l].usable = TRUE /\ artifact'[l].payload = request[r].reply.payload
    BY <1>6, <1>b, Stored DEF ResumeWritten
  <2> QED
    BY <2>2, <2>3 DEF Shown
<1>7. CASE FallBack(r)
  <2>0. artifact' = artifact
    BY <1>7 DEF FallBack, sharedVars
  <2> DEFINE usable == /\ RefreshFailureOutcome(request[r].seen) = "serve_stale_with_notice"
                       /\ Readable(Target(r))
  <2>1. CASE usable
    <3>1. request'[r] = ServeFrom(r, OnDisk(Target(r)), "serve_stale_with_notice")
      BY <2>1, <1>7, <1>b DEF FallBack
    <3>2. request'[r].dataset = Target(r) /\ request'[r].served = OnDisk(Target(r))
      BY <3>1, ServedFields
    <3> QED
      BY <3>2, <2>0, <2>1 DEF Shown, Readable, OnDisk
  <2>2. CASE ~usable
    <3>1. request'[r] = CloseWith(r, request[r].stage)
      BY <2>2, <1>7, <1>b DEF FallBack
    <3> QED
      BY <3>1, ServedFields DEF Shown
  <2> QED
    BY <2>1, <2>2
<1> QED
  BY <1>1, <1>2, <1>3, <1>4, <1>5, <1>6, <1>7 DEF Preview, PreviewNext, PreviewStep

\* A preview writes a snapshot only when it resumes, that is when no coroutine
\* was between two awaits, and then as a whole.
LEMMA PreviewWrites ==
  ASSUME TypeInv, NEW r \in Requests, Preview(r)
  PROVE  /\ artifact' = artifact \/ onLoop = NoCoroutine
         /\ \/ artifact' = artifact
            \/ \E l \in Locators, v \in Versions : StoreSnapshot(l, v)
<1> USE DEF Preview, sharedVars
<1>1. CASE ResumeWritten(r)
  <2>1. request[r].reply.payload \in Versions
    BY Basics DEF RequestState, Reply
  <2> QED
    BY <1>1, <2>1, Basics DEF ResumeWritten
<1>2. CASE \/ \E d \in Datasets : Submit(r, d)
           \/ ReadLocal(r) \/ StartFetch(r) \/ RefuseFetch(r) \/ PreviewAnswered(r)
           \/ ResumeFailed(r) \/ FallBack(r) \/ RecordResult(r) \/ CancelPreview(r)
  BY <1>2 DEF Submit, ReadLocal, StartFetch, RefuseFetch, PreviewAnswered,
     ResumeFailed, FallBack, RecordResult, CancelPreview
<1> QED
  BY <1>1, <1>2 DEF PreviewNext, PreviewStep

\* The same of a run.
LEMMA RunWrites ==
  ASSUME TypeInv, NEW x \in Runners, Materialize(x)
  PROVE  /\ artifact' = artifact \/ onLoop = NoCoroutine
         /\ \/ artifact' = artifact
            \/ \E l \in Locators, v \in Versions : StoreSnapshot(l, v)
<1> USE DEF Materialize, sharedVars
<1>1. CASE ResumeRunWritten(x)
  <2>1. run[x].reply.payload \in Versions
    BY Basics DEF RunState, Reply
  <2>2. VisitedLocator(x) \in Locators
    <3>1. run[x].at \in 1..Len(Plan)
      BY <1>1, Basics, PlanFacts DEF ResumeRunWritten, TypeInv, AwaitsInPlan, RunState
    <3> QED
      BY <3>1, Basics, PlanFacts DEF VisitedLocator, Visited
  <2> QED
    BY <1>1, <2>1, <2>2 DEF ResumeRunWritten
<1>2. CASE \/ \E o \in BOOLEAN : StartRun(x, o)
           \/ GrantLock(x) \/ LookupFails(x) \/ ReuseFresh(x)
           \/ ReuseLocatorResult(x) \/ CooldownBlocks(x) \/ StartRunFetch(x)
           \/ RunAnswered(x) \/ ResumeRunFailed(x) \/ PersistHealth(x)
           \/ FinishRun(x) \/ RunRaises(x) \/ CancelRun(x)
  BY <1>2 DEF StartRun, GrantLock, LookupFails, ReuseFresh, ReuseLocatorResult,
     CooldownBlocks, StartRunFetch, RunAnswered, ResumeRunFailed, PersistHealth,
     FinishRun, RunRaises, CancelRun
<1> QED
  BY <1>1, <1>2 DEF RunNext, RunStep

\* Time changes what an artifact holds in nothing but its age.
LEMMA AgeingKeepsContents ==
  ASSUME TypeInv, Tick
  PROVE  \A l \in Locators : /\ artifact'[l].usable = artifact[l].usable
                             /\ artifact'[l].payload = artifact[l].payload
  BY Basics DEF Tick, Artifact

\* No step makes a readable artifact unreadable.
LEMMA SnapshotsStayReadable ==
  ASSUME TypeInv, [Next]_vars
  PROVE  \A l \in Locators : artifact[l].usable => artifact'[l].usable
<1>1. ASSUME NEW l \in Locators, NEW v \in Versions, StoreSnapshot(l, v)
      PROVE  \A k \in Locators : artifact[k].usable => artifact'[k].usable
  BY <1>1, Stored
<1>2. CASE Tick
  BY <1>2, AgeingKeepsContents
<1>3. CASE artifact' = artifact
  BY <1>3
<1> QED
  BY <1>1, <1>2, <1>3, PreviewWrites, RunWrites
     DEF Next, Publish, CanaryVerdict, Restart, vars, sharedVars

\* Every step of the server keeps the results about to be recorded in agreement
\* with the disk.
LEMMA NextMatchesDisk ==
  TypeInv /\ LoopOwner /\ ResultMatchesDisk /\ [Next]_vars => ResultMatchesDisk'
<1> SUFFICES ASSUME TypeInv, LoopOwner, [Next]_vars, NEW s \in Requests,
                    Shown(request[s], artifact)
             PROVE  Shown(request'[s], artifact')
  BY DEF ResultMatchesDisk, Shown, Readable, OnDisk, Target
<1>1. request[s].pc = "record" => onLoop = s /\ onLoop # NoCoroutine
  BY Basics DEF LoopOwner
<1>2. ASSUME NEW r \in Requests, Preview(r) PROVE Shown(request'[s], artifact')
  <2>1. CASE r = s
    BY <1>2, <2>1, OwnResult
  <2>2. CASE r # s
    BY <1>1, <1>2, <2>2, PreviewEffect, PreviewWrites DEF Shown
  <2> QED BY <2>1, <2>2
<1>3. ASSUME NEW x \in Runners, Materialize(x) PROVE Shown(request'[s], artifact')
  BY <1>1, <1>3, RunEffect, RunWrites DEF Shown
<1>4. CASE Tick
  <2>1. request' = request /\ LocatorOf[request[s].dataset] \in Locators
    BY <1>4, Basics DEF Tick, Target
  <2> QED
    BY <1>4, <2>1, AgeingKeepsContents DEF Shown
<1>5. CASE Restart
  BY <1>5 DEF Restart, IdleRequest, Shown
<1>6. CASE UNCHANGED <<request, artifact>>
  BY <1>6
<1> QED
  BY <1>2, <1>3, <1>4, <1>5, <1>6
     DEF Next, Publish, CanaryVerdict, vars, sharedVars, runVars

\* Between two awaits a coroutine of the server has the event loop to itself
\* (asyncio's cooperative scheduling of the tool handlers).
THEOREM LoopOwnership == Spec => []LoopOwner
<1>1. Init => LoopOwner
  BY DEF Init, PreviewInit, MaterializerInit, LoopOwner, IdleRequest, IdleRun
<1> QED
  BY <1>1, NextLoopOwner, TypeInvariant, PTL DEF Spec

\* A preview's result carries the payload that is on disk when it is recorded
\* (DatasetPreviewTool, _result_from_payload to _record_result), although
\* freshness was evaluated before the fetch was awaited.
THEOREM ResultsMatchDisk == Spec => []ResultMatchesDisk
<1>1. Init => ResultMatchesDisk
  BY DEF Init, PreviewInit, ResultMatchesDisk, IdleRequest
<1> QED
  BY <1>1, NextMatchesDisk, LoopOwnership, TypeInvariant, PTL DEF Spec
-----------------------------------------------------------------------------
(***************************************************************************)
(* What the data on the volume says: HealthyHasSnapshot, that a preview's  *)
(* verdict is earned, and the abstract specification LocalData as a whole. *)
(* Three facts make the first inductive: no step makes a readable artifact *)
(* unreadable (SnapshotsStayReadable), what a run remembers as             *)
(* materialized is readable (MaterializedReadable), and a preview that may *)
(* call a dataset healthy shows what is on disk (ResultMatchesDisk).       *)
(***************************************************************************)

\* What a run remembers as materialized is readable.
MaterializedReadable ==
  \A x \in Runners :
    /\ \A l \in Locators :
         run[x].locators[l] = "materialized" => artifact[l].usable
    /\ \A i \in 1..Len(Plan) :
         run[x].results[i] = "materialized" => Readable(Plan[i])

\* The same of one run record and given files.
Backed(q, files) ==
  /\ \A l \in Locators : q.locators[l] = "materialized" => files[l].usable
  /\ \A i \in 1..Len(Plan) :
       q.results[i] = "materialized" => files[LocatorOf[Plan[i]]].usable

\* What concluding the visited dataset does to the two memories of a run.
LEMMA ConcludeFields ==
  ASSUME TypeInv, NEW x \in Runners, NEW o, run[x].at \in 1..Len(Plan)
  PROVE  /\ Conclude(x, o).locators = run[x].locators
         /\ Conclude(x, o).results = [run[x].results EXCEPT ![run[x].at] = o]
         /\ ConcludeLocator(x, o).results = [run[x].results EXCEPT ![run[x].at] = o]
         /\ ConcludeLocator(x, o).locators =
              [run[x].locators EXCEPT ![VisitedLocator(x)] = o]
  BY Basics DEF Conclude, ConcludeLocator, RunState

\* A run that selects or awaits a fetch visits a dataset of the plan.
LEMMA VisitedInPlan ==
  ASSUME TypeInv, NEW x \in Runners,
         Selecting(x) \/ run[x].pc \in {"fetching", "answered"}
  PROVE  run[x].at \in 1..Len(Plan) /\ VisitedLocator(x) \in Locators
<1>1. run[x].at \in 1..Len(Plan)
  BY Basics, PlanFacts
     DEF Selecting, PlanLength, TypeInv, AwaitsInPlan, RunState
<1> QED
  BY <1>1, Basics, PlanFacts DEF VisitedLocator, Visited

\* Concluding with an outcome keeps the memories of a run backed by the files,
\* provided success means that the locator's artifact is readable.
LEMMA BackedConclude ==
  ASSUME TypeInv, NEW x \in Runners, NEW o, NEW files, run[x].at \in 1..Len(Plan),
         Backed(run[x], files),
         o = "materialized" => files[VisitedLocator(x)].usable
  PROVE  Backed(Conclude(x, o), files) /\ Backed(ConcludeLocator(x, o), files)
<1>1. /\ run[x].results \in [1..Len(Plan) -> Outcome]
      /\ run[x].locators \in [Locators -> LocatorResult]
  BY Basics DEF RunState
<1>2. VisitedLocator(x) = LocatorOf[Plan[run[x].at]]
  BY DEF VisitedLocator, Visited
<1> DEFINE c == Conclude(x, o)
           k == ConcludeLocator(x, o)
           at == run[x].at
<1>3. /\ c.locators = run[x].locators
      /\ c.results = [run[x].results EXCEPT ![at] = o]
      /\ k.results = [run[x].results EXCEPT ![at] = o]
      /\ k.locators = [run[x].locators EXCEPT ![VisitedLocator(x)] = o]
  BY ConcludeFields
<1> HIDE DEF c, k, at
<1>4. ASSUME NEW i \in 1..Len(Plan),
             [run[x].results EXCEPT ![at] = o][i] = "materialized"
      PROVE  files[LocatorOf[Plan[i]]].usable
  <2>1. CASE i = at
    BY <1>1, <1>2, <1>4, <2>1 DEF at
  <2>2. CASE i # at
    BY <1>1, <1>4, <2>2 DEF Backed
  <2> QED BY <2>1, <2>2
<1>5. ASSUME NEW l \in Locators,
             [run[x].locators EXCEPT ![VisitedLocator(x)] = o][l] = "materialized"
      PROVE  files[l].usable
  <2>1. CASE l = VisitedLocator(x)
    BY <1>1, <1>5, <2>1
  <2>2. CASE l # VisitedLocator(x)
    BY <1>1, <1>5, <2>2 DEF Backed
  <2> QED BY <2>1, <2>2
<1>6. Backed(c, files)
  BY <1>3, <1>4 DEF Backed
<1>7. Backed(k, files)
  BY <1>3, <1>4, <1>5 DEF Backed
<1> QED
  BY <1>6, <1>7 DEF c, k

\* A run's own steps remember success only of readable artifacts.
LEMMA OwnRunBacked ==
  ASSUME TypeInv, NEW x \in Runners, Materialize(x), Backed(run[x], artifact),
         Backed(run[x], artifact')
  PROVE  Backed(run'[x], artifact')
<1>b. run \in [Runners -> RunState] /\ run[x] \in RunState
  BY Basics
<1>1. CASE \/ \E o \in BOOLEAN : StartRun(x, o)
           \/ FinishRun(x) \/ RunRaises(x) \/ CancelRun(x)
  <2>1. /\ run'[x].locators = IdleRun.locators
        /\ run'[x].results = IdleRun.results
    <3>1. CASE \E o \in BOOLEAN : StartRun(x, o)
      <4>1. PICK o \in BOOLEAN : StartRun(x, o)
        BY <3>1
      <4>2. \/ run'[x] = [IdleRun EXCEPT !.pc = "select", !.optional = o]
            \/ run'[x] = [IdleRun EXCEPT !.pc = "waiting", !.optional = o]
        BY <4>1, <1>b DEF StartRun
      <4> QED
        BY <4>2 DEF IdleRun
    <3>2. CASE FinishRun(x) \/ RunRaises(x) \/ CancelRun(x)
      BY <3>2, <1>b DEF FinishRun, RunRaises, CancelRun
    <3> QED
      BY <1>1, <3>1, <3>2
  <2> QED
    BY <2>1 DEF Backed, IdleRun
<1>2. CASE GrantLock(x) \/ StartRunFetch(x) \/ RunAnswered(x) \/ PersistHealth(x)
  <2>1. run'[x].locators = run[x].locators /\ run'[x].results = run[x].results
    BY <1>2, <1>b DEF GrantLock, StartRunFetch, RunAnswered, PersistHealth, RunState
  <2> QED
    BY <2>1 DEF Backed
<1>3. CASE LookupFails(x) \/ ReuseFresh(x)
  <2>1. PICK o \in {"lookup", "skipped"} : run'[x] = Conclude(x, o)
    BY <1>3, <1>b DEF LookupFails, ReuseFresh
  <2>2. run[x].at \in 1..Len(Plan)
    BY <1>3, VisitedInPlan DEF LookupFails, ReuseFresh
  <2> QED
    BY <2>1, <2>2, BackedConclude
<1>4. CASE ReuseLocatorResult(x)
  <2>1. run'[x] = Conclude(x, run[x].locators[VisitedLocator(x)])
    BY <1>4, <1>b DEF ReuseLocatorResult
  <2>2. run[x].at \in 1..Len(Plan) /\ VisitedLocator(x) \in Locators
    BY <1>4, VisitedInPlan DEF ReuseLocatorResult
  <2>3. run[x].locators[VisitedLocator(x)] = "materialized"
          => artifact'[VisitedLocator(x)].usable
    BY <2>2 DEF Backed
  <2> QED
    BY <2>1, <2>2, <2>3, BackedConclude
<1>5. CASE CooldownBlocks(x)
  <2>1. PICK o \in {"skipped", "fetch"} : run'[x] = ConcludeLocator(x, o)
    BY <1>5, <1>b DEF CooldownBlocks
  <2>2. run[x].at \in 1..Len(Plan)
    BY <1>5, VisitedInPlan DEF CooldownBlocks
  <2> QED
    BY <2>1, <2>2, BackedConclude
<1>6. CASE ResumeRunFailed(x)
  <2>1. PICK o \in {"fetch", "snapshot"} : run'[x] = ConcludeLocator(x, o)
    BY <1>6, <1>b DEF ResumeRunFailed
  <2>2. run[x].at \in 1..Len(Plan)
    BY <1>6, VisitedInPlan DEF ResumeRunFailed
  <2> QED
    BY <2>1, <2>2, BackedConclude
<1>7. CASE ResumeRunWritten(x)
  <2>1. run'[x] = ConcludeLocator(x, "materialized")
    BY <1>7, <1>b DEF ResumeRunWritten
  <2>2. run[x].at \in 1..Len(Plan) /\ VisitedLocator(x) \in Locators
    BY <1>7, VisitedInPlan DEF ResumeRunWritten
  <2>3. artifact'[VisitedLocator(x)].usable
    BY <1>7, <2>2, Stored DEF ResumeRunWritten
  <2> QED
    BY <2>1, <2>2, <2>3, BackedConclude
<1> QED
  BY <1>1, <1>2, <1>3, <1>4, <1>5, <1>6, <1>7 DEF Materialize, RunNext, RunStep

\* Every step of the server keeps what the runs remember backed by the files.
LEMMA NextMaterializedReadable ==
  TypeInv /\ MaterializedReadable /\ [Next]_vars => MaterializedReadable'
<1> SUFFICES ASSUME TypeInv, [Next]_vars, NEW y \in Runners, Backed(run[y], artifact)
             PROVE  Backed(run'[y], artifact')
  BY DEF MaterializedReadable, Backed, Readable
<1>1. Backed(run[y], artifact')
  BY SnapshotsStayReadable, PlanFacts, Basics DEF Backed
<1>2. ASSUME NEW x \in Runners, Materialize(x) PROVE Backed(run'[y], artifact')
  BY <1>1, <1>2, OwnRunBacked, RunEffect
<1>3. CASE Restart
  BY <1>3 DEF Restart, IdleRun, Backed
<1>4. CASE run' = run
  BY <1>1, <1>4
<1> QED
  BY <1>2, <1>3, <1>4
     DEF Next, Preview, Publish, Tick, CanaryVerdict, vars, runVars

\* A preview makes a row healthy only when the dataset's artifact is readable.
LEMMA PreviewVerdict ==
  ASSUME TypeInv, ResultMatchesDisk, NEW r \in Requests, Preview(r), NEW d \in Datasets,
         health'[d] # health[d], health'[d].status = "healthy"
  PROVE  Readable(d)
<1>b. health \in [Datasets -> HealthRow] /\ Target(r) \in Datasets
  BY Basics
<1>1. CASE RecordResult(r)
  <2> DEFINE verdict == HealthOfPreview(request[r].outcome, request[r].failed)
  <2>1. d = Target(r) /\ verdict = "healthy"
    BY <1>1, <1>b DEF RecordResult, UpsertHealth
  <2>2. request[r].outcome = "refresh_then_serve" /\ request[r].pc = "record"
    BY <2>1, <1>1 DEF HealthOfPreview, RecordResult
  <2> QED
    BY <2>1, <2>2 DEF ResultMatchesDisk
<1>2. CASE ~RecordResult(r)
  <2>1. health' = health
    BY <1>2 DEF Preview, PreviewNext, PreviewStep, Submit, ReadLocal, StartFetch,
       RefuseFetch, PreviewAnswered, ResumeFailed, ResumeWritten, FallBack,
       CancelPreview, sharedVars
  <2> QED BY <2>1
<1> QED BY <1>1, <1>2

\* A run makes a row healthy only when the dataset's artifact is readable.
LEMMA RunVerdict ==
  ASSUME TypeInv, MaterializedReadable, NEW x \in Runners, Materialize(x),
         NEW d \in Datasets, health'[d] # health[d], health'[d].status = "healthy"
  PROVE  Readable(d)
<1>b. health \in [Datasets -> HealthRow] /\ run[x] \in RunState
  BY Basics
<1>1. CASE PersistHealth(x)
  <2> DEFINE i == run[x].persisted + 1
             verdict == HealthOfResult(run[x].results[i])
  <2>1. i \in 1..Len(Plan)
    BY <1>1, <1>b, PlanFacts DEF PersistHealth, PlanLength, RunState
  <2>2. d = Plan[i] /\ verdict = "healthy"
    BY <1>1, <1>b, <2>1, PlanFacts DEF PersistHealth, UpsertHealth
  <2>3. run[x].results[i] = "materialized"
    BY <2>2 DEF HealthOfResult
  <2> QED
    BY <2>1, <2>2, <2>3 DEF MaterializedReadable
<1>2. CASE ~PersistHealth(x)
  <2>1. health' = health
    BY <1>2 DEF Materialize, RunNext, RunStep, StartRun, GrantLock, LookupFails,
       ReuseFresh, ReuseLocatorResult, CooldownBlocks, StartRunFetch, RunAnswered,
       ResumeRunFailed, ResumeRunWritten, FinishRun, RunRaises, CancelRun, sharedVars
  <2> QED BY <2>1
<1> QED BY <1>1, <1>2

\* Every step of the server keeps the healthy rows backed by snapshots.
LEMMA NextHealthy ==
  /\ TypeInv /\ ResultMatchesDisk /\ MaterializedReadable
  /\ HealthyHasSnapshot /\ [Next]_vars
  => HealthyHasSnapshot'
<1> SUFFICES ASSUME TypeInv, ResultMatchesDisk, MaterializedReadable,
                    HealthyHasSnapshot, [Next]_vars, NEW d \in Datasets,
                    health'[d].status = "healthy", health'[d].by # "canary"
             PROVE  artifact'[LocatorOf[d]].usable
  BY DEF HealthyHasSnapshot, Readable
<1>1. CASE health'[d] = health[d]
  BY <1>1, SnapshotsStayReadable, Basics DEF HealthyHasSnapshot, Readable
<1>2. CASE health'[d] # health[d]
  <2>1. Readable(d)
    <3>1. ASSUME NEW e \in Datasets, CanaryVerdict(e) PROVE FALSE
      BY <1>2, <3>1, Basics DEF CanaryVerdict, UpsertHealth
    <3> QED
      BY <1>2, <3>1, PreviewVerdict, RunVerdict
         DEF Next, Publish, Tick, Restart, vars, sharedVars
  <2> QED
    BY <2>1, SnapshotsStayReadable, Basics DEF Readable
<1> QED BY <1>1, <1>2

\* A dataset the server itself called healthy has a readable snapshot (the
\* health rows of _record_result and of the end of a run), also across a kill
\* between writing the file and writing the row.
THEOREM HealthyRowsHaveSnapshots == Spec => []HealthyHasSnapshot
<1>1. Init => HealthyHasSnapshot /\ MaterializedReadable
  BY DEF Init, SharedInit, MaterializerInit, HealthyHasSnapshot, MaterializedReadable,
     SeededHealth, IdleRun
<1>2. Spec => []MaterializedReadable
  BY <1>1, NextMaterializedReadable, TypeInvariant, PTL DEF Spec
<1> QED
  BY <1>1, <1>2, NextHealthy, ResultsMatchDisk, TypeInvariant, PTL DEF Spec
-----------------------------------------------------------------------------
\* A result that is not failed was made from a payload that normalizes.
Sound(q) == (q.pc = "record" /\ ~q.failed) => Normalizes(q.served, q.dataset)

ResultsAreSound == \A r \in Requests : Sound(request[r])

\* What the helpers that make a result do to its normalization verdict.
LEMMA ServedIsSound ==
  ASSUME TypeInv, NEW r \in Requests, NEW v, NEW o
  PROVE  Sound(ServeFrom(r, v, o)) /\ \A s : Sound(CloseWith(r, s))
<1>1. /\ ServeFrom(r, v, o).failed = ~Normalizes(v, Target(r))
      /\ ServeFrom(r, v, o).served = v /\ ServeFrom(r, v, o).dataset = Target(r)
      /\ \A s : CloseWith(r, s).failed = TRUE
  BY Basics DEF ServeFrom, CloseWith, RequestState, Target
<1> QED
  BY <1>1 DEF Sound

\* A preview's own steps make no unsound result.
LEMMA OwnResultSound ==
  ASSUME TypeInv, NEW r \in Requests, Preview(r), Sound(request[r])
  PROVE  Sound(request'[r])
<1>b. request \in [Requests -> RequestState] /\ request[r] \in RequestState
  BY Basics
<1>1. CASE \E d \in Datasets : Submit(r, d)
  <2>1. PICK d \in Datasets : Submit(r, d)
    BY <1>1
  <2> DEFINE first == InitialOutcome(FreshnessOf(d))
             started == [IdleRequest(d) EXCEPT !.seen = FreshnessOf(d)]
  <2>2. request'[r] =
           CASE first \in LocalOutcomes ->
                  [started EXCEPT !.pc = "readLocal", !.outcome = first]
             [] first = "refresh_then_serve" -> [started EXCEPT !.pc = "fetch"]
             [] OTHER -> [started EXCEPT !.pc = "record", !.stage = "fetch",
                                         !.outcome = "fail_closed",
                                         !.failed = TRUE]
    BY <2>1, <1>b DEF Submit
  <2> HIDE DEF first
  <2>3. request'[r].pc # "record" \/ request'[r].failed = TRUE
    <3>1. CASE first \in LocalOutcomes
      BY <2>2, <3>1 DEF IdleRequest
    <3>2. CASE first \notin LocalOutcomes /\ first = "refresh_then_serve"
      BY <2>2, <3>2 DEF IdleRequest
    <3>3. CASE first \notin LocalOutcomes /\ first # "refresh_then_serve"
      BY <2>2, <3>3 DEF IdleRequest
    <3> QED BY <3>1, <3>2, <3>3
  <2> QED
    BY <2>3 DEF Sound
<1>2. CASE ReadLocal(r)
  <2>1. CASE Readable(Target(r))
    <3>1. request'[r] = ServeFrom(r, OnDisk(Target(r)), request[r].outcome)
      BY <2>1, <1>2, <1>b DEF ReadLocal
    <3> QED
      BY <3>1, ServedIsSound
  <2>2. CASE ~Readable(Target(r))
    <3>1. request'[r].pc = "fetch"
      BY <2>2, <1>2, <1>b DEF ReadLocal, RequestState
    <3> QED
      BY <3>1 DEF Sound
  <2> QED
    BY <2>1, <2>2
<1>3. CASE \/ StartFetch(r) \/ RefuseFetch(r) \/ PreviewAnswered(r)
           \/ ResumeFailed(r) \/ RecordResult(r) \/ CancelPreview(r)
  <2>1. request'[r].pc # "record"
    <3>1. CASE StartFetch(r) \/ RefuseFetch(r)
      BY <3>1, <1>b DEF StartFetch, RefuseFetch, RequestState
    <3>2. CASE PreviewAnswered(r) \/ ResumeFailed(r)
      BY <3>2, <1>b DEF PreviewAnswered, ResumeFailed, RequestState
    <3>3. CASE RecordResult(r) \/ CancelPreview(r)
      BY <3>3, <1>b DEF RecordResult, CancelPreview, IdleRequest
    <3> QED BY <1>3, <3>1, <3>2, <3>3
  <2> QED
    BY <2>1 DEF Sound
<1>4. CASE ResumeWritten(r)
  <2>1. request'[r] = ServeFrom(r, request[r].reply.payload, "refresh_then_serve")
    BY <1>4, <1>b DEF ResumeWritten
  <2> QED
    BY <2>1, ServedIsSound
<1>5. CASE FallBack(r)
  <2>1. \/ request'[r] = ServeFrom(r, OnDisk(Target(r)), "serve_stale_with_notice")
        \/ request'[r] = CloseWith(r, request[r].stage)
    BY <1>5, <1>b DEF FallBack
  <2> QED
    BY <2>1, ServedIsSound
<1> QED
  BY <1>1, <1>2, <1>3, <1>4, <1>5 DEF Preview, PreviewNext, PreviewStep

\* Every step of the server keeps the results sound.
LEMMA NextResultsSound ==
  TypeInv /\ ResultsAreSound /\ [Next]_vars => ResultsAreSound'
<1> SUFFICES ASSUME TypeInv, ResultsAreSound, [Next]_vars PROVE ResultsAreSound'
  OBVIOUS
<1>1. ASSUME NEW r \in Requests, Preview(r) PROVE ResultsAreSound'
  BY <1>1, PreviewEffect, OwnResultSound DEF ResultsAreSound
<1>2. CASE Restart
  BY <1>2 DEF Restart, IdleRequest, ResultsAreSound, Sound
<1>3. CASE request' = request
  BY <1>3 DEF ResultsAreSound
<1> QED
  BY <1>1, <1>2, <1>3
     DEF Next, Materialize, Publish, Tick, CanaryVerdict, vars, runVars

\* Every step that makes a row healthy on behalf of a preview finds on disk a
\* payload that normalizes.
LEMMA VerdictEarned ==
  ASSUME TypeInv, ResultMatchesDisk, ResultsAreSound, [Next]_vars,
         NEW d \in Datasets, health'[d] # health[d],
         health'[d].by = "preview", health'[d].status = "healthy"
  PROVE  Readable(d) /\ Normalizes(OnDisk(d), d)
<1>b. health \in [Datasets -> HealthRow]
  BY Basics
<1>1. ASSUME NEW x \in Runners, Materialize(x) PROVE FALSE
  <2>1. health' # health
    OBVIOUS
  <2>2. \E i \in 1..Len(Plan) : \E v : UpsertHealth(Plan[i], v, "materialize")
    <3>1. CASE PersistHealth(x)
      <4>1. run[x].persisted + 1 \in 1..Len(Plan)
        BY <3>1, Basics, PlanFacts DEF PersistHealth, PlanLength, RunState
      <4> QED
        BY <2>1, <3>1, <4>1 DEF PersistHealth
    <3>2. CASE ~PersistHealth(x)
      BY <1>1, <2>1, <3>2 DEF Materialize, RunNext, RunStep, StartRun, GrantLock,
         LookupFails, ReuseFresh, ReuseLocatorResult, CooldownBlocks, StartRunFetch,
         RunAnswered, ResumeRunFailed, ResumeRunWritten, FinishRun, RunRaises,
         CancelRun, sharedVars
    <3> QED BY <3>1, <3>2
  <2> QED
    BY <2>2, <1>b, PlanFacts DEF UpsertHealth
<1>2. ASSUME NEW e \in Datasets, CanaryVerdict(e) PROVE FALSE
  BY <1>2, <1>b DEF CanaryVerdict, UpsertHealth
<1>3. ASSUME NEW r \in Requests, Preview(r)
      PROVE  Readable(d) /\ Normalizes(OnDisk(d), d)
  <2> DEFINE verdict == HealthOfPreview(request[r].outcome, request[r].failed)
  <2>1. RecordResult(r)
    <3>1. health' # health
      OBVIOUS
    <3> QED
      BY <1>3, <3>1 DEF Preview, PreviewNext, PreviewStep, Submit, ReadLocal,
         StartFetch, RefuseFetch, PreviewAnswered, ResumeFailed, ResumeWritten,
         FallBack, CancelPreview, sharedVars
  <2>2. d = Target(r) /\ verdict = "healthy"
    BY <2>1, <1>b, Basics DEF RecordResult, UpsertHealth
  <2>3. /\ request[r].outcome = "refresh_then_serve" /\ ~request[r].failed
        /\ request[r].pc = "record"
    BY <2>1, <2>2 DEF RecordResult, HealthOfPreview
  <2>4. Readable(d) /\ request[r].served = OnDisk(d)
    BY <2>2, <2>3 DEF ResultMatchesDisk
  <2> QED
    BY <2>2, <2>3, <2>4 DEF ResultsAreSound, Sound, Target
<1> QED
  BY <1>1, <1>2, <1>3 DEF Next, Publish, Tick, Restart, vars, sharedVars

\* A preview writes "healthy" only over a payload that normalizes for the
\* dataset (_record_result after _result_from_payload): the row and the
\* artifact agree at the moment it is written.
THEOREM PreviewVerdictsAreEarned == Spec => PreviewVerdictIsEarned
<1>1. Init => ResultsAreSound
  BY DEF Init, PreviewInit, ResultsAreSound, Sound, IdleRequest
<1>2. ASSUME TypeInv, ResultMatchesDisk, ResultsAreSound, [Next]_vars
      PROVE  [\A d \in Datasets :
                (health'[d] # health[d] /\ health'[d].by = "preview"
                   /\ health'[d].status = "healthy")
                  => Readable(d) /\ Normalizes(OnDisk(d), d)]_vars
  BY <1>2, VerdictEarned
<1> QED
  BY <1>1, <1>2, NextResultsSound, ResultsMatchDisk, TypeInvariant, PTL
     DEF Spec, PreviewVerdictIsEarned
-----------------------------------------------------------------------------
\* Whatever an artifact holds or an answer carries, its source has published.
PayloadsPublished ==
  /\ \A l \in Locators : artifact[l].payload <= upstream[l]
  /\ \A r \in Requests : request[r].pc = "answered" =>
       request[r].reply.payload <= upstream[LocatorOf[Target(r)]]
  /\ \A x \in Runners : run[x].pc = "answered" =>
       run[x].reply.payload <= upstream[VisitedLocator(x)]

\* An answer that arrives now is something its source has published.
LEMMA AnswersArePublished ==
  ASSUME TypeInv, NEW l \in Locators, NEW reply \in Replies(l)
  PROVE  reply.payload <= upstream[l]
<1>1. upstream[l] \in Nat
  BY ServingAssumption DEF TypeInv, TypeOK, SharedTypeOK, Versions
<1> QED
  BY <1>1 DEF Replies, FetchError, Fetched

\* What each kind of step does to the data that the contract is about.
LEMMA PreviewData ==
  ASSUME TypeInv, NEW r \in Requests, Preview(r)
  PROVE  /\ upstream' = upstream
         /\ \/ artifact' = artifact
            \/ /\ request[r].pc = "answered" /\ health' = health
               /\ StoreSnapshot(LocatorOf[Target(r)], request[r].reply.payload)
         /\ \/ health' = health
            \/ /\ artifact' = artifact
               /\ \E verdict \in {"healthy", "degraded"} :
                    UpsertHealth(Target(r), verdict, "preview")
<1> USE DEF Preview, sharedVars
<1>1. CASE ResumeWritten(r)
  BY <1>1 DEF ResumeWritten
<1>2. CASE RecordResult(r)
  <2> DEFINE verdict == HealthOfPreview(request[r].outcome, request[r].failed)
  <2>1. verdict \in {"none", "healthy", "degraded"}
    BY DEF HealthOfPreview
  <2>2. IF verdict = "none" THEN health' = health
        ELSE UpsertHealth(Target(r), verdict, "preview")
    BY <1>2 DEF RecordResult
  <2>3. artifact' = artifact /\ upstream' = upstream
    BY <1>2 DEF RecordResult
  <2> HIDE DEF verdict
  <2> QED
    BY <2>1, <2>2, <2>3
<1>3. CASE \/ \E d \in Datasets : Submit(r, d)
           \/ ReadLocal(r) \/ StartFetch(r) \/ RefuseFetch(r) \/ PreviewAnswered(r)
           \/ ResumeFailed(r) \/ FallBack(r) \/ CancelPreview(r)
  BY <1>3 DEF Submit, ReadLocal, StartFetch, RefuseFetch, PreviewAnswered,
     ResumeFailed, FallBack, CancelPreview
<1> QED
  BY <1>1, <1>2, <1>3 DEF PreviewNext, PreviewStep

\* What a step of a run does to the files and rows: nothing, storing what it
\* fetched, or writing one row that its results back.
LEMMA RunData ==
  ASSUME TypeInv, NEW x \in Runners, Materialize(x)
  PROVE  /\ upstream' = upstream
         /\ \/ artifact' = artifact
            \/ /\ run[x].pc = "answered" /\ run[x].reply.kind = "payload"
               /\ health' = health /\ VisitedLocator(x) \in Locators
               /\ run' = [run EXCEPT ![x] = ConcludeLocator(x, "materialized")]
               /\ StoreSnapshot(VisitedLocator(x), run[x].reply.payload)
         /\ \/ health' = health
            \/ /\ artifact' = artifact /\ PersistHealth(x)
               /\ run[x].persisted + 1 \in 1..Len(Plan)
               /\ \E verdict \in {"healthy", "degraded"} :
                    /\ verdict = HealthOfResult(run[x].results[run[x].persisted + 1])
                    /\ UpsertHealth(Plan[run[x].persisted + 1], verdict, "materialize")
<1> USE DEF Materialize, sharedVars
<1>1. CASE ResumeRunWritten(x)
  BY <1>1, VisitedInPlan DEF ResumeRunWritten
<1>2. CASE PersistHealth(x)
  <2> DEFINE i == run[x].persisted + 1
             verdict == HealthOfResult(run[x].results[i])
  <2>1. verdict \in {"none", "healthy", "degraded"}
    BY DEF HealthOfResult
  <2>2. IF verdict = "none" THEN health' = health
        ELSE UpsertHealth(Plan[i], verdict, "materialize")
    BY <1>2 DEF PersistHealth
  <2>3. artifact' = artifact /\ upstream' = upstream
    BY <1>2 DEF PersistHealth
  <2>4. i \in 1..Len(Plan)
    BY <1>2, Basics, PlanFacts DEF PersistHealth, PlanLength, RunState
  <2> QED
    BY <1>2, <2>1, <2>2, <2>3, <2>4
<1>3. CASE \/ \E o \in BOOLEAN : StartRun(x, o)
           \/ GrantLock(x) \/ LookupFails(x) \/ ReuseFresh(x)
           \/ ReuseLocatorResult(x) \/ CooldownBlocks(x) \/ StartRunFetch(x)
           \/ RunAnswered(x) \/ ResumeRunFailed(x)
           \/ FinishRun(x) \/ RunRaises(x) \/ CancelRun(x)
  BY <1>3 DEF StartRun, GrantLock, LookupFails, ReuseFresh, ReuseLocatorResult,
     CooldownBlocks, StartRunFetch, RunAnswered, ResumeRunFailed,
     FinishRun, RunRaises, CancelRun
<1> QED
  BY <1>1, <1>2, <1>3 DEF RunNext, RunStep

\* What a coroutine awaits, once it is answered.
LEMMA PreviewAnswer ==
  ASSUME TypeInv, NEW r \in Requests, Preview(r), request'[r].pc = "answered"
  PROVE  /\ Target(r)' = Target(r)
         /\ request'[r].reply \in Replies(LocatorOf[Target(r)])
<1>b. request \in [Requests -> RequestState] /\ request[r] \in RequestState
  BY Basics
<1>1. CASE PreviewAnswered(r)
  BY <1>1, <1>b DEF PreviewAnswered, RequestState, Target
<1>2. CASE ~PreviewAnswered(r)
  <2>1. request'[r].pc # "answered"
    <3>1. CASE \E d \in Datasets : Submit(r, d)
      <4>1. PICK d \in Datasets : Submit(r, d)
        BY <3>1
      <4> DEFINE first == InitialOutcome(FreshnessOf(d))
                 started == [IdleRequest(d) EXCEPT !.seen = FreshnessOf(d)]
      <4>2. request'[r] =
               CASE first \in LocalOutcomes ->
                      [started EXCEPT !.pc = "readLocal", !.outcome = first]
                 [] first = "refresh_then_serve" -> [started EXCEPT !.pc = "fetch"]
                 [] OTHER -> [started EXCEPT !.pc = "record", !.stage = "fetch",
                                             !.outcome = "fail_closed",
                                             !.failed = TRUE]
        BY <4>1, <1>b DEF Submit
      <4> HIDE DEF first
      <4>3. CASE first \in LocalOutcomes
        BY <4>2, <4>3 DEF IdleRequest
      <4>4. CASE first \notin LocalOutcomes /\ first = "refresh_then_serve"
        BY <4>2, <4>4 DEF IdleRequest
      <4>5. CASE first \notin LocalOutcomes /\ first # "refresh_then_serve"
        BY <4>2, <4>5 DEF IdleRequest
      <4> QED BY <4>3, <4>4, <4>5
    <3>2. CASE ReadLocal(r) \/ FallBack(r) \/ ResumeWritten(r)
      <4>1. \/ \E v, o : request'[r] = ServeFrom(r, v, o)
            \/ \E s : request'[r] = CloseWith(r, s)
            \/ \E o : request'[r] = [request[r] EXCEPT !.pc = "fetch", !.outcome = o]
        <5>1. CASE ReadLocal(r)
          BY <5>1, <1>b DEF ReadLocal
        <5>2. CASE FallBack(r)
          BY <5>2, <1>b DEF FallBack
        <5>3. CASE ResumeWritten(r)
          BY <5>3, <1>b DEF ResumeWritten
        <5> QED BY <3>2, <5>1, <5>2, <5>3
      <4>2. \A v, o : ServeFrom(r, v, o).pc = "record"
        BY <1>b DEF ServeFrom, RequestState
      <4>3. \A s : CloseWith(r, s).pc = "record"
        BY <1>b DEF CloseWith, RequestState
      <4> QED
        BY <4>1, <4>2, <4>3, <1>b DEF RequestState
    <3>3. CASE StartFetch(r) \/ RefuseFetch(r)
      BY <3>3, <1>b DEF StartFetch, RefuseFetch, RequestState
    <3>4. CASE ResumeFailed(r)
      BY <3>4, <1>b DEF ResumeFailed, RequestState
    <3>5. CASE RecordResult(r) \/ CancelPreview(r)
      BY <3>5, <1>b DEF RecordResult, CancelPreview, IdleRequest
    <3> QED
      BY <1>2, <3>1, <3>2, <3>3, <3>4, <3>5 DEF Preview, PreviewNext, PreviewStep
  <2> QED
    BY <2>1
<1> QED BY <1>1, <1>2

\* What answers a run's fetch is something the source gives for its locator.
LEMMA RunAnswer ==
  ASSUME TypeInv, NEW x \in Runners, Materialize(x), run'[x].pc = "answered"
  PROVE  /\ RunAnswered(x) /\ VisitedLocator(x) \in Locators
         /\ VisitedLocator(x)' = VisitedLocator(x)
         /\ run'[x].reply \in Replies(VisitedLocator(x))
<1>b. run \in [Runners -> RunState] /\ run[x] \in RunState
  BY Basics
<1>1. CASE RunAnswered(x)
  <2>1. PICK reply \in Replies(VisitedLocator(x)) :
          run' = [run EXCEPT ![x] = [@ EXCEPT !.pc = "answered", !.reply = reply]]
    BY <1>1 DEF RunAnswered
  <2>2. run'[x].at = run[x].at /\ run'[x].reply = reply
    BY <2>1, <1>b DEF RunState
  <2>3. VisitedLocator(x) \in Locators
    BY <1>1, VisitedInPlan DEF RunAnswered
  <2> QED
    BY <1>1, <2>2, <2>3 DEF VisitedLocator, Visited
<1>2. CASE ~RunAnswered(x)
  <2>1. run'[x].pc # "answered"
    <3>1. CASE \E optional \in BOOLEAN : StartRun(x, optional)
      <4>1. PICK optional \in BOOLEAN : StartRun(x, optional)
        BY <3>1
      <4>2. \/ run'[x] = [IdleRun EXCEPT !.pc = "select", !.optional = optional]
            \/ run'[x] = [IdleRun EXCEPT !.pc = "waiting", !.optional = optional]
        BY <4>1, <1>b DEF StartRun
      <4> QED
        BY <4>2 DEF IdleRun
    <3>2. CASE GrantLock(x) \/ StartRunFetch(x)
      BY <3>2, <1>b DEF GrantLock, StartRunFetch, RunState
    <3>3. CASE \/ LookupFails(x) \/ ReuseFresh(x) \/ ReuseLocatorResult(x)
               \/ CooldownBlocks(x) \/ ResumeRunFailed(x) \/ ResumeRunWritten(x)
      <4>1. \E o : run'[x] \in {Conclude(x, o), ConcludeLocator(x, o)}
        BY <3>3, <1>b DEF LookupFails, ReuseFresh, ReuseLocatorResult,
           CooldownBlocks, ResumeRunFailed, ResumeRunWritten
      <4> QED
        BY <4>1, ConcludePc
    <3>4. CASE PersistHealth(x)
      BY <3>4, <1>b DEF PersistHealth, Persisting, RunState
    <3>5. CASE FinishRun(x) \/ RunRaises(x) \/ CancelRun(x)
      BY <3>5, <1>b DEF FinishRun, RunRaises, CancelRun, IdleRun
    <3> QED
      BY <1>2, <3>1, <3>2, <3>3, <3>4, <3>5 DEF Materialize, RunNext, RunStep
  <2> QED
    BY <2>1
<1> QED BY <1>1, <1>2

\* A source never takes a publication back.
LEMMA UpstreamGrows ==
  ASSUME TypeInv, [Next]_vars
  PROVE  /\ \A l \in Locators : upstream[l] \in Nat /\ upstream'[l] \in Nat
         /\ \A l \in Locators : upstream[l] <= upstream'[l]
<1>1. upstream \in [Locators -> Nat]
  BY ServingAssumption DEF TypeInv, TypeOK, SharedTypeOK, Versions
<1>2. CASE \E l \in Locators : Publish(l)
  BY <1>1, <1>2 DEF Publish
<1>3. CASE upstream' = upstream
  BY <1>1, <1>3
<1> QED
  BY <1>2, <1>3, PreviewData, RunData
     DEF Next, Tick, CanaryVerdict, Restart, vars, sharedVars

\* Storing a published payload leaves only published payloads.
LEMMA StoredPublished ==
  ASSUME TypeInv, \A l \in Locators : artifact[l].payload <= upstream[l],
         upstream' = upstream, NEW l \in Locators, NEW v, v <= upstream[l],
         StoreSnapshot(l, v)
  PROVE  \A k \in Locators : artifact'[k].payload <= upstream'[k]
  BY Stored

\* Every step of the server keeps all payloads among those published.
LEMMA NextPublished ==
  TypeInv /\ PayloadsPublished /\ [Next]_vars => PayloadsPublished'
<1> SUFFICES ASSUME TypeInv, PayloadsPublished, [Next]_vars PROVE PayloadsPublished'
  OBVIOUS
<1>t. /\ artifact \in [Locators -> Artifact] /\ request \in [Requests -> RequestState]
      /\ run \in [Runners -> RunState]
      /\ \A l \in Locators : artifact[l].payload \in Nat
      /\ \A r \in Requests : request[r].reply.payload \in Nat
      /\ \A x \in Runners : run[x].reply.payload \in Nat
  BY Basics, ServingAssumption DEF Artifact, Versions, RequestState, RunState, Reply
<1>u. /\ \A l \in Locators : upstream[l] \in Nat /\ upstream'[l] \in Nat
      /\ \A l \in Locators : upstream[l] <= upstream'[l]
  BY UpstreamGrows
<1>1. \A l \in Locators : artifact'[l].payload <= upstream'[l]
  <2>1. ASSUME NEW r \in Requests, Preview(r)
        PROVE  \A l \in Locators : artifact'[l].payload <= upstream'[l]
    BY <2>1, PreviewData, StoredPublished, Basics DEF PayloadsPublished
  <2>2. ASSUME NEW x \in Runners, Materialize(x)
        PROVE  \A l \in Locators : artifact'[l].payload <= upstream'[l]
    BY <2>2, RunData, StoredPublished DEF PayloadsPublished
  <2>3. CASE Tick
    BY <2>3, AgeingKeepsContents DEF Tick, PayloadsPublished
  <2>4. CASE artifact' = artifact
    BY <2>4, <1>t, <1>u DEF PayloadsPublished
  <2> QED
    BY <2>1, <2>2, <2>3, <2>4
       DEF Next, Publish, CanaryVerdict, Restart, vars, sharedVars
<1>2. ASSUME NEW s \in Requests, request'[s].pc = "answered"
      PROVE  request'[s].reply.payload <= upstream'[LocatorOf[Target(s)']]
  <2>1. CASE Preview(s)
    BY <1>2, <2>1, PreviewAnswer, AnswersArePublished, PreviewData, Basics
  <2>2. CASE request'[s] = request[s]
    <3>1. LocatorOf[Target(s)] \in Locators /\ Target(s)' = Target(s)
      BY <2>2, Basics DEF Target
    <3>2. request[s].reply.payload <= upstream[LocatorOf[Target(s)]]
      BY <1>2, <2>2 DEF PayloadsPublished
    <3> QED
      BY <2>2, <3>1, <3>2, <1>t, <1>u
  <2>3. CASE Restart
    BY <1>2, <2>3 DEF Restart, IdleRequest
  <2> QED
    BY <2>1, <2>2, <2>3, PreviewEffect
       DEF Next, Materialize, Publish, Tick, CanaryVerdict, vars, runVars
<1>3. ASSUME NEW y \in Runners, run'[y].pc = "answered"
      PROVE  run'[y].reply.payload <= upstream'[VisitedLocator(y)']
  <2>1. CASE Materialize(y)
    BY <1>3, <2>1, RunAnswer, AnswersArePublished, RunData
  <2>2. CASE run'[y] = run[y]
    <3>1. VisitedLocator(y) \in Locators /\ VisitedLocator(y)' = VisitedLocator(y)
      BY <1>3, <2>2, VisitedInPlan DEF VisitedLocator, Visited
    <3>2. run[y].reply.payload <= upstream[VisitedLocator(y)]
      BY <1>3, <2>2 DEF PayloadsPublished
    <3> QED
      BY <2>2, <3>1, <3>2, <1>t, <1>u
  <2>3. CASE Restart
    BY <1>3, <2>3 DEF Restart, IdleRun
  <2> QED
    BY <2>1, <2>2, <2>3, RunEffect
       DEF Next, Preview, Publish, Tick, CanaryVerdict, vars, runVars
<1> QED
  BY <1>1, <1>2, <1>3 DEF PayloadsPublished

\* A volume starts empty or restored: whatever it holds is the first publication.
LEMMA InitialArtifacts ==
  ASSUME Init, NEW l \in Locators
  PROVE  /\ artifact[l].payload = 0 /\ upstream[l] = 0
         /\ artifact[l] = NoArtifact \/ artifact[l].present
<1> DEFINE Restored ==
             [present : {TRUE}, usable : BOOLEAN, age : {AgeCap}, payload : {0}]
<1>1. artifact[l] = NoArtifact \/ artifact[l] \in Restored
  BY DEF Init, SharedInit
<1>2. \A a \in Restored : a.present = TRUE /\ a.payload = 0
  OBVIOUS
<1>3. NoArtifact.payload = 0
  BY DEF NoArtifact
<1> HIDE DEF Restored
<1> QED
  BY <1>1, <1>2, <1>3 DEF Init, SharedInit

\* All payloads are among those published, throughout.
LEMMA PublishedHolds == Spec => []PayloadsPublished
<1>1. Init => PayloadsPublished
  <2>1. Init => /\ \A r \in Requests : request[r].pc = "idle"
                /\ \A x \in Runners : run[x].pc = "idle"
    BY DEF Init, PreviewInit, MaterializerInit, IdleRequest, IdleRun
  <2> QED
    BY <2>1, InitialArtifacts DEF PayloadsPublished
<1> QED
  BY <1>1, NextPublished, TypeInvariant, PTL DEF Spec

\* Storing a published payload is the contract's Replace.
LEMMA StoreReplaces ==
  ASSUME TypeInv, NEW l \in Locators, NEW v \in Nat, v <= upstream[l],
         StoreSnapshot(l, v), health' = health, upstream' = upstream
  PROVE  Contract!LocalNext
<1>1. v \in 0..upstream[l]
  BY UpstreamGrows, ServingAssumption
     DEF TypeInv, TypeOK, SharedTypeOK, Versions
<1> QED
  BY <1>1 DEF StoreSnapshot, Contract!LocalNext, Contract!Replace

\* Writing a row is the contract's Judge.
LEMMA UpsertJudges ==
  ASSUME TypeInv, NEW d \in Datasets, NEW s \in {"healthy", "degraded"},
         NEW w \in {"preview", "materialize", "canary"},
         UpsertHealth(d, s, w), artifact' = artifact, upstream' = upstream,
         s = "healthy" /\ w # "canary" => Readable(d)
  PROVE  Contract!LocalNext
<1>1. Contract!Judge(d)
  BY DEF UpsertHealth, Readable, Contract!Judge
<1> QED
  BY <1>1 DEF Contract!LocalNext

\* Every step of the server is a step of the contract, or leaves its data alone.
LEMMA StepRefines ==
  ASSUME TypeInv, ResultMatchesDisk, MaterializedReadable, PayloadsPublished,
         [Next]_vars
  PROVE  Contract!LocalNext \/ UNCHANGED <<artifact, health, upstream>>
<1>b. /\ \A r \in Requests : request[r].reply.payload \in Nat
      /\ \A x \in Runners : run[x].reply.payload \in Nat
  BY Basics, ServingAssumption DEF Versions, RequestState, RunState, Reply
<1>1. ASSUME NEW r \in Requests, Preview(r)
      PROVE  Contract!LocalNext \/ UNCHANGED <<artifact, health, upstream>>
  <2>1. CASE UNCHANGED <<artifact, health, upstream>>
    BY <2>1
  <2>2. CASE artifact' # artifact
    BY <1>1, <1>b, <2>2, PreviewData, StoreReplaces, Basics DEF PayloadsPublished
  <2>3. CASE health' # health
    <3>1. PICK verdict \in {"healthy", "degraded"} :
            UpsertHealth(Target(r), verdict, "preview")
      BY <1>1, <2>3, PreviewData
    <3>2. artifact' = artifact /\ upstream' = upstream
      BY <1>1, <2>3, PreviewData
    <3>3. verdict = "healthy" => Readable(Target(r))
      <4>1. SUFFICES ASSUME verdict = "healthy" PROVE Readable(Target(r))
        OBVIOUS
      <4>2. RecordResult(r)
        BY <1>1, <2>3 DEF Preview, PreviewNext, PreviewStep, Submit, ReadLocal,
           StartFetch, RefuseFetch, PreviewAnswered, ResumeFailed, ResumeWritten,
           FallBack, CancelPreview, sharedVars
      <4>3. health'[Target(r)] # health[Target(r)]
        BY <2>3, <3>1, Basics DEF UpsertHealth
      <4>4. health'[Target(r)].status = "healthy"
        BY <3>1, <4>1, Basics DEF UpsertHealth
      <4> QED
        BY <1>1, <4>3, <4>4, PreviewVerdict, Basics
    <3> QED
      BY <3>1, <3>2, <3>3, UpsertJudges, Basics
  <2> QED
    BY <1>1, <2>1, <2>2, <2>3, PreviewData
<1>2. ASSUME NEW x \in Runners, Materialize(x)
      PROVE  Contract!LocalNext \/ UNCHANGED <<artifact, health, upstream>>
  <2>1. CASE UNCHANGED <<artifact, health, upstream>>
    BY <2>1
  <2>2. CASE artifact' # artifact
    BY <1>2, <1>b, <2>2, RunData, StoreReplaces DEF PayloadsPublished
  <2>3. CASE health' # health
    <3> DEFINE i == run[x].persisted + 1
    <3>1. PICK verdict \in {"healthy", "degraded"} :
            /\ verdict = HealthOfResult(run[x].results[i])
            /\ UpsertHealth(Plan[i], verdict, "materialize")
      BY <1>2, <2>3, RunData
    <3>2. artifact' = artifact /\ upstream' = upstream /\ i \in 1..Len(Plan)
      BY <1>2, <2>3, RunData
    <3> HIDE DEF i
    <3>3. verdict = "healthy" => Readable(Plan[i])
      BY <3>1, <3>2 DEF HealthOfResult, MaterializedReadable
    <3> QED
      BY <3>1, <3>2, <3>3, UpsertJudges, PlanFacts
  <2> QED
    BY <1>2, <2>1, <2>2, <2>3, RunData
<1>3. ASSUME NEW l \in Locators, Publish(l) PROVE Contract!LocalNext
  <2>1. Contract!Publish(l)
    BY <1>3 DEF Publish, Contract!Publish
  <2> QED
    BY <2>1 DEF Contract!LocalNext
<1>4. CASE Tick
  <2>1. artifact' = [l \in Locators |-> [artifact[l] EXCEPT !.age = artifact'[l].age]]
    <3>1. artifact \in [Locators -> Artifact]
      BY Basics
    <3>2. artifact' = [l \in Locators |-> [artifact[l] EXCEPT !.age = Older(artifact[l].age)]]
      BY <1>4 DEF Tick
    <3>3. \A l \in Locators : artifact'[l].age = Older(artifact[l].age)
      BY <3>1, <3>2 DEF Artifact
    <3> QED
      BY <3>2, <3>3
  <2>2. Contract!Age
    BY <1>4, <2>1 DEF Tick, Contract!Age
  <2> QED
    BY <2>2 DEF Contract!LocalNext
<1>5. ASSUME NEW d \in Datasets, CanaryVerdict(d) PROVE Contract!LocalNext
  BY <1>5, UpsertJudges DEF CanaryVerdict
<1>6. CASE Restart
  BY <1>6 DEF Restart
<1>7. CASE UNCHANGED vars
  BY <1>7 DEF vars, sharedVars
<1> QED
  BY <1>1, <1>2, <1>3, <1>4, <1>5, <1>6, <1>7 DEF Next

\* The server implements the local data contract: whatever its coroutines do
\* and wherever it is killed, a reader of its files and rows sees artifacts
\* replaced as a whole by something their source published, and rows made
\* healthy by the server only over a readable artifact.
THEOREM LocalDataImplemented == Spec => ImplementsLocalData
<1>1. Init => Contract!LocalInit /\ MaterializedReadable
  <2>1. Init => Contract!LocalInit
    <3>1. ASSUME Init PROVE \A d \in Datasets : health[d].status = "unknown"
      BY <3>1 DEF Init, SharedInit, SeededHealth
    <3>2. ASSUME Init PROVE upstream = [l \in Locators |-> 0]
      BY <3>2 DEF Init, SharedInit
    <3> QED
      BY <3>1, <3>2, InitialArtifacts DEF NoArtifact, Contract!LocalInit, Contract!NoArtifact
  <2>2. Init => MaterializedReadable
    BY DEF Init, MaterializerInit, MaterializedReadable, IdleRun
  <2> QED BY <2>1, <2>2
<1>2. ASSUME TypeInv, ResultMatchesDisk, MaterializedReadable, PayloadsPublished,
             [Next]_vars
      PROVE  [Contract!LocalNext]_(Contract!dataVars)
  BY <1>2, StepRefines DEF Contract!dataVars
<1> QED
  BY <1>1, <1>2, PublishedHolds, NextMaterializedReadable, ResultsMatchDisk,
     TypeInvariant, PTL DEF Spec, ImplementsLocalData, Contract!LocalSpec
-----------------------------------------------------------------------------
(***************************************************************************)
(* What hot-set runs do. All of it rests on what one run remembers         *)
(* (RunMemory): the outcome of the one fetch of a locator stands for every *)
(* dataset of it, a locator being fetched has no outcome yet, rows are     *)
(* written only once every dataset has been visited, and a run that has    *)
(* not started remembers nothing.                                          *)
(***************************************************************************)

\* The outcomes that a fetch gives.
Fetches == {"materialized", "fetch", "snapshot"}

\* A fetch's outcome recorded for a dataset is the one remembered for its locator.
Remembers(q) ==
  \A i \in 1..Len(Plan) :
    q.results[i] \in Fetches => q.locators[LocatorOf[Plan[i]]] = q.results[i]

\* The locator whose fetch a run awaits has no outcome yet.
Undecided(q) ==
  q.pc \in {"fetching", "answered"} => q.locators[LocatorOf[Plan[q.at]]] = "none"

\* Rows are written when every dataset has been visited.
WritesLast(q) ==
  q.persisted > 0 =>
    q.pc = "select" /\ q.at > IF q.optional THEN Len(Plan) ELSE Len(TierA)

\* A run that has not started has no results.
Blank(q) ==
  q.pc \in {"idle", "waiting"} => \A i \in 1..Len(Plan) : q.results[i] = "none"

RunMemory ==
  \A x \in Runners :
    Remembers(run[x]) /\ Undecided(run[x]) /\ WritesLast(run[x]) /\ Blank(run[x])

\* What concluding the visited dataset does to the rest of a run.
LEMMA ConcludeRest ==
  ASSUME TypeInv, NEW x \in Runners, NEW o,
         NEW q \in {Conclude(x, o), ConcludeLocator(x, o)}
  PROVE  q.pc = "select" /\ q.at = run[x].at + 1 /\ q.persisted = run[x].persisted
<1>1. CASE q = Conclude(x, o)
  BY <1>1, Basics DEF Conclude, RunState
<1>2. CASE q = ConcludeLocator(x, o)
  <2>1. /\ q.pc = Conclude(x, o).pc /\ q.at = Conclude(x, o).at
        /\ q.persisted = Conclude(x, o).persisted
    BY <1>2, Basics DEF ConcludeLocator, Conclude, RunState
  <2> QED
    BY <2>1, Basics DEF Conclude, RunState
<1> QED BY <1>1, <1>2

\* A run that still has a dataset to visit has written no row.
LEMMA NothingWritten ==
  ASSUME TypeInv, NEW x \in Runners, WritesLast(run[x]),
         Selecting(x) \/ run[x].pc \in {"fetching", "answered"}
  PROVE  run[x].persisted = 0
<1>1. run[x].persisted \in Nat /\ run[x].at \in Nat /\ PlanLength(x) \in Nat
  BY Basics, PlanFacts DEF RunState, PlanLength
<1> QED
  BY <1>1 DEF WritesLast, Selecting, PlanLength

\* Concluding with what the locator already has keeps the memory consistent.
LEMMA ConcludeRemembers ==
  ASSUME TypeInv, NEW x \in Runners, NEW o, run[x].at \in 1..Len(Plan),
         Remembers(run[x]),
         o \in Fetches => run[x].locators[VisitedLocator(x)] = o
  PROVE  Remembers(Conclude(x, o))
<1> DEFINE at == run[x].at
           c == Conclude(x, o)
<1>1. run[x].results \in [1..Len(Plan) -> Outcome]
  BY Basics DEF RunState
<1>2. c.results = [run[x].results EXCEPT ![at] = o] /\ c.locators = run[x].locators
  BY ConcludeFields
<1>3. LocatorOf[Plan[at]] = VisitedLocator(x) /\ at \in 1..Len(Plan)
  BY DEF VisitedLocator, Visited
<1> HIDE DEF c, at
<1>4. ASSUME NEW i \in 1..Len(Plan), c.results[i] \in Fetches
      PROVE  c.locators[LocatorOf[Plan[i]]] = c.results[i]
  <2>1. CASE i = at
    BY <2>1, <1>1, <1>2, <1>3, <1>4
  <2>2. CASE i # at
    BY <2>2, <1>1, <1>2, <1>4 DEF Remembers
  <2> QED BY <2>1, <2>2
<1>5. Remembers(c)
  BY <1>4 DEF Remembers
<1> QED
  BY <1>5 DEF c

\* So does giving a locator its first outcome.
LEMMA ConcludeLocatorRemembers ==
  ASSUME TypeInv, NEW x \in Runners, NEW o, run[x].at \in 1..Len(Plan),
         Remembers(run[x]), run[x].locators[VisitedLocator(x)] = "none"
  PROVE  Remembers(ConcludeLocator(x, o))
<1> DEFINE at == run[x].at
           c == ConcludeLocator(x, o)
           v == VisitedLocator(x)
<1>1. /\ run[x].results \in [1..Len(Plan) -> Outcome]
      /\ run[x].locators \in [Locators -> LocatorResult]
      /\ \A i \in 1..Len(Plan) : LocatorOf[Plan[i]] \in Locators
  BY Basics, PlanFacts DEF RunState
<1>2. /\ c.results = [run[x].results EXCEPT ![at] = o]
      /\ c.locators = [run[x].locators EXCEPT ![v] = o]
  BY ConcludeFields
<1>3. LocatorOf[Plan[at]] = v /\ at \in 1..Len(Plan)
  BY DEF VisitedLocator, Visited
<1>n. run[x].locators[v] = "none"
  OBVIOUS
<1> HIDE DEF c, at, v
<1>4. ASSUME NEW i \in 1..Len(Plan), c.results[i] \in Fetches
      PROVE  c.locators[LocatorOf[Plan[i]]] = c.results[i]
  <2>1. CASE i = at
    BY <2>1, <1>1, <1>2, <1>3
  <2>2. CASE i # at
    <3>1. c.results[i] = run[x].results[i]
      BY <2>2, <1>1, <1>2
    <3>2. run[x].locators[LocatorOf[Plan[i]]] = run[x].results[i]
      BY <3>1, <1>4 DEF Remembers
    <3>3. LocatorOf[Plan[i]] # v
      BY <3>1, <3>2, <1>n, <1>4 DEF Fetches
    <3> QED
      BY <3>1, <3>2, <3>3, <1>1, <1>2
  <2> QED BY <2>1, <2>2
<1>5. Remembers(c)
  BY <1>4 DEF Remembers
<1> QED
  BY <1>5 DEF c

\* A run's own steps keep its memory consistent.
LEMMA OwnRunMemory ==
  ASSUME TypeInv, OneRunAtATime, NEW x \in Runners, Materialize(x),
         Remembers(run[x]), Undecided(run[x]), WritesLast(run[x]), Blank(run[x])
  PROVE  /\ Remembers(run'[x]) /\ Undecided(run'[x])
         /\ WritesLast(run'[x]) /\ Blank(run'[x])
<1> DEFINE q == run'[x]
<1>b. run \in [Runners -> RunState] /\ run[x] \in RunState
  BY Basics
<1>s. ASSUME Selecting(x) \/ run[x].pc \in {"fetching", "answered"}
      PROVE  /\ run[x].at \in 1..Len(Plan) /\ run[x].persisted = 0
             /\ \A o : q \in {Conclude(x, o), ConcludeLocator(x, o)} /\ Remembers(q)
                  => Remembers(q) /\ Undecided(q) /\ WritesLast(q) /\ Blank(q)
  <2>1. run[x].at \in 1..Len(Plan) /\ run[x].persisted = 0
    BY <1>s, VisitedInPlan, NothingWritten
  <2> QED
    BY <2>1, ConcludeRest DEF Undecided, WritesLast, Blank
<1>v. VisitedLocator(x) = LocatorOf[Plan[run[x].at]]
  BY DEF VisitedLocator, Visited
<1>1. CASE FinishRun(x) \/ RunRaises(x) \/ CancelRun(x)
  <2>1. q = IdleRun
    BY <1>1, <1>b DEF FinishRun, RunRaises, CancelRun
  <2> QED
    BY <2>1 DEF IdleRun, Remembers, Undecided, WritesLast, Blank, Fetches
<1>2. CASE \E optional \in BOOLEAN : StartRun(x, optional)
  <2>1. PICK optional \in BOOLEAN : StartRun(x, optional)
    BY <1>2
  <2>2. \/ q = [IdleRun EXCEPT !.pc = "select", !.optional = optional]
        \/ q = [IdleRun EXCEPT !.pc = "waiting", !.optional = optional]
    BY <2>1, <1>b DEF StartRun
  <2>3. /\ q.pc \in {"select", "waiting"} /\ q.persisted = 0
        /\ q.results = [i \in 1..Len(Plan) |-> "none"]
    BY <2>2 DEF IdleRun
  <2> QED
    BY <2>3 DEF Remembers, Undecided, WritesLast, Blank, Fetches
<1>3. CASE GrantLock(x)
  <2>1. run[x].pc \in {"idle", "waiting"}
    BY <1>3, <1>b, Basics DEF GrantLock, OneRunAtATime, Active, RunState
  <2>2. q = [run[x] EXCEPT !.pc = "select"]
    BY <1>3, <1>b DEF GrantLock
  <2>3. /\ q.pc = "select" /\ q.results = run[x].results
        /\ q.persisted = run[x].persisted /\ q.locators = run[x].locators
    BY <2>2, <1>b DEF RunState
  <2>4. ~(run[x].persisted > 0)
    BY <2>1 DEF WritesLast
  <2> QED
    BY <2>1, <2>3, <2>4 DEF Remembers, Undecided, WritesLast, Blank
<1>4. CASE LookupFails(x) \/ ReuseFresh(x)
  <2>1. PICK o \in {"lookup", "skipped"} : q = Conclude(x, o)
    BY <1>4, <1>b DEF LookupFails, ReuseFresh
  <2>2. Selecting(x)
    BY <1>4 DEF LookupFails, ReuseFresh
  <2>3. Remembers(q)
    BY <2>1, <2>2, <1>s, ConcludeRemembers DEF Fetches
  <2> QED
    BY <2>1, <2>2, <2>3, <1>s
<1>5. CASE ReuseLocatorResult(x)
  <2>1. q = Conclude(x, run[x].locators[VisitedLocator(x)]) /\ Selecting(x)
    BY <1>5, <1>b DEF ReuseLocatorResult
  <2>2. Remembers(q)
    BY <2>1, <1>s, ConcludeRemembers
  <2> QED
    BY <2>1, <2>2, <1>s
<1>6. CASE CooldownBlocks(x)
  <2>1. PICK o \in {"skipped", "fetch"} : q = ConcludeLocator(x, o)
    BY <1>6, <1>b DEF CooldownBlocks
  <2>2. Selecting(x) /\ run[x].locators[VisitedLocator(x)] = "none"
    BY <1>6 DEF CooldownBlocks
  <2>3. Remembers(q)
    BY <2>1, <2>2, <1>s, ConcludeLocatorRemembers
  <2> QED
    BY <2>1, <2>2, <2>3, <1>s
<1>7. CASE StartRunFetch(x) \/ RunAnswered(x)
  <2>1. /\ q.at = run[x].at /\ q.locators = run[x].locators
        /\ q.results = run[x].results /\ q.persisted = run[x].persisted
        /\ q.pc \in {"fetching", "answered"}
    <3>1. CASE StartRunFetch(x)
      BY <3>1, <1>b DEF StartRunFetch, RunState
    <3>2. CASE RunAnswered(x)
      BY <3>2, <1>b DEF RunAnswered, RunState
    <3> QED BY <1>7, <3>1, <3>2
  <2>2. run[x].locators[LocatorOf[Plan[run[x].at]]] = "none"
    BY <1>7, <1>v DEF StartRunFetch, RunAnswered, Undecided
  <2>3. run[x].persisted = 0
    BY <1>7, <1>s DEF StartRunFetch, RunAnswered
  <2> QED
    BY <2>1, <2>2, <2>3 DEF Remembers, Undecided, WritesLast, Blank
<1>8. CASE ResumeRunFailed(x) \/ ResumeRunWritten(x)
  <2>1. PICK o \in Fetches : q = ConcludeLocator(x, o)
    BY <1>8, <1>b DEF ResumeRunFailed, ResumeRunWritten, Fetches
  <2>2. run[x].pc = "answered" /\ run[x].locators[VisitedLocator(x)] = "none"
    BY <1>8, <1>v DEF ResumeRunFailed, ResumeRunWritten, Undecided
  <2>3. Remembers(q)
    BY <2>1, <2>2, <1>s, ConcludeLocatorRemembers
  <2> QED
    BY <2>1, <2>2, <2>3, <1>s
<1>9. CASE PersistHealth(x)
  <2>1. /\ q.at = run[x].at /\ q.locators = run[x].locators
        /\ q.results = run[x].results /\ q.optional = run[x].optional
        /\ q.pc = run[x].pc
    BY <1>9, <1>b DEF PersistHealth, RunState
  <2>2. q.pc = "select" /\ run[x].at > PlanLength(x)
    BY <1>9, <2>1 DEF PersistHealth, Persisting
  <2> QED
    BY <2>1, <2>2 DEF Remembers, Undecided, WritesLast, Blank, PlanLength
<1> QED
  BY <1>1, <1>2, <1>3, <1>4, <1>5, <1>6, <1>7, <1>8, <1>9
     DEF Materialize, RunNext, RunStep

\* Every step of the server keeps the memories of the runs consistent.
LEMMA NextRunMemory ==
  TypeInv /\ OneRunAtATime /\ RunMemory /\ [Next]_vars => RunMemory'
<1> SUFFICES ASSUME TypeInv, OneRunAtATime, RunMemory, [Next]_vars PROVE RunMemory'
  OBVIOUS
<1>1. ASSUME NEW x \in Runners, Materialize(x) PROVE RunMemory'
  BY <1>1, OwnRunMemory, RunEffect DEF RunMemory
<1>2. CASE Restart
  BY <1>2 DEF Restart, RunMemory, IdleRun, Remembers, Undecided, WritesLast, Blank, Fetches
<1>3. CASE run' = run
  BY <1>3 DEF RunMemory
<1> QED
  BY <1>1, <1>2, <1>3
     DEF Next, Preview, Publish, Tick, CanaryVerdict, vars, runVars

\* The memories of the runs are consistent throughout.
LEMMA RunMemoryHolds == Spec => []RunMemory
<1>1. Init => RunMemory
  BY DEF Init, MaterializerInit, RunMemory, IdleRun, Remembers, Undecided,
     WritesLast, Blank, Fetches
<1> QED
  BY <1>1, NextRunMemory, MutualExclusion, TypeInvariant, PTL DEF Spec

\* Datasets of one locator share one fetch in a run (locator_results): it is
\* never a success for one of them and a failure for another.
THEOREM SharedLocatorsAgree == Spec => []SharedLocatorAgrees
<1>1. RunMemory => SharedLocatorAgrees
  BY DEF RunMemory, Remembers, Fetches, SharedLocatorAgrees
<1> QED
  BY <1>1, RunMemoryHolds, PTL
-----------------------------------------------------------------------------
\* The rows that a run has written are in the registry, unless the canary's
\* process has replaced them.
Recorded(q, rows) ==
  \A i \in 1..q.persisted :
    LET verdict == HealthOfResult(q.results[i])
    IN  verdict # "none" =>
          rows[Plan[i]] \in {[status |-> verdict, by |-> "materialize"]}
                              \cup [status : HealthStatus, by : {"canary"}]

RowsRecorded == \A x \in Runners : Recorded(run[x], health)

\* Writing the next row keeps the rows before it: a plan names a dataset once.
LEMMA NextRowRecorded ==
  ASSUME TypeInv, NEW x \in Runners, PersistHealth(x), Recorded(run[x], health)
  PROVE  Recorded(run'[x], health')
<1> DEFINE n == run[x].persisted + 1
           verdict == HealthOfResult(run[x].results[n])
<1>1. /\ n \in 1..Len(Plan) /\ run[x].persisted \in Nat
      /\ \A i \in 1..n : i \in 1..Len(Plan) /\ (i # n => i \in 1..run[x].persisted)
  BY Basics, PlanFacts DEF PersistHealth, PlanLength, RunState
<1>2. run'[x].persisted = n /\ run'[x].results = run[x].results
  BY Basics DEF PersistHealth, RunState
<1>3. health \in [Datasets -> HealthRow] /\ \A i \in 1..Len(Plan) : Plan[i] \in Datasets
  BY Basics, PlanFacts
<1>4. IF verdict = "none" THEN health' = health
      ELSE UpsertHealth(Plan[n], verdict, "materialize")
  BY DEF PersistHealth
<1>5. \A i \in 1..Len(Plan) : i # n => health'[Plan[i]] = health[Plan[i]]
  BY <1>1, <1>3, <1>4, MaterializerAssumption DEF UpsertHealth
<1>6. verdict # "none" => health'[Plan[n]] = [status |-> verdict, by |-> "materialize"]
  BY <1>1, <1>3, <1>4 DEF UpsertHealth
<1> HIDE DEF n
<1>7. ASSUME NEW i \in 1..n, HealthOfResult(run[x].results[i]) # "none"
      PROVE  health'[Plan[i]]
               \in {[status |-> HealthOfResult(run[x].results[i]), by |-> "materialize"]}
                     \cup [status : HealthStatus, by : {"canary"}]
  <2>1. CASE i = n
    BY <2>1, <1>6, <1>7
  <2>2. CASE i # n
    BY <2>2, <1>1, <1>5, <1>7 DEF Recorded
  <2> QED BY <2>1, <2>2
<1> QED
  BY <1>2, <1>7 DEF Recorded

\* The other steps of a run write no row and change no result behind one.
LEMMA OwnRowsKept ==
  ASSUME TypeInv, NEW x \in Runners, WritesLast(run[x]), Materialize(x),
         ~PersistHealth(x)
  PROVE  \/ run'[x].persisted = 0
         \/ /\ run'[x].persisted = run[x].persisted
            /\ run'[x].results = run[x].results
<1>b. run \in [Runners -> RunState] /\ run[x] \in RunState
  BY Basics
<1>1. CASE FinishRun(x) \/ RunRaises(x) \/ CancelRun(x)
  BY <1>1, <1>b DEF FinishRun, RunRaises, CancelRun, IdleRun
<1>2. CASE \E optional \in BOOLEAN : StartRun(x, optional)
  <2>1. PICK optional \in BOOLEAN : StartRun(x, optional)
    BY <1>2
  <2>2. \/ run'[x] = [IdleRun EXCEPT !.pc = "select", !.optional = optional]
        \/ run'[x] = [IdleRun EXCEPT !.pc = "waiting", !.optional = optional]
    BY <2>1, <1>b DEF StartRun
  <2> QED
    BY <2>2 DEF IdleRun
<1>3. CASE GrantLock(x) \/ StartRunFetch(x) \/ RunAnswered(x)
  <2>1. \/ run'[x] = [run[x] EXCEPT !.pc = "select"]
        \/ run'[x] = [run[x] EXCEPT !.pc = "fetching"]
        \/ \E reply \in Reply \cup Replies(VisitedLocator(x)) :
             run'[x] = [run[x] EXCEPT !.pc = "answered", !.reply = reply]
    BY <1>3, <1>b DEF GrantLock, StartRunFetch, RunAnswered
  <2> QED
    BY <2>1, <1>b DEF RunState
<1>4. CASE \/ LookupFails(x) \/ ReuseFresh(x) \/ ReuseLocatorResult(x)
           \/ CooldownBlocks(x) \/ ResumeRunFailed(x) \/ ResumeRunWritten(x)
  <2>1. \E o : run'[x] \in {Conclude(x, o), ConcludeLocator(x, o)}
    BY <1>4, <1>b DEF LookupFails, ReuseFresh, ReuseLocatorResult, CooldownBlocks,
       ResumeRunFailed, ResumeRunWritten
  <2>2. run[x].persisted = 0
    BY <1>4, NothingWritten DEF LookupFails, ReuseFresh, ReuseLocatorResult,
       CooldownBlocks, ResumeRunFailed, ResumeRunWritten
  <2> QED
    BY <2>1, <2>2, ConcludeRest
<1> QED
  BY <1>1, <1>2, <1>3, <1>4 DEF Materialize, RunNext, RunStep

\* Every step of the server keeps the rows that the runs have written.
LEMMA NextRowsRecorded ==
  TypeInv /\ LoopOwner /\ RunMemory /\ RowsRecorded /\ [Next]_vars => RowsRecorded'
<1> SUFFICES ASSUME TypeInv, LoopOwner, RunMemory, [Next]_vars,
                    NEW y \in Runners, Recorded(run[y], health)
             PROVE  Recorded(run'[y], health')
  BY DEF RowsRecorded
<1>1. run[y].persisted = 0 \/ onLoop = y
  BY Basics DEF RunMemory, WritesLast, LoopOwner, RunState
<1>2. ASSUME run'[y].persisted = 0 PROVE Recorded(run'[y], health')
  BY <1>2 DEF Recorded
<1>3. ASSUME run'[y] = run[y], \/ health' = health \/ onLoop # y
      PROVE  Recorded(run'[y], health')
  BY <1>1, <1>2, <1>3
<1>4. ASSUME NEW x \in Runners, Materialize(x) PROVE Recorded(run'[y], health')
  <2>1. CASE x = y /\ PersistHealth(x)
    BY <2>1, NextRowRecorded
  <2>2. CASE x = y /\ ~PersistHealth(x)
    <3>1. health' = health
      BY <1>4, <2>2 DEF Materialize, RunNext, RunStep, StartRun, GrantLock,
         LookupFails, ReuseFresh, ReuseLocatorResult, CooldownBlocks, StartRunFetch,
         RunAnswered, ResumeRunFailed, ResumeRunWritten, FinishRun, RunRaises,
         CancelRun, sharedVars
    <3> QED
      BY <1>4, <2>2, <3>1, OwnRowsKept, <1>2 DEF RunMemory, Recorded
  <2>3. CASE x # y
    <3>1. run'[y] = run[y]
      BY <1>4, <2>3, RunEffect
    <3>2. health' = health \/ onLoop = x
      BY <1>4 DEF Materialize, RunNext, RunStep, StartRun, GrantLock,
         LookupFails, ReuseFresh, ReuseLocatorResult, CooldownBlocks, StartRunFetch,
         RunAnswered, ResumeRunFailed, ResumeRunWritten, PersistHealth, Persisting,
         FinishRun, RunRaises, CancelRun, sharedVars
    <3> QED
      BY <2>3, <3>1, <3>2, <1>3
  <2> QED BY <2>1, <2>2, <2>3
<1>5. ASSUME NEW r \in Requests, Preview(r) PROVE Recorded(run'[y], health')
  <2>1. health' = health \/ onLoop = r
    BY <1>5 DEF Preview, PreviewNext, PreviewStep, Submit, ReadLocal, StartFetch,
       RefuseFetch, PreviewAnswered, ResumeFailed, ResumeWritten, FallBack,
       RecordResult, CancelPreview, sharedVars
  <2> QED
    BY <1>5, <2>1, <1>3, PreviewEffect, Basics
<1>6. ASSUME NEW d \in Datasets, CanaryVerdict(d) PROVE Recorded(run'[y], health')
  <2>1. PICK verdict \in {"healthy", "degraded"} : UpsertHealth(d, verdict, "canary")
    BY <1>6 DEF CanaryVerdict
  <2>2. \A e \in Datasets : \/ health'[e] = health[e]
                            \/ health'[e] \in [status : HealthStatus, by : {"canary"}]
    BY <2>1, Basics DEF UpsertHealth, HealthStatus
  <2>3. run'[y] = run[y] /\ \A i \in 1..run[y].persisted : Plan[i] \in Datasets
    BY <1>6, Basics, PlanFacts DEF CanaryVerdict, runVars, RunState
  <2> QED
    BY <2>2, <2>3 DEF Recorded
<1>7. CASE Restart
  BY <1>7, <1>2 DEF Restart, IdleRun
<1>8. CASE UNCHANGED <<run, health>>
  BY <1>8
<1> QED
  BY <1>4, <1>5, <1>6, <1>7, <1>8
     DEF Next, Publish, Tick, vars, sharedVars, runVars

\* Health rows a run has written are still there when it returns
\* (_persist_materialization_health_outcomes): no preview and no other run
\* slips a verdict between them, only the canary's process can.
THEOREM VerdictsStand == Spec => []RecordedVerdictsStand
<1>1. Init => RowsRecorded
  BY DEF Init, MaterializerInit, RowsRecorded, Recorded, IdleRun
<1>2. Spec => []RowsRecorded
  BY <1>1, NextRowsRecorded, RunMemoryHolds, LoopOwnership, TypeInvariant, PTL DEF Spec
<1>3. RowsRecorded => RecordedVerdictsStand
  BY DEF RowsRecorded, Recorded, RecordedVerdictsStand
<1> QED
  BY <1>2, <1>3, PTL
-----------------------------------------------------------------------------
\* The source has been left alone for as long as the process remembers.
MemoryIsTrue == attemptAge = sourceQuiet

\* A run goes from selecting to fetching in one way only.
LEMMA OnlyStartSends ==
  ASSUME TypeInv, NEW x \in Runners, Materialize(x),
         run[x].pc = "select", run'[x].pc = "fetching"
  PROVE  StartRunFetch(x)
<1>b. run \in [Runners -> RunState] /\ run[x] \in RunState
  BY Basics
<1>1. CASE \/ LookupFails(x) \/ ReuseFresh(x) \/ ReuseLocatorResult(x)
           \/ CooldownBlocks(x) \/ ResumeRunFailed(x) \/ ResumeRunWritten(x)
  <2>1. \E o : run'[x] \in {Conclude(x, o), ConcludeLocator(x, o)}
    BY <1>1, <1>b DEF LookupFails, ReuseFresh, ReuseLocatorResult, CooldownBlocks,
       ResumeRunFailed, ResumeRunWritten
  <2> QED
    BY <2>1, ConcludeRest
<1>2. CASE \/ (\E optional \in BOOLEAN : StartRun(x, optional)) \/ RunAnswered(x)
  BY <1>2 DEF StartRun, RunAnswered
<1>3. CASE GrantLock(x)
  BY <1>3, <1>b DEF GrantLock, RunState
<1>4. CASE PersistHealth(x)
  BY <1>4, <1>b DEF PersistHealth, RunState
<1>5. CASE FinishRun(x) \/ RunRaises(x) \/ CancelRun(x)
  BY <1>5, <1>b DEF FinishRun, RunRaises, CancelRun, IdleRun
<1> QED
  BY <1>1, <1>2, <1>3, <1>4, <1>5 DEF Materialize, RunNext, RunStep

\* Sending a fetch is what the process remembers, and all it remembers.
LEMMA AttemptsRemembered ==
  ASSUME TypeInv, NEW x \in Runners, Materialize(x), MemoryIsTrue
  PROVE  MemoryIsTrue'
<1>t. attemptAge \in [Locators -> Ages] /\ run \in [Runners -> RunState]
  BY DEF TypeInv, TypeOK, MaterializerTypeOK
<1>1. sourceQuiet' = [l \in Locators |->
                        IF SendsFetch(x, l) THEN 0 ELSE attemptAge[l]]
  BY DEF Materialize, MemoryIsTrue
<1>2. CASE StartRunFetch(x)
  <2>1. run[x].pc = "select" /\ run'[x].pc = "fetching"
    BY <1>2, <1>t DEF StartRunFetch, Selecting, RunState
  <2>2. attemptAge' = [attemptAge EXCEPT ![VisitedLocator(x)] = 0]
    BY <1>2 DEF StartRunFetch
  <2>3. VisitedLocator(x) \in Locators
    BY <1>2, VisitedInPlan DEF StartRunFetch
  <2>4. attemptAge' = [l \in Locators |->
                         IF VisitedLocator(x) = l THEN 0 ELSE attemptAge[l]]
    BY <2>2, <2>3, <1>t
  <2> QED
    BY <2>1, <2>4, <1>1 DEF SendsFetch, MemoryIsTrue
<1>3. CASE ~StartRunFetch(x)
  <2>1. attemptAge' = attemptAge
    BY <1>3 DEF Materialize, RunNext, RunStep, StartRun, GrantLock, LookupFails,
       ReuseFresh, ReuseLocatorResult, CooldownBlocks, RunAnswered,
       ResumeRunFailed, ResumeRunWritten, PersistHealth, FinishRun, RunRaises,
       CancelRun, sharedVars
  <2>2. \A l \in Locators : ~SendsFetch(x, l)
    BY <1>3, OnlyStartSends DEF SendsFetch
  <2>3. sourceQuiet' = [l \in Locators |-> attemptAge[l]]
    BY <2>2, <1>1
  <2> QED
    BY <2>1, <2>3, <1>t DEF MemoryIsTrue
<1> QED BY <1>2, <1>3

\* What the process remembers stays true.
LEMMA NextMemoryIsTrue == TypeInv /\ MemoryIsTrue /\ [Next]_vars => MemoryIsTrue'
<1> SUFFICES ASSUME TypeInv, MemoryIsTrue, [Next]_vars PROVE MemoryIsTrue'
  OBVIOUS
<1>1. ASSUME NEW x \in Runners, Materialize(x) PROVE MemoryIsTrue'
  BY <1>1, AttemptsRemembered
<1>2. CASE Tick
  BY <1>2 DEF Tick, MemoryIsTrue
<1>3. CASE Restart
  BY <1>3 DEF Restart, MemoryIsTrue
<1>4. CASE UNCHANGED <<attemptAge, sourceQuiet>>
  BY <1>4 DEF MemoryIsTrue
<1> QED
  BY <1>1, <1>2, <1>3, <1>4
     DEF Next, Preview, Publish, CanaryVerdict, vars, runVars

\* No whole second of cooldown is left only in its last second.
LEMMA CooldownOver ==
  ASSUME TypeInv, NEW l \in Locators, CooldownRemaining(l) = 0
  PROVE  attemptAge[l] > (Cooldown - 1) * TicksPerSecond
<1> DEFINE span == Cooldown * TicksPerSecond
           a == attemptAge[l]
<1>1. /\ Cooldown \in Nat /\ TicksPerSecond \in Nat /\ TicksPerSecond > 0
      /\ span \in Nat /\ a \in Nat
  BY MaterializerAssumption, ServingAssumption DEF TypeInv, TypeOK, MaterializerTypeOK, Ages
<1>2. (Cooldown - 1) * TicksPerSecond = span - TicksPerSecond
  BY <1>1
<1>3. span - a <= 0 \/ (span - a) \div TicksPerSecond = 0
  BY DEF CooldownRemaining
<1> HIDE DEF span, a
<1>4. CASE span - a <= 0
  BY <1>1, <1>2, <1>4 DEF a
<1>5. CASE span - a > 0 /\ (span - a) \div TicksPerSecond = 0
  <2>1. span - a \in Nat
    BY <1>1, <1>5
  <2>2. span - a < TicksPerSecond
    BY <1>1, <1>5, <2>1
  <2> QED
    BY <1>1, <1>2, <2>2 DEF a
<1> QED
  BY <1>1, <1>3, <1>4, <1>5

\* Within the life of a process no run asks a source again before the cooldown
\* has passed, but for its last second (_last_source_locator_attempt_at): the
\* attempt is remembered before the fetch is awaited, so it does not matter how
\* the fetch or the run ends.
THEOREM SourcesAreSpaced == Spec => CooldownSpacing
<1>1. Init => MemoryIsTrue
  BY DEF Init, MaterializerInit, MemoryIsTrue
<1>2. ASSUME TypeInv, MemoryIsTrue, [Next]_vars,
             NEW x \in Runners, NEW l \in Locators, SendsFetch(x, l)
      PROVE  sourceQuiet[l] > (Cooldown - 1) * TicksPerSecond
  <2>1. run[x].pc = "select" /\ run'[x].pc = "fetching"
    BY <1>2 DEF SendsFetch
  <2>2. ASSUME NEW y \in Runners, Materialize(y) PROVE Materialize(x)
    BY <1>2, <2>1, <2>2, RunEffect
  <2>3. Materialize(x)
    <3>1. CASE Restart
      BY <2>1, <3>1 DEF Restart, IdleRun
    <3>2. run' # run
      BY <2>1
    <3> QED
      BY <1>2, <2>2, <3>1, <3>2
         DEF Next, Preview, Publish, Tick, CanaryVerdict, vars, runVars
  <2>4. StartRunFetch(x)
    BY <1>2, <2>1, <2>3, OnlyStartSends
  <2>5. CooldownRemaining(l) = 0
    BY <1>2, <2>4 DEF StartRunFetch, SendsFetch
  <2> QED
    BY <1>2, <2>5, CooldownOver DEF MemoryIsTrue
<1>3. ASSUME TypeInv, MemoryIsTrue, [Next]_vars
      PROVE  [\A x \in Runners, l \in Locators :
                SendsFetch(x, l) => sourceQuiet[l] > (Cooldown - 1) * TicksPerSecond]_vars
  BY <1>2, <1>3
<1> QED
  BY <1>1, <1>3, NextMemoryIsTrue, TypeInvariant, PTL DEF Spec, CooldownSpacing
-----------------------------------------------------------------------------
(***************************************************************************)
(* Runs alone.  What follows holds of a process that serves no preview     *)
(* while runs fetch (Requests = {}); with previews it is false, as a       *)
(* preview takes no lock.                                                  *)
(***************************************************************************)

\* Two runs never await a fetch, or select, at the same time.
LEMMA OneActive ==
  ASSUME OneRunAtATime, NEW x \in Runners, NEW y \in Runners, Active(x), Active(y)
  PROVE  x = y
  BY DEF OneRunAtATime

\* What a run's fetch brought is not older than the artifact it will replace.
AnswersAreNewer ==
  \A x \in Runners :
    (run[x].pc = "answered" /\ run[x].reply.kind = "payload") =>
      artifact[VisitedLocator(x)].payload <= run[x].reply.payload

\* Every step of runs alone keeps it.
LEMMA NextAnswersAreNewer ==
  ASSUME Requests = {}, TypeInv, OneRunAtATime, PayloadsPublished,
         AnswersAreNewer, [Next]_vars
  PROVE  AnswersAreNewer'
<1> SUFFICES ASSUME NEW y \in Runners, run'[y].pc = "answered",
                    run'[y].reply.kind = "payload"
             PROVE  artifact'[VisitedLocator(y)'].payload <= run'[y].reply.payload
  BY DEF AnswersAreNewer
<1>1. CASE Materialize(y)
  <2>1. /\ VisitedLocator(y) \in Locators /\ VisitedLocator(y)' = VisitedLocator(y)
        /\ run'[y].reply \in Replies(VisitedLocator(y)) /\ RunAnswered(y)
    BY <1>1, RunAnswer
  <2>2. run'[y].reply.payload = upstream[VisitedLocator(y)] /\ artifact' = artifact
    BY <2>1 DEF RunAnswered, Replies, FetchError, Fetched, sharedVars
  <2> QED
    BY <2>1, <2>2 DEF PayloadsPublished
<1>2. CASE run'[y] = run[y]
  <2>1. VisitedLocator(y)' = VisitedLocator(y) /\ VisitedLocator(y) \in Locators
    BY <1>2, VisitedInPlan DEF VisitedLocator, Visited
  <2>2. artifact[VisitedLocator(y)].payload <= run'[y].reply.payload
    BY <1>2 DEF AnswersAreNewer
  <2>3. ASSUME NEW x \in Runners, x # y, Materialize(x) PROVE artifact' = artifact
    BY <1>2, <2>3, RunData, OneActive DEF Active
  <2>4. artifact'[VisitedLocator(y)].payload = artifact[VisitedLocator(y)].payload
    <3>1. CASE Tick
      BY <2>1, <3>1, AgeingKeepsContents
    <3>2. CASE Materialize(y)
      BY <1>1, <1>2, <3>2, RunAnswer DEF RunAnswered, sharedVars
    <3>3. CASE artifact' = artifact
      BY <3>3
    <3> QED
      BY <2>3, <3>1, <3>2, <3>3
         DEF Next, Publish, CanaryVerdict, Restart, vars, sharedVars
  <2> QED
    BY <2>1, <2>2, <2>4
<1>3. CASE Restart
  BY <1>3 DEF Restart, IdleRun
<1> QED
  BY <1>1, <1>2, <1>3, RunEffect
     DEF Next, Publish, Tick, CanaryVerdict, vars, runVars

\* Runs alone never replace a snapshot by an older publication: the run lock
\* keeps their fetches apart (write_snapshot at the end of a fetch that began
\* after the previous run had ended).
THEOREM RunsOnlyAdvance ==
  ASSUME Requests = {} PROVE Spec => RunsNeverRegress
<1>1. Init => AnswersAreNewer
  BY DEF Init, MaterializerInit, AnswersAreNewer, IdleRun
<1>2. TypeInv /\ OneRunAtATime /\ PayloadsPublished /\ AnswersAreNewer /\ [Next]_vars
        => AnswersAreNewer'
  BY NextAnswersAreNewer
<1>3. ASSUME TypeInv, AnswersAreNewer, Next, NEW l \in Locators
      PROVE  artifact'[l].payload >= artifact[l].payload
  <2>1. artifact[l].payload \in Int
    BY Basics, ServingAssumption DEF Artifact, Versions
  <2>2. ASSUME NEW x \in Runners, Materialize(x), artifact' # artifact
        PROVE  artifact'[l].payload >= artifact[l].payload
    <3>1. /\ run[x].pc = "answered" /\ run[x].reply.kind = "payload"
          /\ VisitedLocator(x) \in Locators
          /\ StoreSnapshot(VisitedLocator(x), run[x].reply.payload)
      BY <1>3, <2>2, RunData
    <3>2. /\ artifact'[VisitedLocator(x)].payload = run[x].reply.payload
          /\ \A k \in Locators \ {VisitedLocator(x)} : artifact'[k] = artifact[k]
      BY <1>3, <3>1, Stored
    <3>3. artifact[VisitedLocator(x)].payload <= run[x].reply.payload
      BY <1>3, <3>1 DEF AnswersAreNewer
    <3>4. artifact[VisitedLocator(x)].payload \in Int /\ run[x].reply.payload \in Int
      BY <1>3, <3>1, Basics, ServingAssumption DEF Artifact, Versions, RunState, Reply
    <3> QED
      BY <2>1, <3>2, <3>3, <3>4
  <2>3. CASE Tick
    BY <1>3, <2>1, <2>3, AgeingKeepsContents
  <2>4. CASE artifact' = artifact
    BY <2>1, <2>4
  <2> QED
    BY <1>3, <2>2, <2>3, <2>4
       DEF Next, Publish, CanaryVerdict, Restart, vars, sharedVars
<1>4. ASSUME TypeInv, AnswersAreNewer
      PROVE  [Next]_vars =>
               [\A l \in Locators :
                  artifact[l].present => artifact'[l].payload >= artifact[l].payload]_vars
  BY <1>3, <1>4
<1> QED
  BY <1>1, <1>2, <1>4, PublishedHolds, MutualExclusion, TypeInvariant, PTL
     DEF Spec, RunsNeverRegress
-----------------------------------------------------------------------------
\* The datasets that are fresh now.
FreshNow == {d \in Datasets : Fresh(d)}

\* A run has failed, and awaits a fetch, only for datasets that are not fresh.
FailsUnfresh(q, fresh) ==
  /\ \A i \in 1..Len(Plan) :
       q.results[i] \in {"fetch", "snapshot"} => Plan[i] \notin fresh
  /\ q.pc \in {"fetching", "answered"} => Plan[q.at] \notin fresh

FailuresAreUnfresh == \A x \in Runners : FailsUnfresh(run[x], FreshNow)

\* Time makes nothing fresh.
LEMMA AgeingRefreshesNothing ==
  ASSUME TypeInv, Tick PROVE FreshNow' \subseteq FreshNow
<1> SUFFICES ASSUME NEW d \in Datasets, Fresh(d)' PROVE Fresh(d)
  BY DEF FreshNow
<1> DEFINE l == LocatorOf[d]
<1>1. l \in Locators /\ artifact[l] \in Artifact /\ Window[d] \in Int
  BY Basics, ServingAssumption
<1>2. artifact'[l] = [artifact[l] EXCEPT !.age = Older(artifact[l].age)]
  BY <1>1 DEF Tick
<1>3. /\ artifact'[l].present = artifact[l].present
      /\ artifact'[l].age = Older(artifact[l].age)
      /\ artifact[l].age \in Int /\ artifact[l].present \in BOOLEAN
  BY <1>1, <1>2, ServingAssumption DEF Artifact, Ages
<1>4. Older(artifact[l].age) \in Int /\ artifact[l].age <= Older(artifact[l].age)
  BY <1>3, ServingAssumption DEF Older
<1>5. artifact'[l].present /\ d \notin Unwindowed /\ artifact'[l].age <= Window[d]
  BY DEF Fresh, FreshnessOf
<1>6. artifact[l].present /\ d \notin Unwindowed /\ artifact[l].age <= Window[d]
  BY <1>1, <1>3, <1>4, <1>5
<1> QED
  BY <1>6 DEF Fresh, FreshnessOf

\* Concluding with a failure is for a dataset that is not fresh.
LEMMA ConcludeUnfresh ==
  ASSUME TypeInv, NEW x \in Runners, NEW o, run[x].at \in 1..Len(Plan), NEW fresh,
         FailsUnfresh(run[x], fresh),
         o \in {"fetch", "snapshot"} => Visited(x) \notin fresh,
         NEW q \in {Conclude(x, o), ConcludeLocator(x, o)}
  PROVE  FailsUnfresh(q, fresh)
<1>1. run[x].results \in [1..Len(Plan) -> Outcome]
  BY Basics DEF RunState
<1>2. q.results = [run[x].results EXCEPT ![run[x].at] = o]
  <2>1. CASE q = Conclude(x, o)
    BY <2>1, ConcludeFields
  <2>2. CASE q = ConcludeLocator(x, o)
    BY <2>2, ConcludeFields
  <2> QED BY <2>1, <2>2
<1>3. q.pc = "select"
  BY ConcludeRest
<1>4. ASSUME NEW i \in 1..Len(Plan), q.results[i] \in {"fetch", "snapshot"}
      PROVE  Plan[i] \notin fresh
  <2>1. CASE i = run[x].at
    BY <2>1, <1>1, <1>2, <1>4 DEF Visited
  <2>2. CASE i # run[x].at
    BY <2>2, <1>1, <1>2, <1>4 DEF FailsUnfresh
  <2> QED BY <2>1, <2>2
<1> QED
  BY <1>3, <1>4 DEF FailsUnfresh

\* A run's own steps that write no snapshot fail only for what is not fresh.
LEMMA OwnFailuresUnfresh ==
  ASSUME TypeInv, NEW x \in Runners, Materialize(x), artifact' = artifact,
         FailsUnfresh(run[x], FreshNow)
  PROVE  FailsUnfresh(run'[x], FreshNow)
<1>b. run \in [Runners -> RunState] /\ run[x] \in RunState
  BY Basics
<1>v. NeedsRefresh(x) => Visited(x) \notin FreshNow
  BY DEF NeedsRefresh, FreshNow, Fresh
<1>1. CASE FinishRun(x) \/ RunRaises(x) \/ CancelRun(x)
  <2>1. run'[x] = IdleRun
    BY <1>1, <1>b DEF FinishRun, RunRaises, CancelRun
  <2> QED
    BY <2>1 DEF IdleRun, FailsUnfresh
<1>2. CASE \E optional \in BOOLEAN : StartRun(x, optional)
  <2>1. PICK optional \in BOOLEAN : StartRun(x, optional)
    BY <1>2
  <2>2. \/ run'[x] = [IdleRun EXCEPT !.pc = "select", !.optional = optional]
        \/ run'[x] = [IdleRun EXCEPT !.pc = "waiting", !.optional = optional]
    BY <2>1, <1>b DEF StartRun
  <2>3. /\ run'[x].pc \in {"select", "waiting"}
        /\ run'[x].results = [i \in 1..Len(Plan) |-> "none"]
    BY <2>2 DEF IdleRun
  <2> QED
    BY <2>3 DEF FailsUnfresh
<1>3. CASE GrantLock(x) \/ PersistHealth(x)
  <2>1. run'[x].pc = "select" /\ run'[x].results = run[x].results
    <3>1. CASE GrantLock(x)
      BY <3>1, <1>b DEF GrantLock, RunState
    <3>2. CASE PersistHealth(x)
      BY <3>2, <1>b DEF PersistHealth, Persisting, RunState
    <3> QED BY <1>3, <3>1, <3>2
  <2> QED
    BY <2>1 DEF FailsUnfresh
<1>4. CASE LookupFails(x) \/ ReuseFresh(x)
  <2>1. PICK o \in {"lookup", "skipped"} : run'[x] = Conclude(x, o)
    BY <1>4, <1>b DEF LookupFails, ReuseFresh
  <2>2. run[x].at \in 1..Len(Plan)
    BY <1>4, VisitedInPlan DEF LookupFails, ReuseFresh
  <2> QED
    BY <2>1, <2>2, ConcludeUnfresh
<1>5. CASE ReuseLocatorResult(x) \/ CooldownBlocks(x)
  <2>1. PICK o : run'[x] \in {Conclude(x, o), ConcludeLocator(x, o)}
    BY <1>5, <1>b DEF ReuseLocatorResult, CooldownBlocks
  <2>2. run[x].at \in 1..Len(Plan) /\ Visited(x) \notin FreshNow
    BY <1>5, <1>v, VisitedInPlan DEF ReuseLocatorResult, CooldownBlocks
  <2> QED
    BY <2>1, <2>2, ConcludeUnfresh
<1>6. CASE StartRunFetch(x) \/ RunAnswered(x)
  <2>1. run'[x].at = run[x].at /\ run'[x].results = run[x].results
    <3>1. CASE StartRunFetch(x)
      BY <3>1, <1>b DEF StartRunFetch, RunState
    <3>2. CASE RunAnswered(x)
      BY <3>2, <1>b DEF RunAnswered, RunState
    <3> QED BY <1>6, <3>1, <3>2
  <2>2. Plan[run[x].at] \notin FreshNow
    BY <1>6, <1>v DEF StartRunFetch, RunAnswered, FailsUnfresh, Visited
  <2> QED
    BY <2>1, <2>2 DEF FailsUnfresh
<1>7. CASE ResumeRunFailed(x) \/ ResumeRunWritten(x)
  <2>1. PICK o : run'[x] \in {Conclude(x, o), ConcludeLocator(x, o)}
    BY <1>7, <1>b DEF ResumeRunFailed, ResumeRunWritten
  <2>2. run[x].at \in 1..Len(Plan) /\ Visited(x) \notin FreshNow
    BY <1>7, VisitedInPlan DEF ResumeRunFailed, ResumeRunWritten, FailsUnfresh, Visited
  <2> QED
    BY <2>1, <2>2, ConcludeUnfresh
<1> QED
  BY <1>1, <1>2, <1>3, <1>4, <1>5, <1>6, <1>7 DEF Materialize, RunNext, RunStep

\* A run that writes a snapshot makes no dataset fresh that it has failed: a
\* locator being fetched has no outcome yet.
LEMMA WritingFreshensNoFailure ==
  ASSUME TypeInv, RunMemory, NEW x \in Runners, Materialize(x), artifact' # artifact,
         FailsUnfresh(run[x], FreshNow)
  PROVE  FailsUnfresh(run'[x], FreshNow')
<1> DEFINE v == VisitedLocator(x)
<1>1. /\ run[x].pc = "answered" /\ v \in Locators
      /\ run' = [run EXCEPT ![x] = ConcludeLocator(x, "materialized")]
      /\ StoreSnapshot(v, run[x].reply.payload)
  BY RunData
<1>2. /\ run[x].at \in 1..Len(Plan) /\ v = LocatorOf[Plan[run[x].at]]
      /\ run[x].locators[v] = "none"
  BY <1>1, VisitedInPlan DEF RunMemory, Undecided, VisitedLocator, Visited
<1>3. \A d \in Datasets : LocatorOf[d] # v => (d \in FreshNow' <=> d \in FreshNow)
  <2>1. ASSUME NEW d \in Datasets, LocatorOf[d] # v
        PROVE  artifact'[LocatorOf[d]] = artifact[LocatorOf[d]]
    BY <1>1, <2>1, Stored, Basics
  <2> QED
    BY <2>1 DEF FreshNow, Fresh, FreshnessOf
<1>4. /\ run'[x].results = [run[x].results EXCEPT ![run[x].at] = "materialized"]
      /\ run'[x].pc = "select" /\ run[x].results \in [1..Len(Plan) -> Outcome]
  BY <1>1, <1>2, ConcludeFields, ConcludePc, Basics DEF RunState
<1> HIDE DEF v
<1>5. ASSUME NEW i \in 1..Len(Plan), run'[x].results[i] \in {"fetch", "snapshot"}
      PROVE  Plan[i] \notin FreshNow'
  <2>1. i # run[x].at /\ run[x].results[i] = run'[x].results[i]
    BY <1>4, <1>5
  <2>2. run[x].locators[LocatorOf[Plan[i]]] = run[x].results[i]
    BY <1>5, <2>1 DEF RunMemory, Remembers, Fetches
  <2>3. LocatorOf[Plan[i]] # v
    BY <1>2, <1>5, <2>1, <2>2
  <2>4. Plan[i] \notin FreshNow
    BY <1>5, <2>1 DEF FailsUnfresh
  <2> QED
    BY <1>3, <2>3, <2>4, PlanFacts
<1> QED
  BY <1>4, <1>5 DEF FailsUnfresh

\* Every step of runs alone keeps the failures to datasets that are not fresh.
LEMMA NextFailuresAreUnfresh ==
  ASSUME Requests = {}, TypeInv, OneRunAtATime, RunMemory, FailuresAreUnfresh,
         [Next]_vars
  PROVE  FailuresAreUnfresh'
<1> SUFFICES ASSUME NEW y \in Runners PROVE FailsUnfresh(run'[y], FreshNow')
  BY DEF FailuresAreUnfresh
<1>y. FailsUnfresh(run[y], FreshNow)
  BY DEF FailuresAreUnfresh
<1>f. artifact' = artifact => FreshNow' = FreshNow
  BY DEF FreshNow, Fresh, FreshnessOf
<1>1. ASSUME NEW x \in Runners, Materialize(x) PROVE FailsUnfresh(run'[y], FreshNow')
  <2>1. CASE artifact' = artifact
    <3>1. CASE x = y
      BY <1>1, <1>y, <1>f, <2>1, <3>1, OwnFailuresUnfresh
    <3>2. CASE x # y
      BY <1>1, <1>y, <1>f, <2>1, <3>2, RunEffect
    <3> QED BY <3>1, <3>2
  <2>2. CASE artifact' # artifact
    <3>1. CASE x = y
      BY <1>1, <1>y, <2>2, <3>1, WritingFreshensNoFailure
    <3>2. CASE x # y
      <4>1. Active(x)
        BY <1>1, <2>2, RunData DEF Active
      <4>2. ~Active(y)
        BY <3>2, <4>1, OneActive
      <4>3. run[y].pc \in {"idle", "waiting"}
        BY <4>2, Basics DEF Active, RunState
      <4>4. run'[y] = run[y]
        BY <1>1, <3>2, RunEffect
      <4> QED
        BY <4>3, <4>4 DEF RunMemory, Blank, FailsUnfresh
    <3> QED BY <3>1, <3>2
  <2> QED BY <2>1, <2>2
<1>2. CASE Tick
  BY <1>2, <1>y, AgeingRefreshesNothing DEF Tick, FailsUnfresh
<1>3. CASE Restart
  BY <1>3 DEF Restart, IdleRun, FailsUnfresh
<1>4. CASE UNCHANGED <<run, artifact>>
  BY <1>4, <1>y, <1>f
<1> QED
  BY <1>1, <1>2, <1>3, <1>4
     DEF Next, Publish, CanaryVerdict, vars, sharedVars, runVars

\* Runs alone never call a dataset degraded while its snapshot is fresh: what
\* failed was not fresh when it was tried, and nothing has refreshed it since.
THEOREM RunsDegradeTheUnfresh ==
  ASSUME Requests = {}, CanaryDatasets = {} PROVE Spec => RunsDegradeOnlyUnfresh
<1>1. Init => FailuresAreUnfresh
  BY DEF Init, MaterializerInit, FailuresAreUnfresh, FailsUnfresh, IdleRun
<1>2. TypeInv /\ OneRunAtATime /\ RunMemory /\ FailuresAreUnfresh /\ [Next]_vars
        => FailuresAreUnfresh'
  BY NextFailuresAreUnfresh
<1>3. ASSUME TypeInv, FailuresAreUnfresh, Next, NEW d \in Datasets,
             health'[d] # health[d], health'[d].status = "degraded"
      PROVE  ~Fresh(d)
  <2>1. health' # health
    BY <1>3
  <2>2. PICK x \in Runners : Materialize(x)
    BY <1>3, <2>1 DEF Next, Publish, Tick, CanaryVerdict, Restart
  <2> DEFINE i == run[x].persisted + 1
  <2>3. /\ i \in 1..Len(Plan)
        /\ UpsertHealth(Plan[i], HealthOfResult(run[x].results[i]), "materialize")
    BY <1>3, <2>1, <2>2, RunData
  <2> HIDE DEF i
  <2>4. d = Plan[i] /\ HealthOfResult(run[x].results[i]) = "degraded"
    BY <1>3, <2>3, Basics DEF UpsertHealth
  <2>5. run[x].results[i] \in {"fetch", "snapshot"}
    BY <2>4 DEF HealthOfResult
  <2> QED
    BY <1>3, <2>3, <2>4, <2>5 DEF FailuresAreUnfresh, FailsUnfresh, FreshNow
<1>4. ASSUME TypeInv, FailuresAreUnfresh
      PROVE  [Next]_vars =>
               [\A d \in Datasets :
                  (health'[d] # health[d] /\ health'[d].status = "degraded")
                    => ~Fresh(d)]_vars
  BY <1>3, <1>4
<1> QED
  BY <1>1, <1>2, <1>4, RunMemoryHolds, MutualExclusion, TypeInvariant, PTL
     DEF Spec, RunsDegradeOnlyUnfresh
=============================================================================
