---------------------------- MODULE Materializer ----------------------------
(***************************************************************************)
(* HotSetMaterializationTool.materialize_hot_set and the Tier A background *)
(* loop that calls it.  Runs are serialized by an asyncio.Lock, whose      *)
(* waiters are served first come first served.  A run walks the hot set,   *)
(* remembers per locator what its one fetch gave, and writes the health    *)
(* rows of all datasets at its end, one transaction each.                  *)
(***************************************************************************)
EXTENDS ServingState

CONSTANTS Loop,             \* the background refresh task
          Tools,            \* materialize_hot_set calls that may be waiting
          TierA, Optional,  \* the hot set, as sequences of dataset ids
          Cooldown,         \* source_locator_cooldown_seconds
          TicksPerSecond    \* resolution of time_source within a second

Runners == {Loop} \cup Tools
Plan == TierA \o Optional

ASSUME MaterializerAssumption ==
  /\ Loop \notin Tools
  /\ Runners \subseteq Coroutines
  /\ TierA \in Seq(Datasets)
  /\ Optional \in Seq(Datasets)
  /\ \A i, j \in 1..Len(Plan) : Plan[i] = Plan[j] => i = j
  /\ Cooldown \in Nat
  /\ TicksPerSecond \in Nat \ {0}
  /\ Cooldown * TicksPerSecond <= AgeCap

VARIABLES lock,         \* _run_lock: its holder
          waiters,      \* the runners queued for it
          run,          \* [Runners -> RunState]
          attemptAge    \* ticks since _last_source_locator_attempt_at; AgeCap
                        \* also stands for a locator never attempted

runVars == <<lock, waiters, run, attemptAge>>

Outcome == {"none", "materialized", "skipped", "lookup", "fetch", "snapshot"}
LocatorResult == {"none", "materialized", "skipped", "fetch", "snapshot"}

RunState ==
  [pc        : {"idle", "waiting", "select", "fetching", "answered"},
   optional  : BOOLEAN,                    \* include_optional
   at        : 1..(Len(Plan) + 1),         \* the plan's dataset being visited
   locators  : [Locators -> LocatorResult],\* locator_results
   results   : [1..Len(Plan) -> Outcome],
   reply     : Reply,
   persisted : 0..Len(Plan)]               \* results whose health is written

IdleRun ==
  [pc |-> "idle", optional |-> FALSE, at |-> 1,
   locators |-> [l \in Locators |-> "none"],
   results |-> [i \in 1..Len(Plan) |-> "none"],
   reply |-> NoReply, persisted |-> 0]

\* _selected_dataset_ids
PlanLength(x) == IF run[x].optional THEN Len(Plan) ELSE Len(TierA)
Visited(x) == Plan[run[x].at]
VisitedLocator(x) == LocatorOf[Visited(x)]
Selecting(x) == onLoop = x /\ run[x].pc = "select" /\ run[x].at <= PlanLength(x)
Persisting(x) == onLoop = x /\ run[x].pc = "select" /\ run[x].at > PlanLength(x)

\* Faulty variant: an off-by-one ends the cooldown a second early.
CooldownRemainingEarly(l) ==
  LET remaining == Cooldown * TicksPerSecond - attemptAge[l]
  IN  IF remaining <= 0 THEN 0 ELSE (remaining - 1) \div TicksPerSecond

\* _source_locator_cooldown_remaining_seconds, truncated to whole seconds.
CooldownRemaining(l) ==
  LET remaining == Cooldown * TicksPerSecond - attemptAge[l]
  IN  IF remaining <= 0 THEN 0 ELSE remaining \div TicksPerSecond

\* The queue once a cancelled waiter has left it; each runner waits once.
Without(queue, x) ==
  LET i == CHOOSE j \in 1..Len(queue) : queue[j] = x
  IN  [j \in 1..(Len(queue) - 1) |-> IF j < i THEN queue[j] ELSE queue[j + 1]]

\* Faulty variants: a failed write counts as success; a failed fetch is silent.
HealthOfFetchedResult(outcome) ==
  IF outcome \in {"materialized", "snapshot"} THEN "healthy" ELSE "none"
HealthOfStoredResult(outcome) ==
  IF outcome = "materialized" THEN "healthy" ELSE "none"

HealthOfResult(outcome) ==
  CASE outcome = "materialized"          -> "healthy"
    [] outcome \in {"fetch", "snapshot"} -> "degraded"
    [] OTHER                             -> "none"

\* Append the visited dataset's result and go to the next one.
Conclude(x, outcome) ==
  [run[x] EXCEPT !.results[run[x].at] = outcome, !.at = @ + 1,
                 !.pc = "select", !.reply = NoReply]
\* Faulty variant: the locator's result is not remembered for the run.
ConcludeAlone(x, outcome) == Conclude(x, outcome)
\* The same, for an outcome that later datasets of this locator share.
ConcludeLocator(x, outcome) ==
  [Conclude(x, outcome) EXCEPT !.locators[VisitedLocator(x)] = outcome]

\* asyncio.Lock: taken at once only when free and nobody queues; faulty
\* variants that do not look at the holder, and that forget to let go.
AlwaysFree == TRUE
LockFree == lock = NoCoroutine /\ waiters = <<>>
KeepLock == UNCHANGED lock
ReleaseLock == lock' = NoCoroutine
-----------------------------------------------------------------------------
MaterializerInit ==
  /\ lock = NoCoroutine
  /\ waiters = <<>>
  /\ run = [x \in Runners |-> IdleRun]
  /\ attemptAge = [l \in Locators |-> AgeCap]

\* A tool call arrives, or the loop's sleep ends: take the lock or queue.
StartRun(x, optional) ==
  /\ onLoop = NoCoroutine
  /\ run[x].pc = "idle"
  /\ x = Loop => ~optional
  /\ IF LockFree
     THEN /\ lock' = x
          /\ onLoop' = x
          /\ run' = [run EXCEPT ![x] = [IdleRun EXCEPT !.pc = "select",
                                                       !.optional = optional]]
          /\ UNCHANGED waiters
     ELSE /\ waiters' = Append(waiters, x)
          /\ run' = [run EXCEPT ![x] = [IdleRun EXCEPT !.pc = "waiting",
                                                       !.optional = optional]]
          /\ UNCHANGED <<lock, onLoop>>
  /\ UNCHANGED <<attemptAge, artifact, health, upstream, disruptions>>

\* The first waiter, woken by the release, takes the lock.
GrantLock(x) ==
  /\ onLoop = NoCoroutine
  /\ lock = NoCoroutine
  /\ waiters # <<>>
  /\ x = Head(waiters)
  /\ waiters' = Tail(waiters)
  /\ lock' = x
  /\ onLoop' = x
  /\ run' = [run EXCEPT ![x].pc = "select"]
  /\ UNCHANGED <<attemptAge, artifact, health, upstream, disruptions>>

LookupFails(x) ==
  /\ Selecting(x)
  /\ Visited(x) \notin Registered
  /\ run' = [run EXCEPT ![x] = Conclude(x, "lookup")]
  /\ UNCHANGED <<lock, waiters, attemptAge, sharedVars>>

NeedsRefresh(x) ==
  /\ Visited(x) \in Registered
  /\ FreshnessOf(Visited(x)) # "fresh"

ReuseFresh(x) ==
  /\ Selecting(x)
  /\ Visited(x) \in Registered
  /\ FreshnessOf(Visited(x)) = "fresh"
  /\ run' = [run EXCEPT ![x] = Conclude(x, "skipped")]
  /\ UNCHANGED <<lock, waiters, attemptAge, sharedVars>>

\* An earlier dataset of this run already settled the locator.
ReuseLocatorResult(x) ==
  /\ Selecting(x)
  /\ NeedsRefresh(x)
  /\ run[x].locators[VisitedLocator(x)] # "none"
  /\ run' = [run EXCEPT ![x] = Conclude(x, @.locators[VisitedLocator(x)])]
  /\ UNCHANGED <<lock, waiters, attemptAge, sharedVars>>

CooldownBlocks(x) ==
  /\ Selecting(x)
  /\ NeedsRefresh(x)
  /\ run[x].locators[VisitedLocator(x)] = "none"
  /\ CooldownRemaining(VisitedLocator(x)) > 0
  /\ run' = [run EXCEPT ![x] =
       ConcludeLocator(x, IF artifact[VisitedLocator(x)].present
                          THEN "skipped" ELSE "fetch")]
  /\ UNCHANGED <<lock, waiters, attemptAge, sharedVars>>

\* The attempt is remembered before the fetch is awaited.
StartRunFetch(x) ==
  /\ Selecting(x)
  /\ NeedsRefresh(x)
  /\ run[x].locators[VisitedLocator(x)] = "none"
  /\ CooldownRemaining(VisitedLocator(x)) = 0
  /\ attemptAge' = [attemptAge EXCEPT ![VisitedLocator(x)] = 0]
  /\ run' = [run EXCEPT ![x].pc = "fetching"]
  /\ onLoop' = NoCoroutine
  /\ UNCHANGED <<lock, waiters, artifact, health, upstream, disruptions>>

RunAnswered(x) ==
  /\ run[x].pc = "fetching"
  /\ \E reply \in Replies(VisitedLocator(x)) :
       run' = [run EXCEPT ![x] = [@ EXCEPT !.pc = "answered", !.reply = reply]]
  /\ UNCHANGED <<lock, waiters, attemptAge, sharedVars>>

ResumeRunFailed(x) ==
  /\ onLoop = NoCoroutine
  /\ run[x].pc = "answered"
  /\ \E stage \in {"fetch", "snapshot"} :        \* snapshot: the write raises
       /\ run[x].reply.kind = IF stage = "fetch" THEN "error" ELSE "payload"
       /\ run' = [run EXCEPT ![x] = ConcludeLocator(x, stage)]
  /\ onLoop' = x
  /\ UNCHANGED <<lock, waiters, attemptAge, artifact, health, upstream, disruptions>>

\* Normalization is reported in the result but does not change the outcome.
ResumeRunWritten(x) ==
  /\ onLoop = NoCoroutine
  /\ run[x].pc = "answered"
  /\ run[x].reply.kind = "payload"
  /\ StoreSnapshot(VisitedLocator(x), run[x].reply.payload)
  /\ run' = [run EXCEPT ![x] = ConcludeLocator(x, "materialized")]
  /\ onLoop' = x
  /\ UNCHANGED <<lock, waiters, attemptAge, health, upstream, disruptions>>

\* _persist_materialization_health_outcomes, one result at a time.
PersistHealth(x) ==
  /\ Persisting(x)
  /\ run[x].persisted < PlanLength(x)
  /\ LET i == run[x].persisted + 1
         verdict == HealthOfResult(run[x].results[i])
     IN  IF verdict = "none" THEN UNCHANGED health
                             ELSE UpsertHealth(Plan[i], verdict, "materialize")
  /\ run' = [run EXCEPT ![x].persisted = @ + 1]
  /\ UNCHANGED <<lock, waiters, attemptAge, artifact, upstream, onLoop, disruptions>>

\* The run returns and releases the lock; the loop goes back to sleep.
FinishRun(x) ==
  /\ Persisting(x)
  /\ run[x].persisted = PlanLength(x)
  /\ run' = [run EXCEPT ![x] = IdleRun]
  /\ ReleaseLock
  /\ onLoop' = NoCoroutine
  /\ UNCHANGED <<waiters, attemptAge, artifact, health, upstream, disruptions>>

\* An exception the run does not handle (a registry error, say): the lock is
\* released; the loop logs the failed cycle and goes back to sleep.
RunRaises(x) ==
  /\ onLoop = x
  /\ run[x].pc = "select"
  /\ disruptions < MaxDisruptions
  /\ disruptions' = disruptions + 1
  /\ run' = [run EXCEPT ![x] = IdleRun]
  /\ ReleaseLock
  /\ onLoop' = NoCoroutine
  /\ UNCHANGED <<waiters, attemptAge, artifact, health, upstream>>

\* The client of a tool call goes away while the call awaits the lock or a
\* fetch: nothing is recorded, the remembered attempt stays.
CancelRun(x) ==
  /\ x \in Tools
  /\ onLoop = NoCoroutine
  /\ run[x].pc \in {"waiting", "fetching", "answered"}
  /\ disruptions < MaxDisruptions
  /\ disruptions' = disruptions + 1
  /\ run' = [run EXCEPT ![x] = IdleRun]
  /\ IF run[x].pc = "waiting"
     THEN waiters' = Without(waiters, x) /\ UNCHANGED lock
     ELSE ReleaseLock /\ UNCHANGED waiters
  /\ UNCHANGED <<attemptAge, artifact, health, upstream, onLoop>>

RunStep(x) ==
  \/ GrantLock(x)
  \/ LookupFails(x)
  \/ ReuseFresh(x)
  \/ ReuseLocatorResult(x)
  \/ CooldownBlocks(x)
  \/ StartRunFetch(x)
  \/ RunAnswered(x)
  \/ ResumeRunFailed(x)
  \/ ResumeRunWritten(x)
  \/ PersistHealth(x)
  \/ FinishRun(x)

RunNext(x) ==
  \/ \E optional \in BOOLEAN : StartRun(x, optional)
  \/ RunStep(x)
  \/ RunRaises(x)
  \/ CancelRun(x)

MaterializerTypeOK ==
  /\ lock \in Runners \cup {NoCoroutine}
  /\ waiters \in Seq(Runners)
  /\ run \in [Runners -> RunState]
  /\ attemptAge \in [Locators -> Ages]
=============================================================================
