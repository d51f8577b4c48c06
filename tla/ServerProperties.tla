-------------------------- MODULE ServerProperties --------------------------
(***************************************************************************)
(* What the server process promises: the invariants, the action properties *)
(* and, under the fairness of the event loop, the liveness of Server.      *)
(***************************************************************************)
EXTENDS Server

Active(x) == run[x].pc \in {"select", "fetching", "answered"}
Fresh(d) == FreshnessOf(d) = "fresh"

\* Every variable keeps its type: tool state, shared state and the observer.
TypeOK ==
  /\ SharedTypeOK
  /\ PreviewTypeOK
  /\ MaterializerTypeOK
  /\ sourceQuiet \in [Locators -> Ages]

\* Hot-set runs never overlap: while one selects, fetches or records, it holds
\* _run_lock, whatever was cancelled, raised or restarted before
\* (materialize_hot_set's "async with self._run_lock").
OneRunAtATime == \A x \in Runners : Active(x) <=> lock = x

\* The data a preview result carries is the payload on disk when the result is
\* recorded: a live payload has been persisted, and a local or stale one is
\* the artifact as it stands, although freshness was evaluated before an await.
ResultMatchesDisk ==
  \A r \in Requests :
    (request[r].pc = "record" /\ request[r].outcome # "fail_closed") =>
      /\ Readable(Target(r))
      /\ request[r].served = OnDisk(Target(r))

\* A dataset the server itself called healthy has a readable snapshot, also
\* when the process died between writing the file and writing the row.
HealthyHasSnapshot ==
  \A d \in Datasets :
    (health[d].status = "healthy" /\ health[d].by # "canary") => Readable(d)

\* Datasets of one locator share one fetch in a run: it is never a success
\* for one of them and a failure for another (locator_results).
SharedLocatorAgrees ==
  \A x \in Runners : \A i, j \in 1..Len(Plan) :
    ( /\ LocatorOf[Plan[i]] = LocatorOf[Plan[j]]
      /\ run[x].results[i] = "materialized" )
      => run[x].results[j] \notin {"fetch", "snapshot"}

\* Health rows a run has written are still there when it returns: no preview
\* can slip a verdict between them (the canary's process can).
RecordedVerdictsStand ==
  \A x \in Runners : Persisting(x) =>
    \A i \in 1..run[x].persisted :
      LET verdict == HealthOfResult(run[x].results[i])
      IN  verdict # "none" =>
            health[Plan[i]] \in {[status |-> verdict, by |-> "materialize"]}
                                 \cup [status : HealthStatus, by : {"canary"}]

\* A stale snapshot is served with notice only when a stale local snapshot
\* exists (docs/OPERATIONS.md, docs/ADR/ADR-003): the artifact served under the
\* stale label is stale.
StaleServedOnlyWhenStale ==
  \A r \in Requests :
    (/\ request[r].pc = "record"
     /\ request[r].outcome = "serve_stale_with_notice")
      => FreshnessOf(Target(r)) = "stale"
-----------------------------------------------------------------------------
\* A preview writes "healthy" only over a payload that normalizes for the
\* dataset: the row and the artifact agree at the moment it is written.
PreviewVerdictIsEarned ==
  [][\A d \in Datasets :
       (health'[d] # health[d] /\ health'[d].by = "preview"
          /\ health'[d].status = "healthy")
         => Readable(d) /\ Normalizes(OnDisk(d), d)]_vars

\* Within the life of a process a source is not asked again by a run before
\* the cooldown has passed, however the earlier attempt ended.  The remaining
\* time is truncated to whole seconds, so the last second does not count.
CooldownSpacing ==
  [][\A x \in Runners, l \in Locators :
       SendsFetch(x, l) =>
         sourceQuiet[l] > (Cooldown - 1) * TicksPerSecond]_vars

\* Runs alone never replace a snapshot by an older publication: the lock keeps
\* their fetches apart.
RunsNeverRegress ==
  [][\A l \in Locators :
       artifact[l].present => artifact'[l].payload >= artifact[l].payload]_vars

\* Runs alone never call a dataset degraded while its snapshot is fresh.
RunsDegradeOnlyUnfresh ==
  [][\A d \in Datasets :
       (health'[d] # health[d] /\ health'[d].status = "degraded")
         => ~Fresh(d)]_vars
\* The detailed server implements the local data contract of LocalData.
Contract == INSTANCE LocalData
ImplementsLocalData == Contract!LocalSpec
-----------------------------------------------------------------------------
(***************************************************************************)
(* Fairness.  asyncio runs the ready callbacks first come first served, so *)
(* a coroutine that is ready again and again runs: strong fairness.  A     *)
(* fetch is answered or fails because every connector request has a        *)
(* timeout and a bounded number of attempts.  The loop's sleep ends and    *)
(* time passes.  Nothing is assumed of clients, sources, the canary,       *)
(* cancellations, errors or restarts.                                      *)
(***************************************************************************)
Fairness ==
  /\ SF_vars(Materialize(Loop) /\ StartRun(Loop, FALSE))
  /\ \A x \in Runners : SF_vars(Materialize(x) /\ RunStep(x))
  /\ \A r \in Requests : SF_vars(Preview(r) /\ PreviewStep(r))
  /\ WF_vars(Tick)

FairSpec == Spec /\ Fairness

\* The Tier A loop keeps starting and ending cycles: no failed dataset, failed
\* cycle, cancelled call or queue at the lock stops it.
LoopKeepsCycling ==
  /\ []<>(run[Loop].pc = "idle")
  /\ []<>(run[Loop].pc = "select")

\* A materialize_hot_set call that waits for the lock gets its run and ends.
RunsReturn == \A x \in Tools : run[x].pc = "waiting" ~> run[x].pc = "idle"

\* A preview that has been submitted ends.
PreviewsReturn ==
  \A r \in Requests : request[r].pc # "idle" ~> request[r].pc = "idle"

\* A stale dataset of the hot set does not stay stale unnoticed: it is
\* refreshed, or its health row says degraded.
StaleIsAttended ==
  \A d \in Datasets :
    (\E i \in 1..Len(TierA) : TierA[i] = d) =>
      (FreshnessOf(d) = "stale"
         ~> (FreshnessOf(d) = "fresh" \/ health[d].status = "degraded"))
=============================================================================
