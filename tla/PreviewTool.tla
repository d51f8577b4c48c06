----------------------------- MODULE PreviewTool -----------------------------
(***************************************************************************)
(* DatasetPreviewTool.preview_dataset as a coroutine.  Its only await is   *)
(* the connector fetch: between two awaits the coroutine owns the event    *)
(* loop (onLoop), so nothing else of the process runs there, but a kill    *)
(* can fall between any two steps.                                         *)
(*                                                                         *)
(* A lookup that ends before freshness is evaluated (an id that does not   *)
(* sanitize, a dataset the registry does not know) changes no state and is *)
(* a stuttering step.  The rate limiter is any limiter: see RateLimiter.   *)
(***************************************************************************)
EXTENDS ServingState, ResolutionPolicy

CONSTANT Requests           \* preview calls that may be in flight together
ASSUME RequestsAssumption == Requests \subseteq Coroutines

VARIABLE request            \* [Requests -> RequestState]

RequestState ==
  [pc      : {"idle", "readLocal", "fetch", "fetching", "answered", "fallback",
              "record"},
   dataset : Datasets,
   seen    : Freshness,              \* the freshness read before the fetch
   reply   : Reply,
   outcome : Outcomes \cup {"none"}, \* resolution_outcome of the result
   failed  : BOOLEAN,                \* the result's status is failed
   stage   : {"none", "fetch", "snapshot", "normalization"},
   served  : Versions]               \* the payload the result was made from

IdleRequest(d) ==
  [pc |-> "idle", dataset |-> d, seen |-> "missing", reply |-> NoReply,
   outcome |-> "none", failed |-> FALSE, stage |-> "none", served |-> 0]

Target(r) == request[r].dataset
InFlight(r) == request[r].pc \in {"fetching", "answered"}

\* _result_from_payload: a payload that does not normalize is a failed result.
\* An earlier failure stage is kept on a stale fallback that does normalize.
ServeFrom(r, v, outcome) ==
  LET failed == ~Normalizes(v, Target(r))
  IN  [request[r] EXCEPT !.pc = "record", !.outcome = outcome,
                         !.failed = failed, !.served = v,
                         !.stage = IF failed THEN "normalization" ELSE @]

\* Faulty variant: a failed refresh is tried again for as long as it fails.
RetryRefresh(r, stage) == [request[r] EXCEPT !.pc = "fetch", !.stage = stage]

\* _closed_failure_result
CloseWith(r, stage) ==
  [request[r] EXCEPT !.pc = "record", !.outcome = "fail_closed",
                     !.failed = TRUE, !.stage = stage]
-----------------------------------------------------------------------------
PreviewInit == request \in [Requests -> {IdleRequest(d) : d \in Datasets}]

\* Look the dataset up, read its freshness and choose the first path.
Submit(r, d) ==
  /\ onLoop = NoCoroutine
  /\ request[r].pc = "idle"
  /\ d \in Registered
  /\ LET seen == FreshnessOf(d)
         first == InitialOutcome(seen)
         started == [IdleRequest(d) EXCEPT !.seen = seen]
     IN  request' = [request EXCEPT ![r] =
           CASE first \in LocalOutcomes ->
                  [started EXCEPT !.pc = "readLocal", !.outcome = first]
             [] first = "refresh_then_serve" -> [started EXCEPT !.pc = "fetch"]
             [] OTHER -> [started EXCEPT !.pc = "record", !.stage = "fetch",
                                         !.outcome = "fail_closed",
                                         !.failed = TRUE]]
  /\ onLoop' = r
  /\ UNCHANGED <<artifact, health, upstream, disruptions>>

\* Serve the local artifact, or fall through to a refresh when it is unusable.
ReadLocal(r) ==
  /\ onLoop = r
  /\ request[r].pc = "readLocal"
  /\ request' = [request EXCEPT ![r] =
       LET outcome == request[r].outcome
       IN  IF Readable(Target(r))
           THEN ServeFrom(r, OnDisk(Target(r)), outcome)
           ELSE [@ EXCEPT !.pc = "fetch",
                          !.outcome = LocalUnusableOutcome(outcome)]]
  /\ UNCHANGED sharedVars

\* The limiter lets the refresh through: send the fetch and await it.
StartFetch(r) ==
  /\ onLoop = r
  /\ request[r].pc = "fetch"
  /\ request' = [request EXCEPT ![r].pc = "fetching"]
  /\ onLoop' = NoCoroutine
  /\ UNCHANGED <<artifact, health, upstream, disruptions>>

\* The limiter, or the connector resolver, raises before anything is sent.
RefuseFetch(r) ==
  /\ onLoop = r
  /\ request[r].pc = "fetch"
  /\ request' = [request EXCEPT ![r] =
                   [@ EXCEPT !.pc = "fallback", !.stage = "fetch"]]
  /\ UNCHANGED sharedVars

\* The source's answer reaches the process; the coroutine has not run yet.
PreviewAnswered(r) ==
  /\ request[r].pc = "fetching"
  /\ \E reply \in Replies(LocatorOf[Target(r)]) :
       request' = [request EXCEPT ![r] =
                     [@ EXCEPT !.pc = "answered", !.reply = reply]]
  /\ UNCHANGED sharedVars

ResumeFailed(r) ==
  /\ onLoop = NoCoroutine
  /\ request[r].pc = "answered"
  /\ \E stage \in {"fetch", "snapshot"} :        \* snapshot: the write raises
       /\ request[r].reply.kind = IF stage = "fetch" THEN "error" ELSE "payload"
       /\ request' = [request EXCEPT ![r] =
                        [@ EXCEPT !.pc = "fallback", !.stage = stage]]
  /\ onLoop' = r
  /\ UNCHANGED <<artifact, health, upstream, disruptions>>

\* The payload is persisted and the result made from it, without an await.
ResumeWritten(r) ==
  /\ onLoop = NoCoroutine
  /\ request[r].pc = "answered"
  /\ request[r].reply.kind = "payload"
  /\ StoreSnapshot(LocatorOf[Target(r)], request[r].reply.payload)
  /\ request' = [request EXCEPT ![r] =
                   ServeFrom(r, @.reply.payload, "refresh_then_serve")]
  /\ onLoop' = r
  /\ UNCHANGED <<health, upstream, disruptions>>

\* The policy decides on the freshness read before the fetch; the artifact is
\* read again now.
FallBack(r) ==
  /\ onLoop = r
  /\ request[r].pc = "fallback"
  /\ request' = [request EXCEPT ![r] =
       IF /\ RefreshFailureOutcome(@.seen) = "serve_stale_with_notice"
          /\ Readable(Target(r))
       THEN ServeFrom(r, OnDisk(Target(r)), "serve_stale_with_notice")
       ELSE CloseWith(r, @.stage)]
  /\ UNCHANGED sharedVars

\* _record_result, then the call returns.
RecordResult(r) ==
  /\ onLoop = r
  /\ request[r].pc = "record"
  /\ LET verdict == HealthOfPreview(request[r].outcome, request[r].failed)
     IN  IF verdict = "none" THEN UNCHANGED health
                             ELSE UpsertHealth(Target(r), verdict, "preview")
  /\ request' = [request EXCEPT ![r] = IdleRequest(Target(r))]
  /\ onLoop' = NoCoroutine
  /\ UNCHANGED <<artifact, upstream, disruptions>>

\* The client goes away: CancelledError is not an Exception, so nothing of the
\* handler runs and no result is recorded.
CancelPreview(r) ==
  /\ InFlight(r)
  /\ onLoop = NoCoroutine
  /\ disruptions < MaxDisruptions
  /\ disruptions' = disruptions + 1
  /\ request' = [request EXCEPT ![r] = IdleRequest(Target(r))]
  /\ UNCHANGED <<artifact, health, upstream, onLoop>>

PreviewStep(r) ==
  \/ ReadLocal(r)
  \/ StartFetch(r)
  \/ RefuseFetch(r)
  \/ PreviewAnswered(r)
  \/ ResumeFailed(r)
  \/ ResumeWritten(r)
  \/ FallBack(r)
  \/ RecordResult(r)

PreviewNext(r) ==
  \/ \E d \in Datasets : Submit(r, d)
  \/ PreviewStep(r)
  \/ CancelPreview(r)

PreviewTypeOK == request \in [Requests -> RequestState]
=============================================================================
