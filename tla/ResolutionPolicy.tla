-------------------------- MODULE ResolutionPolicy --------------------------
(***************************************************************************)
(* PreviewResolutionPolicy: which path a preview takes from what it saw    *)
(* of the local artifact, and how its outcome maps to a health status.     *)
(***************************************************************************)
CONSTANTS RefreshMissing,        \* refresh_missing_snapshots
          RefreshStale,          \* refresh_stale_snapshots
          ServeUnknownLocally,   \* serve_unknown_frequency_locally
          AllowStaleFallback     \* allow_stale_fallback_on_refresh_failure

ASSUME PolicyAssumption ==
  {RefreshMissing, RefreshStale, ServeUnknownLocally, AllowStaleFallback}
    \subseteq BOOLEAN

Outcomes == {"serve_local", "refresh_then_serve", "serve_stale_with_notice",
             "fail_closed"}
LocalOutcomes == {"serve_local", "serve_stale_with_notice"}

\* An unknown status always comes from a frequency without a window.
InitialOutcome(seen) ==
  CASE seen = "fresh"   -> "serve_local"
    [] seen = "unknown" -> IF ServeUnknownLocally THEN "serve_local"
                                                  ELSE "refresh_then_serve"
    [] seen = "missing" -> IF RefreshMissing THEN "refresh_then_serve"
                                             ELSE "fail_closed"
    [] OTHER            -> IF RefreshStale THEN "refresh_then_serve"
                                           ELSE "serve_stale_with_notice"

LocalUnusableOutcome(outcome) ==
  IF outcome \in LocalOutcomes THEN "refresh_then_serve" ELSE outcome

RefreshFailureOutcome(seen) ==
  IF AllowStaleFallback /\ seen = "stale" THEN "serve_stale_with_notice"
                                          ELSE "fail_closed"

\* Faulty variant: a refresh is healthy whatever became of its payload.
HealthOfAnyRefresh(outcome, failed) ==
  CASE outcome = "refresh_then_serve"    -> "healthy"
    [] outcome \in {"serve_stale_with_notice", "fail_closed"} -> "degraded"
    [] OTHER                             -> "none"

\* The health a preview result is recorded as; "none" leaves the row alone.
HealthOfPreview(outcome, failed) ==
  CASE outcome = "refresh_then_serve" /\ ~failed -> "healthy"
    [] outcome = "serve_stale_with_notice"       -> "degraded"
    [] failed                                    -> "degraded"
    [] OTHER                                     -> "none"
=============================================================================
