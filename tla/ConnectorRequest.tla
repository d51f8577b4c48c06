-------------------------- MODULE ConnectorRequest --------------------------
(***************************************************************************)
(* One request of a connector to its source: the attempts and the backoff  *)
(* of execute_request_with_retries, each attempt a chain of redirects that *)
(* send_request_with_redirect_revalidation follows by itself, and, for the *)
(* SAMA connector, a second transport after a broken connection.           *)
(*                                                                         *)
(* An answer is the class its status falls into.  Of the method and the    *)
(* data of a request it is kept whether they are those of a form.          *)
(***************************************************************************)
EXTENDS Integers

CONSTANTS Approved,          \* URLs within the approved source boundary
          SourceUrl,         \* the one the dataset's locator stands for
          Outside,           \* other URLs a page or a redirect may name
          MaxRetries,        \* request_policy.max_retries
          MaxHops            \* _MAX_SAFE_REDIRECT_HOPS

Urls == Approved \cup Outside
NoLocation == "no location"

ASSUME RequestAssumption ==
  /\ Approved \cap Outside = {}
  /\ SourceUrl \in Approved
  /\ NoLocation \notin Approved
  /\ MaxRetries \in Nat
  /\ MaxHops \in Nat

VARIABLES call,      \* the request and its progress
          sends,     \* what the request has sent so far: an observer
          sama       \* the connector is the one with a fallback; it stays so

callVars == <<call, sends>>

\* pc "sending" and "fallback": awaiting an answer of the source.
Call ==
  [pc      : {"idle", "sending", "fallback", "backoff", "answered", "raised"},
   start   : Urls,                  \* the URL each attempt begins with
   form    : BOOLEAN,               \* it is the POST of a form
   url     : Urls,                  \* current_url, of the last send
   posts   : BOOLEAN,               \* the last send still was that POST
   hops    : 0..MaxHops,            \* redirects_followed
   retries : 0..MaxRetries,         \* retries_used
   error   : {"none", "timeout", "unavailable", "invalid", "policy"}]

NewCall(u, form) ==
  [pc |-> "idle", start |-> u, form |-> form, url |-> u, posts |-> form,
   hops |-> 0, retries |-> 0, error |-> "none"]
IdleCall == NewCall(SourceUrl, FALSE)

Waiting == call.pc \in {"sending", "fallback"}

\* What one attempt, and the whole request, may send.
SendsPerAttempt == MaxHops + 1 + (IF sama THEN 1 ELSE 0)
Budget == (MaxRetries + 1) * SendsPerAttempt

\* The observer counts up to one more than that.
OneMoreSend == IF sends > Budget THEN sends ELSE sends + 1

\* Faulty variants: any URL passes; the retry budget is off by one; a redirect
\* is followed without counting it.
AnyUrl(u) == TRUE
RetriesOnceMore == call.retries <= MaxRetries
HopsUncounted == call.hops

\* ensure_approved_url
Approves(u) == u \in Approved
\* should_retry, for an error that may be retried
ShouldRetry == call.retries < MaxRetries
HopsWithThis == call.hops + 1

Raise(error) == [call EXCEPT !.pc = "raised", !.error = error]
RetryOrRaise(error) ==
  IF ShouldRetry THEN [call EXCEPT !.pc = "backoff"] ELSE Raise(error)
-----------------------------------------------------------------------------
CallInit ==
  /\ call = IdleCall
  /\ sends = 0

\* The connector awaits a request for u.
Begin(u, form) ==
  IF Approves(u)
  THEN call' = [NewCall(u, form) EXCEPT !.pc = "sending"] /\ sends' = 1
  ELSE call' = [NewCall(u, form) EXCEPT !.pc = "raised", !.error = "policy"] /\ sends' = 0

\* A success, by either transport.
Succeed ==
  /\ Waiting
  /\ call' = [call EXCEPT !.pc = "answered"]
  /\ UNCHANGED sends

\* raise_for_status: 408, 429 and 5xx may be retried, other statuses, the
\* redirects that are not followed included, may not.
TransientStatus ==
  /\ Waiting
  /\ call' = RetryOrRaise("unavailable")
  /\ UNCHANGED sends

PermanentStatus ==
  /\ Waiting
  /\ call' = Raise("unavailable")
  /\ UNCHANGED sends

\* Each follow-up is checked like the first URL.  A 307 or 308 keeps the form;
\* after a 301, 302 or 303 the source gets a plain GET.
Redirect(location, keeps) ==
  /\ call.pc = "sending"
  /\ IF call.hops < MaxHops /\ location # NoLocation /\ Approves(location)
     THEN /\ call' = [call EXCEPT !.url = location, !.hops = HopsWithThis,
                                 !.posts = @ /\ keeps]
          /\ sends' = OneMoreSend
     ELSE /\ call' = Raise(IF call.hops < MaxHops /\ location # NoLocation
                           THEN "policy" ELSE "invalid")
          /\ UNCHANGED sends

TimeOut ==
  /\ Waiting
  /\ call' = RetryOrRaise("timeout")
  /\ UNCHANGED sends

\* The source cannot be reached; also a fallback that fails.
Unreachable ==
  /\ Waiting
  /\ call' = RetryOrRaise("unavailable")
  /\ UNCHANGED sends

\* The connection breaks: the fallback sends the first URL again.
Disconnect ==
  /\ call.pc = "sending"
  /\ IF sama
     THEN /\ call' = [call EXCEPT !.pc = "fallback", !.url = call.start, !.posts = call.form]
          /\ sends' = OneMoreSend
     ELSE /\ call' = RetryOrRaise("unavailable")
          /\ UNCHANGED sends

\* The backoff is over: the next attempt starts from the first URL.
Resend ==
  /\ call.pc = "backoff"
  /\ call' = [call EXCEPT !.pc = "sending", !.url = call.start, !.posts = call.form,
                          !.hops = 0, !.retries = @ + 1]
  /\ sends' = OneMoreSend

Fail ==
  \/ TransientStatus
  \/ PermanentStatus
  \/ \E location \in Urls \cup {NoLocation}, keeps \in BOOLEAN : Redirect(location, keeps)
  \/ TimeOut
  \/ Unreachable
  \/ Disconnect

CallNext == Succeed \/ Fail \/ Resend
-----------------------------------------------------------------------------
\* "retries and timeouts" are bounded in the connectors: whatever a source
\* answers, redirects in a circle included, one request costs it a bounded
\* number of sends.
SendsBounded == sends <= Budget

\* Nothing is ever sent outside of the approved boundary, whatever redirects,
\* form actions, retries and fallbacks come together.
OnlyApprovedUrls == Waiting => call.url \in Approved /\ call.start \in Approved
=============================================================================
