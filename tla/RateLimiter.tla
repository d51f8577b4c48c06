----------------------------- MODULE RateLimiter -----------------------------
(***************************************************************************)
(* InMemoryRateLimiter, the sliding window that preview_dataset asks before *)
(* every live refresh.  enforce reads the clock once, after it has taken   *)
(* its lock; the clock moves on while it forgets old grants.  A restart of *)
(* the process makes a new limiter (docs/OPERATIONS.md), so a behaviour is *)
(* the life of one process.                                                *)
(***************************************************************************)
EXTENDS Integers, Sequences

CONSTANTS N,           \* policy.requests
          W,           \* policy.window_seconds, in clock ticks
          MaxNow       \* bound on the clock

ASSUME RateLimiterAssumption ==
  N \in Nat \ {0} /\ W \in Nat \ {0} /\ MaxNow \in Nat

VARIABLES now,         \* the monotonic clock
          enforcing,   \* a call holds _lock
          stamp,       \* its reading of the clock
          times,       \* _request_times
          granted      \* every grant since the start: an observer

vars == <<now, enforcing, stamp, times, granted>>

\* Faulty variants: a grant of exactly one window ago is kept; a grant is
\* forgotten one tick early.
OutlivedStrictly(t) == t < stamp - W
OutlivedEarly(t) == t <= stamp - W + 1

\* A grant that has left the window.
Outlived(t) == t <= stamp - W
Purged == times # <<>> => ~Outlived(Head(times))
Admits == Len(times) < N
-----------------------------------------------------------------------------
Init ==
  /\ now = 0
  /\ enforcing = FALSE
  /\ stamp = 0
  /\ times = <<>>
  /\ granted = <<>>

\* A call takes the lock and reads the clock.
Enter ==
  /\ ~enforcing
  /\ enforcing' = TRUE
  /\ stamp' = now
  /\ UNCHANGED <<now, times, granted>>

\* One turn of the loop: popleft.
Forget ==
  /\ enforcing
  /\ times # <<>>
  /\ Outlived(Head(times))
  /\ times' = Tail(times)
  /\ UNCHANGED <<now, enforcing, stamp, granted>>

\* enforce returns.
Grant ==
  /\ enforcing
  /\ Purged
  /\ Admits
  /\ times' = Append(times, stamp)
  /\ granted' = Append(granted, stamp)
  /\ enforcing' = FALSE
  /\ UNCHANGED <<now, stamp>>

\* enforce raises RateLimitExceededError.
Refuse ==
  /\ enforcing
  /\ Purged
  /\ ~Admits
  /\ enforcing' = FALSE
  /\ UNCHANGED <<now, stamp, times, granted>>

Tick ==
  /\ now < MaxNow
  /\ now' = now + 1
  /\ UNCHANGED <<enforcing, stamp, times, granted>>

Next == Enter \/ Forget \/ Grant \/ Refuse \/ Tick

Spec == Init /\ [][Next]_vars
-----------------------------------------------------------------------------
\* Types, and the bound on the deque: it never holds more than
\* policy.requests grants.
TypeOK ==
  /\ now \in Nat
  /\ enforcing \in BOOLEAN
  /\ stamp \in Nat
  /\ times \in Seq(Nat)
  /\ Len(times) <= N
  /\ granted \in Seq(Nat)

\* No window of window_seconds sees more than policy.requests grants: a grant
\* and the one policy.requests before it are a window apart.
GrantsAreSpaced ==
  \A i \in 1..Len(granted) :
    i + N <= Len(granted) => granted[i + N] - granted[i] >= W

\* A call is refused only when the last policy.requests grants all lie in the
\* window that ends at its reading of the clock.
RefusedOnlyWhenFull ==
  (enforcing /\ Purged /\ ~Admits) =>
    /\ Len(granted) >= N
    /\ \A i \in 1..Len(granted) :
         i > Len(granted) - N => granted[i] > stamp - W
=============================================================================
