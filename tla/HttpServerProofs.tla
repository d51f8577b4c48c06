--------------------------- MODULE HttpServerProofs ---------------------------
(***************************************************************************)
(* The limiter's bound for every policy, and what the middleware and the   *)
(* limiter behind it promise together, for any number of connections, any  *)
(* requests and any limits.                                                *)
(***************************************************************************)
EXTENDS HttpServer, SequenceTheorems, WellFoundedInduction, TLAPS

(***************************************************************************)
(* The limiter.  Its two properties speak of all grants ever made, the     *)
(* deque remembers only some: DequeIsTheTail says which, and that the      *)
(* others have left the window for good.                                   *)
(***************************************************************************)
Forgotten == Len(granted) - Len(times)

\* The clock has passed every reading, and the grants are in its order.
InOrder ==
  /\ stamp <= now
  /\ \A i \in 1..Len(granted) : granted[i] <= stamp
  /\ \A i, j \in 1..Len(granted) : i <= j => granted[i] <= granted[j]

\* The deque is the end of the history; what came before is a window old.
DequeIsTheTail ==
  /\ Forgotten >= 0
  /\ \A i \in 1..Len(times) : times[i] = granted[Forgotten + i]
  /\ \A i \in 1..Forgotten : granted[i] <= stamp - W

LimiterInv == TypeOK /\ InOrder /\ DequeIsTheTail /\ GrantsAreSpaced

\* Every step of the limiter keeps the deque the unexpired end of the history.
LEMMA NextLimiterInv == LimiterInv /\ [Next]_vars => LimiterInv'
<1> SUFFICES ASSUME LimiterInv, [Next]_vars PROVE LimiterInv'
  OBVIOUS
<1>n. N \in Nat \ {0} /\ W \in Nat \ {0}
  BY RateLimiterAssumption
<1>t. /\ TypeOK
      /\ Len(times) \in Nat /\ Len(granted) \in Nat /\ Forgotten \in 0..Len(granted)
      /\ stamp \in Nat /\ now \in Nat /\ stamp <= now
      /\ \A i \in 1..Len(granted) : granted[i] \in Nat
  BY DEF LimiterInv, TypeOK, InOrder, DequeIsTheTail, Forgotten
<1>o. InOrder /\ DequeIsTheTail /\ GrantsAreSpaced
  BY DEF LimiterInv
<1>1. CASE Enter
  <2>1. stamp <= stamp' /\ stamp' = now /\ UNCHANGED <<now, times, granted>>
        /\ enforcing' \in BOOLEAN
    BY <1>1, <1>t DEF Enter
  <2>2. TypeOK' /\ GrantsAreSpaced' /\ Forgotten' = Forgotten
    BY <2>1, <1>t, <1>o DEF TypeOK, GrantsAreSpaced, Forgotten
  <2>3. InOrder'
    BY <2>1, <1>t, <1>o DEF InOrder
  <2>4. ASSUME NEW i \in 1..Forgotten' PROVE granted'[i] <= stamp' - W
    <3>1. granted[i] <= stamp - W /\ granted[i] \in Nat
      BY <2>2, <1>t, <1>o DEF DequeIsTheTail
    <3> QED
      BY <2>1, <3>1, <1>t, <1>n
  <2>5. DequeIsTheTail'
    BY <2>1, <2>2, <2>4, <1>o DEF DequeIsTheTail
  <2> QED
    BY <2>2, <2>3, <2>5 DEF LimiterInv
<1>2. CASE Forget
  <2>1. /\ times' \in Seq(Nat) /\ Len(times') = Len(times) - 1 /\ Len(times) > 0
        /\ \A i \in 1..Len(times') : times'[i] = times[i + 1]
        /\ times[1] <= stamp - W
    BY <1>2, <1>t DEF Forget, Outlived, TypeOK
  <2>2. UNCHANGED <<now, enforcing, stamp, granted>>
    BY <1>2 DEF Forget
  <2>3. Forgotten' = Forgotten + 1 /\ Forgotten' >= 0
    BY <2>1, <2>2, <1>t DEF Forgotten
  <2>4. \A i \in 1..Forgotten' : granted[i] <= stamp - W
    <3>1. times[1] = granted[Forgotten + 1]
      BY <2>1, <1>t, <1>o DEF DequeIsTheTail
    <3> QED BY <2>1, <2>3, <3>1, <1>t, <1>o DEF DequeIsTheTail
  <2>5. \A i \in 1..Len(times') : times'[i] = granted[Forgotten' + i]
    BY <2>1, <2>3, <1>t, <1>o DEF DequeIsTheTail
  <2>6. TypeOK' /\ InOrder' /\ GrantsAreSpaced'
    BY <2>1, <2>2, <1>t, <1>o, <1>n DEF TypeOK, InOrder, GrantsAreSpaced
  <2>7. DequeIsTheTail'
    BY <2>2, <2>3, <2>4, <2>5 DEF DequeIsTheTail
  <2> QED
    BY <2>6, <2>7 DEF LimiterInv
<1>3. CASE Grant
  <2>1. /\ times' \in Seq(Nat) /\ granted' \in Seq(Nat)
        /\ Len(times') = Len(times) + 1 /\ Len(granted') = Len(granted) + 1
        /\ \A i \in 1..Len(times) : times'[i] = times[i]
        /\ \A i \in 1..Len(granted) : granted'[i] = granted[i]
        /\ times'[Len(times) + 1] = stamp /\ granted'[Len(granted) + 1] = stamp
    BY <1>3, <1>t DEF Grant, TypeOK
  <2>2. UNCHANGED <<now, stamp>> /\ enforcing' = FALSE /\ Len(times) < N
    BY <1>3 DEF Grant, Admits
  <2>l. Len(granted') = Len(granted) + 1 /\ Len(times') = Len(times) + 1
    BY <2>1
  <2>3. TypeOK'
    <3>1. enforcing' \in BOOLEAN
      BY <2>2, Zenon
    <3>2. now' \in Nat /\ stamp' \in Nat /\ Len(times') <= N
      BY <2>2, <2>l, <1>t, <1>n
    <3> QED
      BY <2>1, <3>1, <3>2, Zenon DEF TypeOK
  <2>f. Forgotten' = Forgotten /\ Forgotten \in 0..Len(granted)
    BY <2>1, <1>t DEF Forgotten
  <2>4. InOrder'
    <3>1. ASSUME NEW i \in 1..Len(granted') PROVE granted'[i] <= stamp'
      <4>1. CASE i \in 1..Len(granted)
        BY <2>1, <2>2, <4>1, <1>o DEF InOrder
      <4>2. CASE i = Len(granted) + 1
        BY <2>1, <2>2, <4>2, <1>t
      <4> QED BY <2>l, <1>t, <4>1, <4>2
    <3>2. ASSUME NEW i \in 1..Len(granted'), NEW j \in 1..Len(granted'), i <= j
          PROVE  granted'[i] <= granted'[j]
      <4>1. CASE j \in 1..Len(granted)
        <5>1. i \in 1..Len(granted)
          BY <3>2, <4>1, <1>t
        <5> QED
          BY <2>1, <3>2, <4>1, <5>1, <1>o DEF InOrder
      <4>2. CASE j = Len(granted) + 1
        BY <2>1, <2>2, <3>1, <4>2
      <4> QED BY <2>l, <1>t, <4>1, <4>2
    <3> QED
      BY <2>2, <3>1, <3>2, <1>t DEF InOrder
  <2>5. DequeIsTheTail'
    <3>1. ASSUME NEW i \in 1..Len(times')
          PROVE  times'[i] = granted'[Forgotten' + i]
      <4>1. CASE i \in 1..Len(times)
        <5>1. Forgotten + i \in 1..Len(granted)
          BY <4>1, <1>t, <2>f DEF Forgotten
        <5> QED
          BY <2>1, <2>f, <4>1, <5>1, <1>o DEF DequeIsTheTail
      <4>2. CASE i = Len(times) + 1
        BY <2>1, <2>f, <1>t, <4>2 DEF Forgotten
      <4> QED
        BY <2>1, <1>t, <4>1, <4>2
    <3>2. ASSUME NEW i \in 1..Forgotten'
          PROVE  granted'[i] <= stamp' - W
      <4>1. i \in 1..Forgotten /\ i \in 1..Len(granted)
        BY <2>f
      <4> QED
        BY <2>1, <2>2, <4>1, <1>o DEF DequeIsTheTail
    <3> QED
      BY <2>f, <3>1, <3>2 DEF DequeIsTheTail
  <2>6. GrantsAreSpaced'
    <3> SUFFICES ASSUME NEW i \in 1..Len(granted'), i + N <= Len(granted')
                 PROVE  granted'[i + N] - granted'[i] >= W
      BY DEF GrantsAreSpaced
    <3>1. CASE i + N <= Len(granted)
      <4>1. i \in 1..Len(granted) /\ i + N \in 1..Len(granted)
        BY <1>n, <1>t, <3>1
      <4> QED
        BY <2>1, <3>1, <4>1, <1>o DEF GrantsAreSpaced
    <3>2. CASE i + N = Len(granted) + 1
      <4>1. i \in 1..Forgotten /\ i \in 1..Len(granted)
        BY <2>2, <1>n, <1>t, <3>2 DEF Forgotten
      <4>2. granted[i] <= stamp - W /\ granted'[i] = granted[i] /\ granted'[i + N] = stamp
        BY <2>1, <3>2, <4>1, <1>o DEF DequeIsTheTail
      <4> QED BY <1>n, <1>t, <4>1, <4>2
    <3> QED BY <2>l, <1>n, <1>t, <3>1, <3>2
  <2> QED
    BY <2>3, <2>4, <2>5, <2>6 DEF LimiterInv
<1>4. CASE Refuse \/ Tick \/ UNCHANGED vars
  <2>1. UNCHANGED <<stamp, times, granted>> /\ now' \in Nat /\ stamp <= now'
    BY <1>4, <1>t DEF Refuse, Tick, vars
  <2>b. enforcing' \in BOOLEAN
    BY <1>4, <1>t, Zenon DEF Refuse, Tick, vars, TypeOK
  <2>2. TypeOK' /\ InOrder' /\ GrantsAreSpaced' /\ DequeIsTheTail'
    BY <2>1, <2>b, <1>t, <1>o
       DEF TypeOK, InOrder, GrantsAreSpaced, DequeIsTheTail, Forgotten
  <2> QED
    BY <2>2 DEF LimiterInv
<1> QED
  BY <1>1, <1>2, <1>3, <1>4 DEF Next

\* The invariant holds in every state of the limiter.
LEMMA LimiterInvariant == Spec => []LimiterInv
<1>1. Init => LimiterInv
  <2> SUFFICES ASSUME Init PROVE LimiterInv
    OBVIOUS
  <2>1. /\ times \in Seq(Nat) /\ granted \in Seq(Nat)
        /\ Len(times) = 0 /\ Len(granted) = 0
    BY DEF Init
  <2>b. enforcing \in BOOLEAN
    BY Zenon DEF Init
  <2>2. TypeOK /\ Forgotten = 0 /\ stamp = 0 /\ now = 0
    BY <2>1, <2>b, RateLimiterAssumption DEF Init, TypeOK, Forgotten
  <2> QED
    BY <2>1, <2>2 DEF LimiterInv, InOrder, DequeIsTheTail, GrantsAreSpaced
<1> QED
  BY <1>1, NextLimiterInv, PTL DEF Spec

\* The deque never outgrows policy.requests (enforce).
THEOREM DequeBounded == Spec => []TypeOK
  BY LimiterInvariant, PTL DEF LimiterInv

\* No window of window_seconds sees more than policy.requests grants.
THEOREM WindowBound == Spec => []GrantsAreSpaced
  BY LimiterInvariant, PTL DEF LimiterInv

\* A call is refused only when the last policy.requests grants are all in its
\* window: a purged deque that is full is exactly those grants.
THEOREM RefusalsJustified == Spec => []RefusedOnlyWhenFull
<1>1. LimiterInv => RefusedOnlyWhenFull
  <2> SUFFICES ASSUME LimiterInv, enforcing, Purged, ~Admits
               PROVE  /\ Len(granted) >= N
                      /\ \A i \in 1..Len(granted) :
                           i > Len(granted) - N => granted[i] > stamp - W
    BY DEF RefusedOnlyWhenFull
  <2> USE RateLimiterAssumption DEF LimiterInv, TypeOK, InOrder, DequeIsTheTail, Forgotten
  <2>1. Len(times) = N /\ times[1] > stamp - W
    BY DEF Admits, Purged, Outlived
  <2>2. granted[Len(granted) - N + 1] > stamp - W /\ Len(granted) >= N
    BY <2>1
  <2>3. ASSUME NEW i \in 1..Len(granted), i > Len(granted) - N
        PROVE  granted[i] > stamp - W
    <3> DEFINE j == Len(granted) - N + 1
    <3>1. j \in 1..Len(granted) /\ j <= i
      BY <2>2, <2>3
    <3>2. granted[j] <= granted[i] /\ granted[i] \in Nat /\ granted[j] \in Nat
      BY <3>1
    <3> QED
      BY <2>2, <3>2
  <2> QED
    BY <2>2, <2>3
<1> QED
  BY <1>1, LimiterInvariant, PTL
-----------------------------------------------------------------------------
(***************************************************************************)
(* The server uses the limiter as it is meant to be used.                  *)
(***************************************************************************)
\* Whatever the connections do, the limiter behind them behaves as the limiter
\* alone: one call at a time holds its lock (preview_dataset awaits enforce).
THEOREM ServerUsesLimiter == HttpSpec => Spec
<1>1. HttpInit => Init
  BY DEF HttpInit
<1>2. [HttpNext]_httpVars => [Next]_vars
  BY DEF HttpNext, Arrive, Serve, Buffer, AppReads, PreviewLocally, CallLimiter,
         LimiterReturns, Close, LimiterStep, ClockStep, Next, limiterVars, vars, httpVars
<1> QED
  BY <1>1, <1>2, PTL DEF HttpSpec, Spec

\* So its bounds hold for the requests of all connections together.
THEOREM ServerKeepsLimits ==
  HttpSpec => [](TypeOK /\ GrantsAreSpaced /\ RefusedOnlyWhenFull)
  BY ServerUsesLimiter, DequeBounded, WindowBound, RefusalsJustified, PTL
-----------------------------------------------------------------------------
(***************************************************************************)
(* The middleware.  A message that is not the last of a body announces     *)
(* more; the application has read all messages but the last when it acts,  *)
(* so the replay never runs dry before, nor is anything left over.         *)
(***************************************************************************)
Message == [type : {"http.request", "http.disconnect"}, part : Nat, size : Nat,
            more : BOOLEAN]

Connection ==
  [pc       : {"idle", "buffering", "app", "called", "enforcing", "answered"},
   request  : Arrivals \cup {Idle.request},
   messages : Seq(Message),
   sent     : Seq(Message),
   read     : Seq(Message),
   status   : Nat,
   served   : Nat]

More(m) == m.type = "http.request" /\ m.more

\* read and messages are the two parts of sent, and only its last message ends
\* the body.
Replaying(k) ==
  /\ Len(k.sent) > 0 /\ Len(k.read) + Len(k.messages) = Len(k.sent)
  /\ \A i \in 1..Len(k.read) : k.read[i] = k.sent[i]
  /\ \A i \in 1..Len(k.messages) : k.messages[i] = k.sent[Len(k.read) + i]
  /\ \A i \in 1..Len(k.sent) : More(k.sent[i]) <=> i < Len(k.sent)
  /\ \A i \in 1..Len(k.read) : More(k.read[i])

CallsPreview(k) ==
  /\ k.request.verb = "POST"
  /\ DocumentOf(k.request, k.read).method = "tools/call"
  /\ DocumentOf(k.request, k.read).target \in RefreshTools

Decided(k) ==
  /\ k.pc \in {"buffering", "app", "called", "enforcing"} =>
       k.request \in Arrivals /\ k.request.token = "valid"
  /\ k.pc = "buffering" =>
       k.read = <<>> /\ \A i \in 1..Len(k.messages) : More(k.messages[i])
  /\ k.pc = "app" => Replaying(k) /\ Verdict(k.request, k.sent) = 0
  /\ k.pc \in {"called", "enforcing"} =>
       k.read = k.sent /\ Verdict(k.request, k.sent) = 0 /\ CallsPreview(k)

HttpInv ==
  /\ conn \in [Clients -> Connection]
  /\ \A c \in Clients : Decided(conn[c])
  /\ capabilities = CapabilitiesOf(role)

\* Nothing of a request is held by an idle connection.
LEMMA IdleType ==
  /\ Idle \in Connection
  /\ Idle.pc = "idle" /\ Idle.read = <<>> /\ Idle.messages = <<>>
<1> DEFINE r == Idle.request
<1>1. /\ Idle = [pc |-> "idle", request |-> r, messages |-> <<>>, sent |-> <<>>,
                 read |-> <<>>, status |-> 0, served |-> 0]
  BY DEF Idle
<1> HIDE DEF r
<1>2. <<>> \in Seq(Message)
  OBVIOUS
<1>3. r = Idle.request
  BY DEF r
<1> QED
  BY <1>1, <1>2, <1>3 DEF Connection

\* A connection that is idle or answered is under no obligation.
LEMMA AtRest ==
  ASSUME NEW c \in Clients, conn[c] \in Connection, NEW status \in Nat
  PROVE  /\ Idle \in Connection
         /\ Answer(c, status) \in Connection /\ Answer(c, status).pc = "answered"
         /\ [Idle EXCEPT !.served = conn[c].served] \in Connection
         /\ [Idle EXCEPT !.served = conn[c].served].pc = "idle"
<1>1. Idle \in Connection /\ Idle.pc = "idle"
  BY IdleType
<1>2. conn[c].served \in Nat
  BY DEF Connection
<1> QED
  BY <1>1, <1>2 DEF Connection, Answer

\* The status the headers alone earn, and the verdict on a body, are statuses.
LEMMA Statuses ==
  ASSUME NEW r
  PROVE  EarlyStatus(r) \in Nat /\ \A messages : Verdict(r, messages) \in Nat
<1>1. EarlyStatus(r) \in Nat
  BY DEF EarlyStatus, IsProbe, TooLong
<1>2. ASSUME NEW messages PROVE Verdict(r, messages) \in Nat
  BY DEF Verdict
<1> QED
  BY <1>1, <1>2

\* A new request is buffered only with the token (HTTPBearerAuthMiddleware).
LEMMA ArriveDecides ==
  ASSUME HttpInv, NEW c \in Clients, Arrive(c)
  PROVE  conn'[c] \in Connection /\ Decided(conn[c])'
<1>1. conn[c] \in Connection /\ conn[c].served + 1 \in Nat
  BY DEF HttpInv, Connection
<1>2. PICK r \in Arrivals :
        LET new == [Idle EXCEPT !.served = conn[c].served + 1]
        IN  conn'[c] = IF EarlyStatus(r) = 0
                       THEN [new EXCEPT !.pc = "buffering", !.request = r]
                       ELSE [new EXCEPT !.pc = "answered", !.status = EarlyStatus(r)]
  BY DEF Arrive, HttpInv
<1>3. EarlyStatus(r) \in Nat
  BY Statuses
<1>4. conn'[c] \in Connection
  BY <1>1, <1>2, <1>3, IdleType DEF Connection
<1>5. CASE EarlyStatus(r) = 0
  <2>1. r.token = "valid"
    BY <1>5 DEF EarlyStatus, IsProbe, TooLong
  <2>2. /\ conn'[c].pc = "buffering" /\ conn'[c].request = r
        /\ conn'[c].read = <<>> /\ conn'[c].messages = <<>>
    BY <1>1, <1>2, <1>5, IdleType DEF Connection
  <2> QED
    BY <1>4, <2>1, <2>2 DEF Decided
<1>6. CASE EarlyStatus(r) # 0
  <2>1. conn'[c].pc = "answered"
    BY <1>1, <1>2, <1>6, IdleType DEF Connection
  <2> QED
    BY <1>4, <2>1 DEF Decided
<1> QED
  BY <1>4, <1>5, <1>6

\* What is handed over ends with the first message that announces no more.
LEMMA BufferDecides ==
  ASSUME HttpInv, NEW c \in Clients, Buffer(c)
  PROVE  conn'[c] \in Connection /\ Decided(conn[c])'
<1> USE DEF HttpInv
<1>k. /\ conn[c] \in Connection /\ conn[c].pc = "buffering"
      /\ conn[c].request \in Arrivals /\ conn[c].request.token = "valid"
      /\ conn[c].read = <<>>
      /\ \A i \in 1..Len(conn[c].messages) : More(conn[c].messages[i])
      /\ conn[c].messages \in Seq(Message)
  BY DEF Buffer, Decided, Connection
<1>1. PICK m \in Incoming(c) :
        LET messages == Append(conn[c].messages, m)
            more     == m.type = "http.request" /\ m.more
            verdict  == Verdict(conn[c].request, messages)
        IN  conn' = [conn EXCEPT ![c] =
             CASE TooLong(Sizes(messages)) ->
                    Answer(c, 413)
               [] ~TooLong(Sizes(messages)) /\ more ->
                    [conn[c] EXCEPT !.messages = messages]
               [] ~TooLong(Sizes(messages)) /\ ~more /\ verdict # 0 -> Answer(c, verdict)
               [] OTHER -> [conn[c] EXCEPT !.pc = "app", !.messages = messages,
                                           !.sent = messages]]
  BY DEF Buffer
<1>m. m \in Message
  <2>1. Disconnect \in Message
    BY DEF Disconnect, Message
  <2>2. ASSUME NEW i \in DOMAIN conn[c].request.sizes PROVE Chunk(conn[c].request, i) \in Message
    <3>1. conn[c].request.sizes \in Seq(Nat)
      BY <1>k, ArrivalsAssumption
    <3> QED
      BY <3>1 DEF Chunk, Message
  <2> QED
    BY <2>1, <2>2 DEF Incoming
<1> DEFINE messages == Append(conn[c].messages, m)
           verdict == Verdict(conn[c].request, messages)
<1>2. /\ messages \in Seq(Message)
      /\ Len(messages) = Len(conn[c].messages) + 1
      /\ \A i \in 1..Len(conn[c].messages) : messages[i] = conn[c].messages[i]
      /\ messages[Len(messages)] = m
      /\ Len(conn[c].messages) \in Nat
  BY <1>k, <1>m
<1>3. verdict \in Nat
  BY Statuses
<1>u. UNCHANGED capabilities
  BY DEF Buffer, configVars
<1> HIDE DEF messages, verdict
<1>4. \/ \E status \in Nat : conn'[c] = Answer(c, status)
      \/ More(m) /\ conn'[c] = [conn[c] EXCEPT !.messages = messages]
      \/ /\ ~More(m) /\ verdict = 0
         /\ conn'[c] = [conn[c] EXCEPT !.pc = "app", !.messages = messages, !.sent = messages]
  BY <1>1, <1>3 DEF messages, verdict, More
<1>5. CASE \E status \in Nat : conn'[c] = Answer(c, status)
  <2>1. conn'[c] \in Connection /\ conn'[c].pc = "answered"
    BY <1>5, <1>k, AtRest
  <2> QED
    BY <2>1 DEF Decided
<1>6. CASE More(m) /\ conn'[c] = [conn[c] EXCEPT !.messages = messages]
  <2>1. /\ conn'[c] \in Connection /\ conn'[c].pc = "buffering"
        /\ conn'[c].request = conn[c].request /\ conn'[c].read = <<>>
        /\ conn'[c].messages = messages
    BY <1>6, <1>2, <1>k DEF Connection
  <2>2. \A i \in 1..Len(messages) : More(messages[i])
    BY <1>6, <1>2, <1>k
  <2> QED
    BY <2>1, <2>2, <1>k DEF Decided
<1>7. CASE /\ ~More(m) /\ verdict = 0
           /\ conn'[c] = [conn[c] EXCEPT !.pc = "app", !.messages = messages, !.sent = messages]
  <2>1. /\ conn'[c] \in Connection /\ conn'[c].pc = "app"
        /\ conn'[c].request = conn[c].request /\ conn'[c].read = <<>>
        /\ conn'[c].messages = messages /\ conn'[c].sent = messages
    BY <1>7, <1>2, <1>k DEF Connection
  <2>2. \A i \in 1..Len(messages) : More(messages[i]) <=> i < Len(messages)
    BY <1>7, <1>2, <1>k
  <2>3. Replaying(conn[c])'
    BY <2>1, <2>2, <1>2 DEF Replaying
  <2>4. Verdict(conn[c].request, conn[c].sent)' = 0
    BY <1>7, <2>1, <1>u DEF Verdict, verdict
  <2> QED
    BY <2>1, <2>3, <2>4, <1>k DEF Decided
<1> QED
  BY <1>4, <1>5, <1>6, <1>7

\* While the application reads there is always a message left to replay.
LEMMA ReplayHasNext ==
  ASSUME NEW k \in Connection, Replaying(k)
  PROVE  /\ k.messages # <<>>
         /\ Len(k.read) \in Nat /\ Len(k.sent) \in Nat
         /\ Len(k.read) < Len(k.sent)
         /\ Head(k.messages) = k.sent[Len(k.read) + 1]
<1>1. k.read \in Seq(Message) /\ k.sent \in Seq(Message) /\ k.messages \in Seq(Message)
  BY DEF Connection
<1>2. Len(k.read) \in Nat /\ Len(k.sent) \in Nat /\ Len(k.messages) \in Nat
  BY <1>1
<1>l. Len(k.sent) > 0 /\ Len(k.read) + Len(k.messages) = Len(k.sent)
  BY DEF Replaying
<1>3. Len(k.read) # Len(k.sent)
  <2> SUFFICES ASSUME Len(k.read) = Len(k.sent) PROVE FALSE
    OBVIOUS
  <2>1. Len(k.sent) \in 1..Len(k.read)
    BY <1>2 DEF Replaying
  <2>2. More(k.read[Len(k.sent)]) /\ k.read[Len(k.sent)] = k.sent[Len(k.sent)]
    BY <2>1 DEF Replaying
  <2>3. ~More(k.sent[Len(k.sent)])
    BY <1>2 DEF Replaying
  <2> QED
    BY <2>2, <2>3
<1>4. Len(k.messages) > 0
  <2> DEFINE r == Len(k.read)  l == Len(k.messages)  n == Len(k.sent)
  <2>1. r \in Nat /\ l \in Nat /\ n \in Nat /\ r + l = n /\ r # n
    BY <1>2, <1>3, <1>l
  <2> HIDE DEF r, l, n
  <2>2. l > 0
    BY <2>1
  <2> QED
    BY <2>2 DEF l
<1>5. Head(k.messages) = k.messages[1] /\ 1 \in 1..Len(k.messages)
  BY <1>1, <1>2, <1>4
<1> QED
  BY <1>1, <1>2, <1>3, <1>4, <1>5 DEF Replaying

\* The replay goes on where it was, and the tool is called when it is at its
\* end (replay_receive).
LEMMA AppReadsDecides ==
  ASSUME HttpInv, NEW c \in Clients, AppReads(c)
  PROVE  conn'[c] \in Connection /\ Decided(conn[c])'
<1> USE DEF HttpInv
<1> DEFINE k == conn[c]
           m == Head(k.messages)
           read == Append(k.read, m)
           left == Tail(k.messages)
           call == [k EXCEPT !.messages = left, !.read = read]
<1>k. /\ k \in Connection /\ k.pc = "app"
      /\ k.request \in Arrivals /\ k.request.token = "valid"
      /\ Replaying(k) /\ Verdict(k.request, k.sent) = 0
      /\ k.read \in Seq(Message) /\ k.sent \in Seq(Message) /\ k.messages \in Seq(Message)
  BY DEF AppReads, Decided, Connection
<1>n. /\ k.messages # <<>>
      /\ Len(k.read) \in Nat /\ Len(k.sent) \in Nat /\ Len(k.read) < Len(k.sent)
      /\ m = k.sent[Len(k.read) + 1]
  BY <1>k, ReplayHasNext
<1>m. /\ m \in Message
      /\ read \in Seq(Message) /\ Len(read) = Len(k.read) + 1
      /\ \A i \in 1..Len(k.read) : read[i] = k.read[i]
      /\ read[Len(k.read) + 1] = m
      /\ left \in Seq(Message) /\ Len(left) = Len(k.messages) - 1
      /\ \A i \in 1..Len(left) : left[i] = k.messages[i + 1]
      /\ Len(k.messages) \in Nat
  BY <1>k, <1>n
<1>r. ReplayReceive(k.messages) = <<m, left>>
  BY <1>n DEF ReplayReceive, NextReplay
<1> DEFINE d == DocumentOf(k.request, read)
<1>u. UNCHANGED capabilities
  BY DEF AppReads, configVars
<1>1. \/ More(m) /\ conn'[c] = call
      \/ \E status \in Nat : conn'[c] = Answer(c, status)
      \/ /\ m.type = "http.request" /\ ~m.more
         /\ k.request.verb = "POST" /\ d.method = "tools/call" /\ d.target \in RefreshTools
         /\ conn'[c] = [call EXCEPT !.pc = "called"]
  <2>1. conn' = [conn EXCEPT ![c] =
           CASE m.type = "http.request" /\ m.more -> call
             [] m.type # "http.request" -> Answer(c, 0)
             [] OTHER ->
                  IF /\ k.request.verb = "POST"
                     /\ d.method = "tools/call" /\ d.target \in RefreshTools
                  THEN [call EXCEPT !.pc = "called"]
                  ELSE Answer(c, 200)]
    BY <1>r DEF AppReads
  <2> HIDE DEF k, m, read, left, call, d
  <2>2. m.type = "http.request" /\ m.more => conn'[c] = call
    BY <2>1
  <2>3. m.type # "http.request" => conn'[c] = Answer(c, 0)
    BY <2>1
  <2>4. m.type = "http.request" /\ ~m.more =>
          conn'[c] = IF /\ k.request.verb = "POST"
                        /\ d.method = "tools/call" /\ d.target \in RefreshTools
                     THEN [call EXCEPT !.pc = "called"]
                     ELSE Answer(c, 200)
    BY <2>1
  <2> QED
    BY <2>2, <2>3, <2>4 DEF More
<1> HIDE DEF m, read, left
<1>2. CASE More(m) /\ conn'[c] = call
  <2>1. /\ conn'[c] \in Connection /\ conn'[c].pc = "app"
        /\ conn'[c].request = k.request /\ conn'[c].sent = k.sent
        /\ conn'[c].messages = left /\ conn'[c].read = read
    BY <1>2, <1>k, <1>m DEF Connection
  <2>2. Replaying(conn[c])'
    <3>1. ASSUME NEW i \in 1..Len(read) PROVE read[i] = k.sent[i] /\ More(read[i])
      <4>1. CASE i \in 1..Len(k.read)
        BY <4>1, <1>m, <1>k DEF Replaying
      <4>2. CASE i = Len(k.read) + 1
        BY <4>2, <1>2, <1>m, <1>n
      <4> QED BY <1>m, <1>n, <4>1, <4>2
    <3>2. ASSUME NEW i \in 1..Len(left) PROVE left[i] = k.sent[Len(read) + i]
      BY <1>m, <1>n, <1>k DEF Replaying
    <3>3. Len(k.sent) > 0 /\ Len(read) + Len(left) = Len(k.sent)
      <4>1. Len(k.sent) > 0 /\ Len(k.read) + Len(k.messages) = Len(k.sent)
        BY <1>k DEF Replaying
      <4> DEFINE r == Len(k.read)  l == Len(k.messages)  n == Len(k.sent)
      <4>2. r \in Nat /\ l \in Nat /\ n \in Nat /\ r + l = n
        BY <4>1, <1>m, <1>n
      <4>3. Len(read) = r + 1 /\ Len(left) = l - 1
        BY <1>m
      <4> HIDE DEF r, l, n
      <4>4. Len(read) + Len(left) = n
        BY <4>2, <4>3
      <4> QED BY <4>1, <4>4 DEF n
    <3>4. \A i \in 1..Len(k.sent) : More(k.sent[i]) <=> i < Len(k.sent)
      BY <1>k DEF Replaying
    <3> QED
      BY <2>1, <3>1, <3>2, <3>3, <3>4 DEF Replaying
  <2>3. Verdict(conn[c].request, conn[c].sent)' = 0
    BY <1>k, <2>1, <1>u DEF Verdict
  <2> QED
    BY <2>1, <2>2, <2>3, <1>k DEF Decided
<1>3. CASE \E status \in Nat : conn'[c] = Answer(c, status)
  <2>1. conn'[c] \in Connection /\ conn'[c].pc = "answered"
    BY <1>3, <1>k, AtRest
  <2> QED
    BY <2>1 DEF Decided
<1>4. CASE /\ m.type = "http.request" /\ ~m.more
           /\ k.request.verb = "POST" /\ d.method = "tools/call" /\ d.target \in RefreshTools
           /\ conn'[c] = [call EXCEPT !.pc = "called"]
  <2>1. /\ conn'[c] \in Connection /\ conn'[c].pc = "called"
        /\ conn'[c].request = k.request /\ conn'[c].sent = k.sent /\ conn'[c].read = read
    BY <1>4, <1>k, <1>m DEF Connection
  <2>2. Len(k.read) + 1 = Len(k.sent)
    <3>1. Len(k.read) + 1 \in 1..Len(k.sent) /\ ~More(k.sent[Len(k.read) + 1])
      BY <1>4, <1>n DEF More
    <3> QED
      BY <3>1, <1>n, <1>k DEF Replaying
  <2>3. read = k.sent
    <3>1. Len(read) = Len(k.sent)
      BY <1>m, <2>2
    <3>2. ASSUME NEW i \in 1..Len(read) PROVE read[i] = k.sent[i]
      <4>1. CASE i \in 1..Len(k.read)
        BY <4>1, <1>m, <1>k DEF Replaying
      <4>2. CASE i = Len(k.read) + 1
        BY <4>2, <1>m, <1>n
      <4> QED BY <1>m, <1>n, <4>1, <4>2
    <3> QED
      BY <3>1, <3>2, <1>m, <1>k, SeqEqual
  <2>4. Verdict(conn[c].request, conn[c].sent)' = 0
    BY <1>k, <2>1, <1>u DEF Verdict
  <2>5. CallsPreview(conn[c])'
    BY <1>4, <2>1 DEF CallsPreview
  <2> QED
    BY <2>1, <2>3, <2>4, <2>5, <1>k DEF Decided
<1> QED
  BY <1>1, <1>2, <1>3, <1>4

\* A step of one connection leaves the others, and the configuration, alone.
LEMMA ConnectionStep ==
  ASSUME HttpInv, NEW c \in Clients, Arrive(c) \/ Serve(c) \/ Close(c)
  PROVE  /\ UNCHANGED configVars
         /\ conn' = [conn EXCEPT ![c] = conn'[c]]
<1>c. conn \in [Clients -> Connection]
  BY DEF HttpInv
<1>1. ASSUME NEW k, conn' = [conn EXCEPT ![c] = k]
      PROVE  conn' = [conn EXCEPT ![c] = conn'[c]]
  BY <1>1, <1>c
<1>2. CASE Arrive(c)
  BY <1>2, <1>1 DEF Arrive, configVars
<1>3. CASE Buffer(c)
  BY <1>3, <1>1 DEF Buffer, configVars
<1>4. CASE AppReads(c)
  BY <1>4, <1>1 DEF AppReads, configVars
<1>5. CASE PreviewLocally(c) \/ LimiterReturns(c) \/ Close(c)
  BY <1>5, <1>1 DEF PreviewLocally, LimiterReturns, Close, configVars
<1>6. CASE CallLimiter(c)
  BY <1>6, <1>1 DEF CallLimiter, configVars
<1> QED
  BY <1>2, <1>3, <1>4, <1>5, <1>6 DEF Serve

\* The connection that takes the step stays within what was decided.
LEMMA StepDecides ==
  ASSUME HttpInv, NEW c \in Clients, Arrive(c) \/ Serve(c) \/ Close(c)
  PROVE  conn'[c] \in Connection /\ Decided(conn[c])'
<1> USE DEF HttpInv
<1>c. conn[c] \in Connection
  OBVIOUS
<1>1. CASE PreviewLocally(c) \/ LimiterReturns(c) \/ Close(c)
  <2>1. conn'[c] \in {Answer(c, 200), [Idle EXCEPT !.served = conn[c].served]}
    BY <1>1 DEF PreviewLocally, LimiterReturns, Close
  <2>2. conn'[c] \in Connection /\ conn'[c].pc \in {"answered", "idle"}
    <3>1. 200 \in Nat
      OBVIOUS
    <3>2. /\ Answer(c, 200) \in Connection /\ Answer(c, 200).pc = "answered"
          /\ [Idle EXCEPT !.served = conn[c].served] \in Connection
          /\ [Idle EXCEPT !.served = conn[c].served].pc = "idle"
      BY <1>c, <3>1, AtRest
    <3> QED
      BY <2>1, <3>2
  <2> QED
    BY <2>2 DEF Decided
<1>2. CASE CallLimiter(c)
  <2>1. conn'[c] = [conn[c] EXCEPT !.pc = "enforcing"] /\ conn[c].pc = "called"
    BY <1>2 DEF CallLimiter
  <2>2. /\ conn'[c] \in Connection /\ conn'[c].pc = "enforcing"
        /\ conn'[c].request = conn[c].request /\ conn'[c].read = conn[c].read
        /\ conn'[c].sent = conn[c].sent
    BY <2>1, <1>c DEF Connection
  <2>3. Verdict(conn[c].request, conn[c].sent)' = 0 /\ CallsPreview(conn[c])'
    BY <1>2, <2>1, <2>2 DEF CallLimiter, configVars, Verdict, Decided, CallsPreview
  <2> QED
    BY <2>1, <2>2, <2>3 DEF Decided
<1> QED
  BY <1>1, <1>2, ArriveDecides, BufferDecides, AppReadsDecides DEF Serve

\* The invariant holds in every state of the server: the configuration is that
\* of a role, and every connection within what was decided on it.
LEMMA HttpInvariant == HttpSpec => []HttpInv
<1>1. HttpInit => HttpInv
  <2> SUFFICES ASSUME HttpInit PROVE HttpInv
    OBVIOUS
  <2>1. \A c \in Clients : conn[c] = Idle
    BY DEF HttpInit
  <2>2. conn \in [Clients -> Connection] /\ \A c \in Clients : Decided(conn[c])
    BY <2>1, IdleType DEF HttpInit, Decided
  <2>3. capabilities = CapabilitiesOf(role)
    BY DEF HttpInit, ConfigurationAccepted, RoleBundleMatches
  <2> QED
    BY <2>2, <2>3 DEF HttpInv
<1>2. HttpInv /\ [HttpNext]_httpVars => HttpInv'
  <2> SUFFICES ASSUME HttpInv, [HttpNext]_httpVars PROVE HttpInv'
    OBVIOUS
  <2>1. CASE UNCHANGED <<configVars, conn>>
    BY <2>1 DEF HttpInv, Decided, CallsPreview, Verdict, configVars
  <2>2. ASSUME NEW c \in Clients, Arrive(c) \/ Serve(c) \/ Close(c)
        PROVE  HttpInv'
    <3>1. UNCHANGED configVars /\ conn' = [conn EXCEPT ![c] = conn'[c]]
      BY <2>2, ConnectionStep
    <3>2. conn'[c] \in Connection /\ Decided(conn[c])'
      BY <2>2, StepDecides
    <3>3. conn' \in [Clients -> Connection]
      BY <3>1, <3>2 DEF HttpInv
    <3>4. ASSUME NEW e \in Clients \ {c} PROVE Decided(conn[e])'
      <4>1. conn'[e] = conn[e] /\ UNCHANGED capabilities /\ Decided(conn[e])
        BY <3>1 DEF configVars, HttpInv
      <4> QED
        BY <4>1 DEF Decided, CallsPreview, Verdict
    <3> QED
      BY <3>1, <3>2, <3>3, <3>4 DEF HttpInv, configVars
  <2> QED
    BY <2>1, <2>2 DEF HttpNext, LimiterStep, ClockStep, httpVars, configVars
<1> QED
  BY <1>1, <1>2, PTL DEF HttpSpec

\* The application acts on the very messages the decision was taken on
\* (_buffer_http_request_body, replay_receive).
THEOREM DecisionsAreActedOn == HttpSpec => []ActsOnWhatWasDecided
<1>1. HttpInv => ActsOnWhatWasDecided
  <2> SUFFICES ASSUME HttpInv, NEW c \in Clients
               PROVE  /\ conn[c].pc = "app" => conn[c].read \o conn[c].messages = conn[c].sent
                      /\ conn[c].pc = "called" => conn[c].read = conn[c].sent
    BY DEF ActsOnWhatWasDecided
  <2>1. conn[c].pc = "called" => conn[c].read = conn[c].sent
    BY DEF HttpInv, Decided
  <2>2. ASSUME conn[c].pc = "app" PROVE conn[c].read \o conn[c].messages = conn[c].sent
    <3> DEFINE r == conn[c].read  m == conn[c].messages  s == conn[c].sent
    <3>1. r \in Seq(Message) /\ m \in Seq(Message) /\ s \in Seq(Message)
      BY DEF HttpInv, Connection
    <3>2. /\ Len(r) + Len(m) = Len(s)
          /\ \A i \in 1..Len(r) : r[i] = s[i]
          /\ \A i \in 1..Len(m) : m[i] = s[Len(r) + i]
      BY <2>2 DEF HttpInv, Decided, Replaying
    <3> HIDE DEF r, m, s
    <3>3. /\ r \o m \in Seq(Message) /\ Len(r \o m) = Len(r) + Len(m)
          /\ \A i \in 1..(Len(r) + Len(m)) :
               (r \o m)[i] = IF i <= Len(r) THEN r[i] ELSE m[i - Len(r)]
          /\ Len(r) \in Nat /\ Len(m) \in Nat
      BY <3>1, ConcatProperties, LenProperties
    <3>4. ASSUME NEW i \in 1..(Len(r) + Len(m)) PROVE (r \o m)[i] = s[i]
      <4>1. CASE i <= Len(r)
        BY <4>1, <3>2, <3>3
      <4>2. CASE i > Len(r)
        <5>1. i - Len(r) \in 1..Len(m) /\ Len(r) + (i - Len(r)) = i
          BY <4>2, <3>3
        <5> QED
          BY <5>1, <4>2, <3>2, <3>3
      <4> QED
        BY <4>1, <4>2, <3>3
    <3>5. r \o m = s
      BY <3>1, <3>2, <3>3, <3>4, SeqEqual
    <3> QED
      BY <3>5 DEF r, m, s
  <2> QED
    BY <2>1, <2>2
<1> QED
  BY <1>1, HttpInvariant, PTL

\* The preview tool, and with it the limiter, is reached by requests with the
\* token, a whole body and a role that may refresh only.
THEOREM PreviewsAreGuarded == HttpSpec => []PreviewsAreAuthorized
<1>1. HttpInv => PreviewsAreAuthorized
  <2> SUFFICES ASSUME HttpInv, NEW c \in Clients, conn[c].pc \in {"called", "enforcing"}
               PROVE  /\ conn[c].request.token = "valid"
                      /\ conn[c].request.verb = "POST"
                      /\ Len(conn[c].read) = Len(conn[c].request.sizes)
                      /\ role # "viewer"
    BY DEF PreviewsAreAuthorized
  <2> DEFINE r == conn[c].request
             read == conn[c].read
             d == DocumentOf(r, read)
  <2>1. /\ r \in Arrivals /\ r.token = "valid" /\ r.verb = "POST"
        /\ Verdict(r, read) = 0
        /\ d.method = "tools/call" /\ d.target \in RefreshTools
        /\ read \in Seq(Message)
    BY DEF HttpInv, Decided, CallsPreview, Connection
  <2> HIDE DEF r, read
  <2>2. d = r.document /\ Len(read) = Len(r.sizes)
    <3>1. NoDocument.method = "" /\ Fragment.method = ""
      BY DEF NoDocument, Fragment, Document
    <3>2. d \in {NoDocument, Fragment} \/
            /\ d = r.document
            /\ [i \in 1..Len(read) |-> read[i].part] = [i \in 1..Len(r.sizes) |-> i]
      BY DEF DocumentOf
    <3>3. d = r.document /\ DOMAIN [i \in 1..Len(read) |-> read[i].part]
                            = DOMAIN [i \in 1..Len(r.sizes) |-> i]
      BY <3>1, <3>2, <2>1
    <3>4. r.sizes \in Seq(Nat)
      BY <2>1, ArrivalsAssumption
    <3> QED
      BY <3>3, <3>4, <2>1, LenProperties
  <2>3. d.form = "object"
    BY <2>1, <2>2, ArrivalsAssumption
  <2>4. AuthorizationDecision(r.verb, d) = Decision("refresh", "none")
    <3>1. d.target = "preview_dataset"
      BY <2>1 DEF RefreshTools
    <3>2. CapabilityOfTool(d.target) = "refresh"
      BY <3>1 DEF CapabilityOfTool, ReadTools, RefreshTools, MaterializeTools
    <3>3. d.target # "" /\ d.target \in MappedTools
      BY <3>1 DEF MappedTools, RefreshTools
    <3> QED
      BY <2>1, <2>3, <3>2, <3>3
         DEF AuthorizationDecision, CapabilityFreeMethods, ReadMethods
  <2>5. "refresh" \in capabilities
    BY <2>1, <2>3, <2>4 DEF Verdict, Decision
  <2> QED
    BY <2>1, <2>2, <2>5 DEF HttpInv, CapabilitiesOf, r, read
<1> QED
  BY <1>1, HttpInvariant, PTL
-----------------------------------------------------------------------------
(***************************************************************************)
(* The sizes of bodies.  Induction is over sets of numbers: of those that  *)
(* a claim does not hold of, one is the least.                             *)
(***************************************************************************)
\* A set of natural numbers that is not empty has a least one.
LEMMA LeastExists ==
  ASSUME NEW K, K \subseteq Nat, K # {}
  PROVE  \E k \in K : \A j \in K : k <= j
<1>1. PICK k \in K : \A j \in K : ~(<<j, k>> \in OpToRel(<, Nat))
  BY NatLessThanWellFounded, WFMin
<1>2. ASSUME NEW j \in K, j < k PROVE FALSE
  <2>1. <<j, k>> \in OpToRel(<, Nat)
    BY <1>2 DEF OpToRel
  <2> QED
    BY <1>1, <2>1
<1> QED
  BY <1>2

\* The running totals of the first n messages.
TotalsUpTo(s, n) ==
  {f \in [0..n -> Nat] : f[0] = 0 /\ \A i \in 1..n : f[i] = f[i - 1] + s[i].size}

\* A body has a number of messages, each of some size.
LEMMA MessageSizes ==
  ASSUME NEW s \in Seq(Message)
  PROVE  Len(s) \in Nat /\ \A i \in 1..Len(s) : s[i].size \in Nat
<1>1. \A i \in 1..Len(s) : s[i] \in Message
  OBVIOUS
<1> QED
  BY <1>1 DEF Message

\* There are running totals of every beginning of a body.
LEMMA TotalsExist ==
  ASSUME NEW s \in Seq(Message), NEW n \in 0..Len(s)
  PROVE  TotalsUpTo(s, n) # {}
<1> DEFINE K == {k \in 0..Len(s) : TotalsUpTo(s, k) = {}}
<1>0. Len(s) \in Nat /\ \A i \in 1..Len(s) : s[i].size \in Nat
  BY MessageSizes
<1> SUFFICES ASSUME K # {} PROVE FALSE
  OBVIOUS
<1>1. PICK k \in K : \A j \in K : k <= j
  <2>1. K \subseteq Nat
    BY <1>0
  <2> HIDE DEF K
  <2> QED
    BY <2>1, LeastExists
<1>2. CASE k = 0
  <2>1. [i \in 0..0 |-> 0] \in TotalsUpTo(s, 0)
    BY DEF TotalsUpTo
  <2> QED
    BY <1>2, <2>1
<1>3. CASE k # 0
  <2>1. k - 1 \in 0..Len(s) /\ k - 1 \notin K
    BY <1>0, <1>1, <1>3
  <2>2. PICK f \in TotalsUpTo(s, k - 1) : TRUE
    BY <2>1
  <2> DEFINE g == [i \in 0..k |-> IF i < k THEN f[i] ELSE f[k - 1] + s[k].size]
  <2>3. k \in 1..Len(s) /\ f \in [0..(k - 1) -> Nat]
    BY <2>2, <1>0, <1>1, <1>3 DEF TotalsUpTo
  <2>4. g \in [0..k -> Nat]
    BY <2>3, <1>0
  <2>5. g[0] = 0
    BY <2>2, <2>3 DEF TotalsUpTo
  <2>6. ASSUME NEW i \in 1..k PROVE g[i] = g[i - 1] + s[i].size
    BY <2>2, <2>3 DEF TotalsUpTo
  <2>7. g \in TotalsUpTo(s, k)
    <3> HIDE DEF g
    <3> QED
      BY <2>4, <2>5, <2>6 DEF TotalsUpTo
  <2> QED
    BY <2>7, <1>1
<1> QED
  BY <1>2, <1>3

\* The size of a body is the last of its running totals (total_body_bytes).
LEMMA SizesAreTotals ==
  ASSUME NEW s \in Seq(Message)
  PROVE  \E f \in TotalsUpTo(s, Len(s)) : Sizes(s) = f[Len(s)]
<1> DEFINE n == Len(s)
           Is(f) == f = [i \in 0..n |-> IF i = 0 THEN 0 ELSE f[i - 1] + s[i].size]
<1>0. n \in Nat /\ \A i \in 1..n : s[i].size \in Nat
  BY MessageSizes
<1>1. PICK f \in TotalsUpTo(s, n) : TRUE
  BY <1>0, TotalsExist
<1>2. Is(f)
  BY <1>0, <1>1 DEF TotalsUpTo
<1> DEFINE t == CHOOSE g : Is(g)
<1>3. Is(t)
  <2> HIDE DEF Is
  <2> QED
    BY <1>2
<1>4. Sizes(s) = t[n]
  BY DEF Sizes
<1> HIDE DEF t
<1>5. ASSUME NEW i \in 0..n PROVE t[i] = f[i]
  <2> DEFINE K == {k \in 0..n : t[k] # f[k]}
  <2> SUFFICES ASSUME K # {} PROVE FALSE
    OBVIOUS
  <2>1. PICK k \in K : \A j \in K : k <= j
    <3>1. K \subseteq Nat
      BY <1>0
    <3> HIDE DEF K
    <3> QED
      BY <3>1, LeastExists
  <2>2. k # 0
    BY <1>3, <1>2
  <2>3. k - 1 \in 0..n /\ k - 1 \notin K
    BY <2>1, <2>2, <1>0
  <2>4. t[k - 1] = f[k - 1]
    BY <2>3
  <2>5. t[k] = t[k - 1] + s[k].size /\ f[k] = f[k - 1] + s[k].size
    BY <1>2, <1>3, <2>1, <2>2
  <2> QED
    BY <2>1, <2>4, <2>5
<1> QED
  BY <1>0, <1>1, <1>4, <1>5

\* A part of a body, from its message o + 1 on, is not longer than the whole.
LEMMA PartsAreShorter ==
  ASSUME NEW s \in Seq(Message), NEW t \in Seq(Message), NEW o \in Nat,
         o + Len(t) <= Len(s), \A i \in 1..Len(t) : t[i] = s[o + i]
  PROVE  Sizes(t) \in Nat /\ Sizes(s) \in Nat /\ Sizes(t) <= Sizes(s)
<1> DEFINE n == Len(s)
           m == Len(t)
<1>0. /\ n \in Nat /\ \A i \in 1..n : s[i].size \in Nat
      /\ m \in Nat /\ \A i \in 1..m : t[i].size \in Nat
  BY MessageSizes
<1>1. PICK f \in TotalsUpTo(s, n) : Sizes(s) = f[n]
  BY SizesAreTotals
<1>2. PICK g \in TotalsUpTo(t, m) : Sizes(t) = g[m]
  BY SizesAreTotals
<1>3. /\ f \in [0..n -> Nat] /\ \A i \in 1..n : f[i] = f[i - 1] + s[i].size
      /\ g \in [0..m -> Nat] /\ g[0] = 0
      /\ \A i \in 1..m : g[i] = g[i - 1] + s[o + i].size
  BY <1>1, <1>2 DEF TotalsUpTo
<1>4. o + m <= n
  OBVIOUS
<1> HIDE DEF n, m
<1>5. ASSUME NEW i \in 0..m PROVE g[i] <= f[o + i]
  <2> DEFINE K == {k \in 0..m : g[k] > f[o + k]}
  <2> SUFFICES ASSUME K # {} PROVE FALSE
    <3>1. g[i] \in Nat /\ o + i \in 0..n /\ f[o + i] \in Nat
      BY <1>0, <1>3, <1>4
    <3> QED
      BY <3>1
  <2>1. PICK k \in K : \A j \in K : k <= j
    <3>1. K \subseteq Nat
      BY <1>0
    <3> HIDE DEF K
    <3> QED
      BY <3>1, LeastExists
  <2>2. k # 0
    BY <1>0, <1>3, <1>4
  <2>3. k \in 1..m /\ k - 1 \in 0..m /\ k - 1 \notin K /\ o + k \in 1..n /\ o + (k - 1) = o + k - 1
    BY <2>1, <2>2, <1>0, <1>4
  <2>4. g[k - 1] <= f[o + k - 1]
    BY <2>3, <1>0, <1>3
  <2>5. /\ g[k] = g[k - 1] + s[o + k].size /\ f[o + k] = f[o + k - 1] + s[o + k].size
        /\ s[o + k].size \in Nat /\ g[k - 1] \in Nat /\ f[o + k - 1] \in Nat
    BY <1>0, <1>3, <2>3
  <2> QED
    BY <2>1, <2>4, <2>5
<1>6. ASSUME NEW i \in 0..n PROVE f[i] <= f[n]
  <2> DEFINE K == {k \in 0..n : f[n - k] > f[n]}
  <2> SUFFICES ASSUME K # {} PROVE FALSE
    <3>1. n - i \in 0..n /\ n - (n - i) = i
      BY <1>0
    <3>2. f[i] \in Nat /\ f[n] \in Nat
      BY <1>0, <1>3
    <3> QED
      BY <3>1, <3>2
  <2>1. PICK k \in K : \A j \in K : k <= j
    <3>1. K \subseteq Nat
      BY <1>0
    <3> HIDE DEF K
    <3> QED
      BY <3>1, LeastExists
  <2>2. k # 0
    BY <1>0, <1>3
  <2>3. k \in 1..n /\ k - 1 \in 0..n /\ k - 1 \notin K /\ n - k + 1 \in 1..n
        /\ n - (k - 1) = n - k + 1 /\ (n - k + 1) - 1 = n - k
    <3>1. k \in 1..n /\ k - 1 \in 0..n
      BY <2>1, <2>2, <1>0
    <3>2. k - 1 \notin K
      <4> HIDE DEF K
      <4> QED
        BY <2>1, <3>1, <1>0
    <3> HIDE DEF K
    <3> QED
      BY <3>1, <3>2, <1>0
  <2>4. f[n - k + 1] <= f[n]
    BY <2>3, <1>0, <1>3
  <2>5. /\ f[n - k + 1] = f[n - k] + s[n - k + 1].size
        /\ s[n - k + 1].size \in Nat /\ f[n - k] \in Nat /\ f[n - k + 1] \in Nat /\ f[n] \in Nat
    BY <1>0, <1>3, <2>3
  <2> QED
    BY <2>1, <2>4, <2>5
<1>7. g[m] <= f[o + m] /\ f[o + m] <= f[n] /\ g[m] \in Nat /\ f[n] \in Nat /\ f[o + m] \in Nat
  <2>1. m \in 0..m /\ o + m \in 0..n /\ n \in 0..n
    BY <1>0, <1>4
  <2>2. g[m] \in Nat /\ f[n] \in Nat /\ f[o + m] \in Nat
    BY <2>1, <1>3
  <2> QED
    BY <2>1, <2>2, <1>5, <1>6
<1> QED
  BY <1>1, <1>2, <1>7 DEF n, m

\* A size is a number.
LEMMA SizesAreNat ==
  ASSUME NEW s \in Seq(Message)
  PROVE  Sizes(s) \in Nat
<1>1. PICK f \in TotalsUpTo(s, Len(s)) : Sizes(s) = f[Len(s)]
  BY SizesAreTotals
<1>2. Len(s) \in 0..Len(s)
  BY LenProperties
<1> QED
  BY <1>1, <1>2 DEF TotalsUpTo

\* Of nothing the size is none.
LEMMA NothingHasNoSize == Sizes(<<>>) \in Nat /\ Sizes(<<>>) <= MaxBody
<1>1. <<>> \in Seq(Message) /\ Len(<<>>) = 0
  OBVIOUS
<1>2. PICK f \in TotalsUpTo(<<>>, 0) : Sizes(<<>>) = f[0]
  BY <1>1, SizesAreTotals
<1>3. Sizes(<<>>) = 0
  BY <1>2 DEF TotalsUpTo
<1> QED
  BY <1>3, HttpAssumption

\* What the middleware has let through so far is within the limit; when the tool
\* runs, all of it has been read.
Bounded(k) ==
  /\ k.pc \in {"idle", "answered"} => k.messages = <<>> /\ k.read = <<>>
  /\ k.pc = "buffering" => Sizes(k.messages) <= MaxBody
  /\ k.pc = "app" => Sizes(k.sent) <= MaxBody
  /\ k.pc \in {"called", "enforcing"} => k.messages = <<>> /\ Sizes(k.sent) <= MaxBody

BodyInv == \A c \in Clients : Bounded(conn[c])

\* A connection that rests holds nothing.
LEMMA RestIsBounded ==
  ASSUME NEW c \in Clients, conn[c] \in Connection, NEW status \in Nat
  PROVE  Bounded(Answer(c, status)) /\ Bounded([Idle EXCEPT !.served = conn[c].served])
<1> DEFINE a == Answer(c, status)
           b == [Idle EXCEPT !.served = conn[c].served]
<1>1. a \in Connection /\ a.pc = "answered" /\ b \in Connection /\ b.pc = "idle"
  BY AtRest
<1>2. a = [[[Idle EXCEPT !.pc = "answered"] EXCEPT !.status = status]
             EXCEPT !.served = conn[c].served]
  BY DEF Answer
<1>3. Idle \in Connection /\ Idle.messages = <<>> /\ Idle.read = <<>>
  BY IdleType
<1>4. a.messages = <<>> /\ a.read = <<>> /\ b.messages = <<>> /\ b.read = <<>>
  BY <1>2, <1>3 DEF Connection
<1> HIDE DEF a, b
<1>5. Bounded(a) /\ Bounded(b)
  BY <1>1, <1>4 DEF Bounded
<1> QED
  BY <1>5 DEF a, b

\* A body is handed over when its size is within the limit
\* (_RequestBodyTooLargeError), and nothing is added to it.
LEMMA StepIsBounded ==
  ASSUME HttpInv, HttpInv', BodyInv, NEW c \in Clients, Arrive(c) \/ Serve(c) \/ Close(c)
  PROVE  Bounded(conn'[c])
<1>k. /\ conn[c] \in Connection /\ conn'[c] \in Connection
      /\ Bounded(conn[c]) /\ Decided(conn[c]) /\ Decided(conn[c])'
      /\ 200 \in Nat /\ 413 \in Nat /\ 0 \in Nat
  BY DEF HttpInv, BodyInv
<1>0. ASSUME NEW status \in Nat, conn'[c] = Answer(c, status) PROVE Bounded(conn'[c])
  BY <1>0, <1>k, RestIsBounded
<1>1. CASE Arrive(c)
  <2>1. PICK r \in Arrivals :
          LET new == [Idle EXCEPT !.served = conn[c].served + 1]
          IN  conn'[c] = IF EarlyStatus(r) = 0
                         THEN [new EXCEPT !.pc = "buffering", !.request = r]
                         ELSE [new EXCEPT !.pc = "answered", !.status = EarlyStatus(r)]
    BY <1>1 DEF Arrive, HttpInv
  <2>2. /\ conn'[c].messages = <<>> /\ conn'[c].read = <<>>
        /\ conn'[c].pc \in {"buffering", "answered"}
    BY <2>1, IdleType DEF Connection
  <2> QED
    BY <2>2, NothingHasNoSize DEF Bounded
<1>2. CASE Buffer(c)
  <2>1. PICK m \in Incoming(c) :
          LET messages == Append(conn[c].messages, m)
              more     == m.type = "http.request" /\ m.more
              verdict  == Verdict(conn[c].request, messages)
          IN  conn' = [conn EXCEPT ![c] =
               CASE TooLong(Sizes(messages)) ->
                      Answer(c, 413)
                 [] ~TooLong(Sizes(messages)) /\ more ->
                      [conn[c] EXCEPT !.messages = messages]
                 [] ~TooLong(Sizes(messages)) /\ ~more /\ verdict # 0 -> Answer(c, verdict)
                 [] OTHER -> [conn[c] EXCEPT !.pc = "app", !.messages = messages,
                                             !.sent = messages]]
    BY <1>2 DEF Buffer
  <2> DEFINE messages == Append(conn[c].messages, m)
             verdict == Verdict(conn[c].request, messages)
  <2>2. conn[c].pc = "buffering" /\ verdict \in Nat
    BY <1>2, Statuses DEF Buffer
  <2> HIDE DEF messages, verdict
  <2>3. \/ \E status \in Nat : conn'[c] = Answer(c, status)
        \/ ~TooLong(Sizes(messages)) /\ conn'[c] = [conn[c] EXCEPT !.messages = messages]
        \/ /\ ~TooLong(Sizes(messages))
           /\ conn'[c] = [conn[c] EXCEPT !.pc = "app", !.messages = messages, !.sent = messages]
    BY <1>k, <2>1, <2>2 DEF messages, verdict, HttpInv
  <2>4. CASE ~TooLong(Sizes(messages)) /\ conn'[c] = [conn[c] EXCEPT !.messages = messages]
    <3>1. conn'[c].pc = "buffering" /\ conn'[c].messages = messages
      BY <1>k, <2>2, <2>4 DEF Connection
    <3>2. Sizes(messages) <= MaxBody
      <4>1. messages \in Seq(Message)
        BY <1>k, <3>1 DEF Connection
      <4>2. Sizes(messages) \in Nat
        BY <4>1, SizesAreNat
      <4> QED
        BY <2>4, <4>2, HttpAssumption DEF TooLong
    <3> QED
      BY <3>1, <3>2 DEF Bounded
  <2>5. CASE /\ ~TooLong(Sizes(messages))
             /\ conn'[c] = [conn[c] EXCEPT !.pc = "app", !.messages = messages, !.sent = messages]
    <3>1. conn'[c].pc = "app" /\ conn'[c].messages = messages /\ conn'[c].sent = messages
      BY <1>k, <2>5 DEF Connection
    <3>2. Sizes(messages) <= MaxBody
      <4>1. messages \in Seq(Message)
        BY <1>k, <3>1 DEF Connection
      <4>2. Sizes(messages) \in Nat
        BY <4>1, SizesAreNat
      <4> QED
        BY <2>5, <4>2, HttpAssumption DEF TooLong
    <3> QED
      BY <3>1, <3>2 DEF Bounded
  <2> QED
    BY <1>0, <2>3, <2>4, <2>5
<1>3. CASE AppReads(c)
  <2>0. /\ conn[c].pc = "app" /\ Replaying(conn[c]) /\ conn[c].messages # <<>>
        /\ Sizes(conn[c].sent) <= MaxBody
    BY <1>3, <1>k, ReplayHasNext DEF AppReads, Decided, Bounded
  <2> DEFINE m == Head(conn[c].messages)
             left == Tail(conn[c].messages)
             read == Append(conn[c].read, m)
             call == [conn[c] EXCEPT !.messages = left, !.read = read]
  <2>1. ReplayReceive(conn[c].messages) = <<m, left>>
    BY <2>0 DEF ReplayReceive, NextReplay
  <2>2. \/ conn'[c] = call
        \/ \E status \in Nat : conn'[c] = Answer(c, status)
        \/ conn'[c] = [call EXCEPT !.pc = "called"]
    <3> DEFINE d == DocumentOf(conn[c].request, read)
    <3>1. conn' = [conn EXCEPT ![c] =
             CASE m.type = "http.request" /\ m.more -> call
               [] m.type # "http.request" -> Answer(c, 0)
               [] OTHER ->
                    IF /\ conn[c].request.verb = "POST"
                       /\ d.method = "tools/call" /\ d.target \in RefreshTools
                    THEN [call EXCEPT !.pc = "called"]
                    ELSE Answer(c, 200)]
      BY <1>3, <2>1 DEF AppReads
    <3> HIDE DEF m, left, read, call, d
    <3> QED
      BY <1>k, <3>1 DEF HttpInv
  <2> HIDE DEF m, read, left
  <2>3. CASE conn'[c] = call
    <3>1. conn'[c].pc = "app" /\ conn'[c].sent = conn[c].sent
      BY <1>k, <2>0, <2>3 DEF Connection
    <3> QED
      BY <2>0, <3>1 DEF Bounded
  <2>4. CASE conn'[c] = [call EXCEPT !.pc = "called"]
    <3>1. /\ conn'[c].pc = "called" /\ conn'[c].sent = conn[c].sent
          /\ conn'[c].messages = left /\ conn'[c].read = read
      BY <1>k, <2>4 DEF Connection
    <3>2. read = conn[c].sent
      BY <1>k, <3>1 DEF Decided
    <3>3. left = <<>>
      <4> DEFINE r == conn[c].read  q == conn[c].messages  n == conn[c].sent
      <4>1. /\ r \in Seq(Message) /\ q \in Seq(Message) /\ n \in Seq(Message)
            /\ Len(r) + Len(q) = Len(n) /\ q # <<>>
        BY <1>k, <2>0 DEF Connection, Replaying
      <4> HIDE DEF r, q, n
      <4>2. Head(q) \in Message /\ Tail(q) \in Seq(Message) /\ Len(Tail(q)) = Len(q) - 1
        BY <4>1, HeadTailProperties
      <4>3. Append(r, Head(q)) = n
        BY <3>2 DEF read, m, r, q, n
      <4>4. Len(n) = Len(r) + 1 /\ Len(r) \in Nat /\ Len(q) \in Nat
        BY <4>1, <4>2, <4>3, AppendProperties, LenProperties
      <4>5. Len(Tail(q)) = 0
        BY <4>1, <4>2, <4>4
      <4>6. Tail(q) = <<>>
        BY <4>2, <4>5, EmptySeq
      <4> QED
        BY <4>6 DEF left, q
    <3> QED
      BY <2>0, <3>1, <3>3 DEF Bounded
  <2> QED
    BY <1>0, <2>2, <2>3, <2>4
<1>4. CASE PreviewLocally(c) \/ LimiterReturns(c) \/ Close(c)
  <2>1. conn'[c] \in {Answer(c, 200), [Idle EXCEPT !.served = conn[c].served]}
    BY <1>4 DEF PreviewLocally, LimiterReturns, Close, HttpInv
  <2> QED
    BY <1>k, <2>1, RestIsBounded
<1>5. CASE CallLimiter(c)
  <2>1. conn'[c] = [conn[c] EXCEPT !.pc = "enforcing"] /\ conn[c].pc = "called"
    BY <1>5 DEF CallLimiter, HttpInv
  <2>2. /\ conn'[c].pc = "enforcing" /\ conn'[c].messages = conn[c].messages
        /\ conn'[c].sent = conn[c].sent
    BY <2>1, <1>k DEF Connection
  <2> QED
    BY <1>k, <2>1, <2>2 DEF Bounded
<1> QED
  BY <1>1, <1>2, <1>3, <1>4, <1>5 DEF Serve

\* The middleware never holds, nor hands over, more than the limit, whatever
\* length was declared and in however many chunks the body comes
\* (_buffer_http_request_body, max_body_bytes).
THEOREM BodiesStayBounded == HttpSpec => []BodiesAreBounded
<1>1. HttpInit => BodyInv
  BY IdleType DEF HttpInit, BodyInv, Bounded
<1>2. HttpInv /\ HttpInv' /\ BodyInv /\ [HttpNext]_httpVars => BodyInv'
  <2> SUFFICES ASSUME HttpInv, HttpInv', BodyInv, [HttpNext]_httpVars PROVE BodyInv'
    OBVIOUS
  <2>1. CASE UNCHANGED conn
    BY <2>1 DEF BodyInv
  <2>2. ASSUME NEW c \in Clients, Arrive(c) \/ Serve(c) \/ Close(c) PROVE BodyInv'
    <3>1. conn' = [conn EXCEPT ![c] = conn'[c]] /\ Bounded(conn'[c])
      BY <2>2, ConnectionStep, StepIsBounded
    <3>2. \A e \in Clients \ {c} : conn'[e] = conn[e]
      BY <3>1 DEF HttpInv
    <3> QED
      BY <3>1, <3>2 DEF BodyInv
  <2> QED
    BY <2>1, <2>2 DEF HttpNext, LimiterStep, ClockStep, httpVars
<1>3. HttpInv /\ BodyInv => BodiesAreBounded
  <2> SUFFICES ASSUME HttpInv, BodyInv, NEW c \in Clients
               PROVE  Sizes(conn[c].messages) <= MaxBody /\ Sizes(conn[c].read) <= MaxBody
    BY DEF BodiesAreBounded
  <2> DEFINE k == conn[c]
  <2>1. /\ k \in Connection /\ Bounded(k) /\ Decided(k)
        /\ k.messages \in Seq(Message) /\ k.read \in Seq(Message) /\ k.sent \in Seq(Message)
    BY DEF HttpInv, BodyInv, Connection
  <2> HIDE DEF k
  <2> DEFINE q == k.messages
             r == k.read
             n == k.sent
             Goal == Sizes(q) <= MaxBody /\ Sizes(r) <= MaxBody
  <2> SUFFICES Goal
    BY DEF k
  <2>2. CASE k.pc \in {"idle", "answered"}
    <3>1. q = <<>> /\ r = <<>>
      BY <2>1, <2>2 DEF Bounded
    <3> HIDE DEF q, r
    <3> QED
      BY <3>1, NothingHasNoSize
  <2>3. CASE k.pc = "buffering"
    <3>1. Sizes(q) <= MaxBody /\ r = <<>>
      BY <2>1, <2>3 DEF Bounded, Decided
    <3> HIDE DEF q, r
    <3> QED
      BY <3>1, NothingHasNoSize
  <2>4. CASE k.pc \in {"called", "enforcing"}
    <3>1. q = <<>> /\ r = n /\ Sizes(n) <= MaxBody
      BY <2>1, <2>4 DEF Bounded, Decided
    <3> HIDE DEF q, r, n
    <3> QED
      BY <3>1, NothingHasNoSize
  <2>5. CASE k.pc = "app"
    <3>1. /\ Sizes(n) <= MaxBody /\ Len(r) + Len(q) = Len(n)
          /\ \A i \in 1..Len(r) : r[i] = n[i]
          /\ \A i \in 1..Len(q) : q[i] = n[Len(r) + i]
      BY <2>1, <2>5 DEF Bounded, Decided, Replaying
    <3>2. q \in Seq(Message) /\ r \in Seq(Message) /\ n \in Seq(Message)
      BY <2>1
    <3> HIDE DEF q, r, n
    <3>3. Len(r) \in Nat /\ Len(q) \in Nat
      BY <3>2, LenProperties
    <3>4. Sizes(q) \in Nat /\ Sizes(n) \in Nat /\ Sizes(q) <= Sizes(n)
      <4>1. Len(r) + Len(q) <= Len(n)
        BY <3>1, <3>3
      <4> QED
        BY <3>1, <3>2, <3>3, <4>1, PartsAreShorter
    <3>5. Sizes(r) \in Nat /\ Sizes(r) <= Sizes(n)
      <4>1. /\ 0 \in Nat /\ 0 + Len(r) <= Len(n)
            /\ \A i \in 1..Len(r) : r[i] = n[0 + i]
        BY <3>1, <3>3
      <4> QED
        BY <3>2, <4>1, PartsAreShorter
    <3> QED
      BY <3>1, <3>4, <3>5, HttpAssumption
  <2> QED
    BY <2>1, <2>2, <2>3, <2>4, <2>5 DEF k, Connection
<1> QED
  BY <1>1, <1>2, <1>3, HttpInvariant, PTL DEF HttpSpec
=============================================================================
