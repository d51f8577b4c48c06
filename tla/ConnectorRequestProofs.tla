----------------------- MODULE ConnectorRequestProofs -----------------------
(***************************************************************************)
(* What a request costs its source and where it goes, for any number of    *)
(* retries and redirects, any URLs and any connector.  A connector touches *)
(* a request in three ways only: it begins one, it forgets one, and it     *)
(* lets one go on; ConnectorStep says so, and the invariant of a request   *)
(* needs nothing else of the connector.                                    *)
(***************************************************************************)
EXTENDS ConnectorRequest, TLAPS

ConnectorStep ==
  /\ \/ UNCHANGED callVars
     \/ \E u \in Urls, form \in BOOLEAN : Begin(u, form)
     \/ call' = IdleCall /\ sends' = 0
     \/ CallNext
  /\ UNCHANGED sama

\* An attempt has cost what its redirects cost; those before it at most
\* SendsPerAttempt each.  A request under way began within the boundary.
SendsSoFar ==
  CASE call.pc = "idle" -> 0
    [] call.pc = "sending" -> call.retries * SendsPerAttempt + call.hops + 1
    [] OTHER -> call.retries * SendsPerAttempt + SendsPerAttempt

CallInv ==
  /\ call \in Call
  /\ sends \in Nat
  /\ sends <= SendsSoFar
  /\ call.pc \in {"sending", "fallback", "backoff"} => {call.url, call.start} \subseteq Approved
  /\ call.pc = "backoff" => call.retries < MaxRetries

-----------------------------------------------------------------------------
\* One more attempt costs one more SendsPerAttempt, and as many as are allowed
\* cost the budget.
LEMMA AttemptsAddUp ==
  ASSUME NEW s \in Nat, NEW r \in Nat, NEW m \in Nat, r <= m
  PROVE  /\ r * s \in Nat
         /\ (r + 1) * s = r * s + s
         /\ r * s + s <= (m + 1) * s
<1>1. r * s \in Nat /\ (r + 1) * s = r * s + s
  OBVIOUS
<1>2. PICK d \in Nat : m = r + d
  <2>1. m - r \in Nat /\ m = r + (m - r)
    OBVIOUS
  <2> QED  BY <2>1
<1>3. d * s \in Nat /\ (r + d + 1) * s = r * s + d * s + s
  OBVIOUS
<1>4. (m + 1) * s = r * s + d * s + s
  BY <1>2, <1>3
<1> QED  BY <1>1, <1>3, <1>4

\* An attempt costs its hops, the first send and the fallback.
LEMMA AttemptCost ==
  /\ SendsPerAttempt \in Nat
  /\ SendsPerAttempt >= MaxHops + 1
  /\ sama => SendsPerAttempt = MaxHops + 2
BY RequestAssumption DEF RequestAssumption, SendsPerAttempt

\* The bounds of one state of a request, without the products.
LEMMA Bounds ==
  ASSUME CallInv
  PROVE  /\ call.retries \in Nat /\ call.retries <= MaxRetries
         /\ call.hops \in Nat /\ call.hops <= MaxHops
         /\ call.retries * SendsPerAttempt \in Nat
         /\ (call.retries + 1) * SendsPerAttempt
               = call.retries * SendsPerAttempt + SendsPerAttempt
         /\ call.retries * SendsPerAttempt + SendsPerAttempt <= Budget
<1>1. call.retries \in 0..MaxRetries /\ call.hops \in 0..MaxHops
  BY DEF CallInv, Call
<1>2. MaxRetries \in Nat /\ MaxHops \in Nat
  BY RequestAssumption DEF RequestAssumption
<1>3. call.retries \in Nat /\ call.retries <= MaxRetries
  BY <1>1, <1>2
<1>4. Budget = (MaxRetries + 1) * SendsPerAttempt
  BY DEF Budget
<1> QED  BY <1>1, <1>2, <1>3, <1>4, AttemptsAddUp, AttemptCost

\* A request begins with nothing sent.
LEMMA CallInvInit == CallInit => CallInv
<1> SUFFICES ASSUME CallInit PROVE CallInv
  OBVIOUS
<1>1. SourceUrl \in Urls /\ MaxHops \in Nat /\ MaxRetries \in Nat
  BY RequestAssumption DEF RequestAssumption, Urls
<1> QED  BY <1>1 DEF CallInit, CallInv, IdleCall, NewCall, Call, SendsSoFar

\* Whatever a connector does, its request keeps within the bounds.
LEMMA CallInvStep == CallInv /\ ConnectorStep => CallInv'
<1> SUFFICES ASSUME CallInv, ConnectorStep PROVE CallInv'
  OBVIOUS
<1>1. Approved \subseteq Urls /\ SourceUrl \in Urls /\ MaxHops \in Nat /\ MaxRetries \in Nat
  BY RequestAssumption DEF RequestAssumption, Urls
<1>2. SendsPerAttempt \in Nat /\ SendsPerAttempt >= MaxHops + 1
  BY AttemptCost
<1>3. 0 * SendsPerAttempt = 0 /\ SendsPerAttempt' = SendsPerAttempt
  BY <1>2 DEF ConnectorStep, SendsPerAttempt
<1>4. sends' = OneMoreSend => sends' \in Nat /\ sends' <= sends + 1
  BY DEF OneMoreSend, CallInv
<1>5. CASE UNCHANGED callVars
  BY <1>3, <1>5 DEF callVars, CallInv, SendsSoFar
<1>6. CASE \E u \in Urls, form \in BOOLEAN : Begin(u, form)
  <2>1. PICK u \in Urls, form \in BOOLEAN : Begin(u, form)
    BY <1>6
  <2>2. CASE u \in Approved
    <3>1. call' = [pc |-> "sending", start |-> u, form |-> form, url |-> u,
                   posts |-> form, hops |-> 0, retries |-> 0, error |-> "none"]
          /\ sends' = 1
      BY <2>1, <2>2 DEF Begin, Approves, NewCall
    <3> QED  BY <1>1, <1>2, <1>3, <2>2, <3>1 DEF CallInv, Call, SendsSoFar
  <2>3. CASE u \notin Approved
    <3>1. call' = [pc |-> "raised", start |-> u, form |-> form, url |-> u,
                   posts |-> form, hops |-> 0, retries |-> 0, error |-> "policy"]
          /\ sends' = 0
      BY <2>1, <2>3 DEF Begin, Approves, NewCall
    <3> QED  BY <1>1, <1>2, <1>3, <2>1, <3>1 DEF CallInv, Call, SendsSoFar
  <2> QED  BY <2>2, <2>3
<1>7. CASE call' = IdleCall /\ sends' = 0
  BY <1>3, <1>1, <1>7 DEF CallInv, IdleCall, NewCall, Call, SendsSoFar
<1>8. ASSUME NEW e \in {"timeout", "unavailable", "invalid", "policy"},
             Waiting, call' = Raise(e) \/ call' = RetryOrRaise(e), UNCHANGED sends
      PROVE  CallInv'
  <2>1. sends <= call.retries * SendsPerAttempt + SendsPerAttempt
    BY <1>1, <1>2, <1>8, Bounds DEF CallInv, SendsSoFar, Waiting
  <2>2. \/ call' = [call EXCEPT !.pc = "raised", !.error = e]
        \/ call' = [call EXCEPT !.pc = "backoff"] /\ call.retries < MaxRetries
    BY <1>8 DEF Raise, RetryOrRaise, ShouldRetry
  <2>3. call' \in Call /\ call'.retries = call.retries /\ call'.pc \in {"raised", "backoff"}
        /\ (call'.pc = "backoff" => call.retries < MaxRetries)
        /\ call'.url = call.url /\ call'.start = call.start
    BY <1>8, <2>2 DEF CallInv, Call
  <2> QED  BY <1>3, <1>8, <2>1, <2>3 DEF CallInv, SendsSoFar, Waiting
<1>9. CASE CallNext
  <2>1. CASE Succeed
    <3>1. sends <= call.retries * SendsPerAttempt + SendsPerAttempt
      BY <1>1, <1>2, <2>1, Bounds DEF CallInv, SendsSoFar, Succeed, Waiting
    <3>2. call' \in Call /\ call'.retries = call.retries /\ call'.pc = "answered"
      BY <2>1 DEF CallInv, Call, Succeed
    <3> QED  BY <1>3, <2>1, <3>1, <3>2 DEF CallInv, SendsSoFar, Succeed
  <2>2. CASE TransientStatus \/ PermanentStatus \/ TimeOut \/ Unreachable
    BY <1>8, <2>2 DEF TransientStatus, PermanentStatus, TimeOut, Unreachable
  <2>3. CASE \E location \in Urls \cup {NoLocation}, keeps \in BOOLEAN : Redirect(location, keeps)
    <3>1. PICK location \in Urls \cup {NoLocation}, keeps \in BOOLEAN : Redirect(location, keeps)
      BY <2>3
    <3>2. CASE call.hops < MaxHops /\ location # NoLocation /\ Approves(location)
      <4>1. call' = [call EXCEPT !.url = location, !.hops = call.hops + 1,
                                 !.posts = call.posts /\ keeps]
            /\ sends' = OneMoreSend /\ call.pc = "sending"
        BY <3>1, <3>2 DEF Redirect, HopsWithThis
      <4>2. location \in Approved /\ call.hops + 1 \in 0..MaxHops
        BY <1>1, <3>2, Bounds DEF Approves
      <4>3. call' \in Call
        BY <1>1, <4>1, <4>2 DEF CallInv, Call
      <4>4. call'.pc = "sending" /\ call'.retries = call.retries /\ call'.hops = call.hops + 1
            /\ call'.url = location /\ call'.start = call.start
        BY <4>1 DEF CallInv, Call
      <4>5. sends <= call.retries * SendsPerAttempt + call.hops + 1
        BY <1>3, <4>1 DEF CallInv, SendsSoFar
      <4>6. sends' <= call'.retries * SendsPerAttempt + call'.hops + 1
        BY <1>4, <4>1, <4>4, <4>5, Bounds DEF CallInv
      <4> QED  BY <1>3, <1>4, <4>1, <4>2, <4>3, <4>4, <4>6 DEF CallInv, SendsSoFar
    <3>3. CASE ~(call.hops < MaxHops /\ location # NoLocation /\ Approves(location))
      <4>1. PICK e \in {"timeout", "unavailable", "invalid", "policy"} :
              call' = Raise(e) /\ UNCHANGED sends
        BY <3>1, <3>3 DEF Redirect
      <4>2. Waiting
        BY <3>1 DEF Redirect, Waiting
      <4> QED  BY <1>8, <4>1, <4>2
    <3> QED  BY <3>2, <3>3
  <2>4. CASE Disconnect /\ sama
    <3>1. call' = [call EXCEPT !.pc = "fallback", !.url = call.start, !.posts = call.form]
          /\ sends' = OneMoreSend /\ call.pc = "sending"
      BY <2>4 DEF Disconnect
    <3>2. call' \in Call /\ call'.pc = "fallback" /\ call'.retries = call.retries
          /\ call'.url = call.start /\ call'.start = call.start
      BY <3>1 DEF CallInv, Call
    <3>3. sends <= call.retries * SendsPerAttempt + call.hops + 1
      BY <1>3, <3>1 DEF CallInv, SendsSoFar
    <3>4. sends' <= call'.retries * SendsPerAttempt + SendsPerAttempt
      BY <1>1, <1>4, <2>4, <3>1, <3>2, <3>3, Bounds, AttemptCost DEF CallInv
    <3> QED  BY <1>3, <1>4, <3>1, <3>2, <3>4 DEF CallInv, SendsSoFar
  <2>5. CASE Disconnect /\ ~sama
    BY <1>8, <2>5 DEF Disconnect, Waiting
  <2>6. CASE Resend
    <3>1. call' = [call EXCEPT !.pc = "sending", !.url = call.start, !.posts = call.form,
                               !.hops = 0, !.retries = call.retries + 1]
          /\ sends' = OneMoreSend /\ call.pc = "backoff"
      BY <2>6 DEF Resend
    <3>2. call.retries < MaxRetries /\ call.start \in Approved
      BY <3>1 DEF CallInv
    <3>3. call.retries + 1 \in 0..MaxRetries
      BY <1>1, <3>2, Bounds
    <3>4. call' \in Call
      <4>1. 0 \in 0..MaxHops /\ call \in Call /\ call.form \in BOOLEAN /\ call.start \in Urls
        BY <1>1 DEF CallInv, Call
      <4> QED  BY <3>1, <3>3, <4>1 DEF Call
    <3>5. call'.pc = "sending" /\ call'.retries = call.retries + 1 /\ call'.hops = 0
          /\ call'.url = call.start /\ call'.start = call.start
      BY <3>1 DEF CallInv, Call
    <3>6. sends <= (call.retries + 1) * SendsPerAttempt
      BY <3>1, Bounds DEF CallInv, SendsSoFar
    <3>7. (call.retries + 1) * SendsPerAttempt \in Nat
      BY <1>2, Bounds
    <3>8. sends' <= call'.retries * SendsPerAttempt + call'.hops + 1
      BY <1>4, <3>1, <3>5, <3>6, <3>7 DEF CallInv
    <3> QED  BY <1>3, <1>4, <3>1, <3>2, <3>4, <3>5, <3>8 DEF CallInv, SendsSoFar
  <2> QED  BY <1>9, <2>1, <2>2, <2>3, <2>4, <2>5, <2>6 DEF CallNext, Fail
<1> QED  BY <1>5, <1>6, <1>7, <1>9 DEF ConnectorStep
\* The invariant bounds what a request sends, and where.
LEMMA CallInvImplies == CallInv => SendsBounded /\ OnlyApprovedUrls
<1> SUFFICES ASSUME CallInv PROVE SendsBounded /\ OnlyApprovedUrls
  OBVIOUS
<1>1. SendsSoFar <= call.retries * SendsPerAttempt + SendsPerAttempt
  BY Bounds, AttemptCost, RequestAssumption DEF SendsSoFar, RequestAssumption
<1>2. SendsSoFar \in Nat
  BY Bounds, AttemptCost DEF SendsSoFar
<1>3. Budget \in Nat
  BY RequestAssumption, AttemptCost, AttemptsAddUp, Bounds DEF Budget, RequestAssumption
<1>4. SendsBounded
  BY <1>1, <1>2, <1>3, Bounds, AttemptCost DEF CallInv, SendsBounded
<1>5. OnlyApprovedUrls
  BY DEF CallInv, OnlyApprovedUrls, Waiting
<1> QED
  BY <1>4, <1>5
=============================================================================
