------------------------------ MODULE HttpServer ------------------------------
(***************************************************************************)
(* run-http: HTTPBearerAuthMiddleware in front of the MCP application, and *)
(* behind it the preview tool with its rate limiter.  The middleware reads *)
(* a request's body before it decides, and hands the application a receive *)
(* that replays what it read.  Connections interleave at every await.      *)
(*                                                                         *)
(* A body is kept as the sizes of its chunks and the document they make    *)
(* together; a part of a document is no JSON.                              *)
(***************************************************************************)
EXTENDS RateLimiter, FiniteSets

CONSTANTS Clients,       \* connections
          Arrivals,      \* the requests they may send
          MaxBody,       \* MAX_HTTP_AUTH_REQUEST_BODY_BYTES, in chunk units
          MaxRequests    \* bound on the requests of a connection

ASSUME HttpAssumption ==
  /\ MaxBody \in Nat
  /\ MaxRequests \in Nat

\* Only a JSON object can have a method.
ASSUME ArrivalsAssumption ==
  \A r \in Arrivals :
    /\ r.sizes \in Seq(Nat) \ {<<>>}
    /\ r.document.form # "object" => r.document.method = ""

VARIABLES role,          \* the role the process was started with
          capabilities,  \* and its capabilities
          conn           \* [Clients -> Connection]

httpVars == <<now, enforcing, stamp, times, granted, role, capabilities, conn>>

(***************************************************************************)
(* The vocabulary of MCP.                                                  *)
(***************************************************************************)
Capabilities == {"read", "refresh", "materialize"}
Roles == {"viewer", "operator", "admin"}
CapabilitiesOf(r) == IF r = "viewer" THEN {"read"} ELSE Capabilities

ReadTools == {"dataset_metadata", "dataset_health", "download_dataset",
              "query_dataset", "search_datasets"}
RefreshTools == {"preview_dataset"}
MaterializeTools == {"materialize_hot_set"}
MappedTools == ReadTools \cup RefreshTools \cup MaterializeTools

ReadResources == {"resource://catalog", "resource://observability",
                  "resource://policies"}
CapabilityFreeMethods == {"initialize", "notifications/cancelled",
                          "notifications/initialized", "ping"}
ReadMethods == {"resources/list", "resources/read", "tools/list", "prompts/list",
                "prompts/get"}

\* What a body parses into.  form "text" is not JSON, "bytes" not even UTF-8,
\* "other" JSON but not an object with a method.  target is the tool or the
\* resource its parameters name, "" when they do not.
Document(form, method, target) == [form |-> form, method |-> method, target |-> target]
NoDocument == Document("none", "", "")
Fragment == Document("text", "", "")

\* path "startup" is one of HTTP_STARTUP_PROBE_PATHS; length is -1 when no
\* valid length is declared.
Request(verb, path, token, length, sizes, document) ==
  [verb |-> verb, path |-> path, token |-> token, length |-> length, sizes |-> sizes,
   document |-> document]

\* Messages of the ASGI receive; those of a body carry the number of the chunk.
Chunk(r, i) == [type |-> "http.request", part |-> i, size |-> r.sizes[i],
                more |-> i < Len(r.sizes)]
Disconnect == [type |-> "http.disconnect", part |-> 0, size |-> 0, more |-> FALSE]
EmptyRequest == [type |-> "http.request", part |-> 0, size |-> 0, more |-> FALSE]

\* total_body_bytes after all of these messages.
Sizes(messages) ==
  LET total[i \in 0..Len(messages)] ==
        IF i = 0 THEN 0 ELSE total[i - 1] + messages[i].size
  IN  total[Len(messages)]

\* pc "buffering": in _buffer_http_request_body; "app": the application reads
\* the body; "called": preview_dataset runs; "enforcing": its call of the
\* limiter holds the lock; "answered": with status.
Idle == [pc |-> "idle", request |-> Request("GET", "mcp", "missing", -1, <<1>>, NoDocument),
         messages |-> <<>>, sent |-> <<>>, read |-> <<>>, status |-> 0, served |-> 0]

(***************************************************************************)
(* The environment run-http is started in: a variable is unset, or holds a *)
(* value that stands for something or does not.  A configuration that is   *)
(* refused ends the start.                                                 *)
(***************************************************************************)
Environments ==
  [token : {"unset", "short", "placeholder", "strong"},
   role : Roles \cup {"unset", "unknown"},
   capabilities : {{"unset"}, {"unknown"}} \cup SUBSET Capabilities]

RoleFromEnv(e) == IF e.role = "unset" THEN "operator" ELSE e.role
CapabilitiesFromEnv(e) ==
  IF e.capabilities = {"unset"} THEN CapabilitiesOf(RoleFromEnv(e)) ELSE e.capabilities

\* Faulty variant: the capabilities need not be those of the role.
AnyBundle(e) == TRUE

RoleBundleMatches(e) == CapabilitiesFromEnv(e) = CapabilitiesOf(RoleFromEnv(e))

ConfigurationAccepted(e) ==
  /\ e.token = "strong"
  /\ e.role # "unknown"
  /\ CapabilitiesFromEnv(e) \in (SUBSET Capabilities) \ {{}}
  /\ RoleBundleMatches(e)

\* Faulty variants: a replayed message is not taken off the list; the limit is left to
\* the declared length.
ReplayForever(messages) == <<Head(messages), messages>>
NeverTooLong(n) == FALSE

TooLong(n) == n > MaxBody
NextReplay(messages) == <<Head(messages), Tail(messages)>>
-----------------------------------------------------------------------------
(***************************************************************************)
(* The decision.                                                           *)
(***************************************************************************)
CapabilityOfTool(tool) ==
  CASE tool \in ReadTools -> "read"
    [] tool \in RefreshTools -> "refresh"
    [] tool \in MaterializeTools -> "materialize"
    [] OTHER -> "none"

\* The document that a sequence of messages makes of the body of r.
DocumentOf(r, messages) ==
  CASE Sizes(messages) = 0 -> NoDocument
    [] [i \in 1..Len(messages) |-> messages[i].part] = [i \in 1..Len(r.sizes) |-> i]
         -> r.document
    [] OTHER -> Fragment

Decision(capability, fault) == [capability |-> capability, fault |-> fault]

\* _authorization_decision; fault "denied" is a deny_message, "uncovered" a
\* coverage_error.
AuthorizationDecision(verb, d) ==
  CASE verb # "POST" \/ d.form # "object" \/ d.method = "" -> Decision("none", "none")
    [] verb = "POST" /\ d.form = "object" /\ d.method \in CapabilityFreeMethods
         -> Decision("none", "none")
    [] verb = "POST" /\ d.form = "object" /\ d.method \in ReadMethods
         -> IF d.method = "resources/read" /\ d.target \notin ReadResources \cup {""}
            THEN Decision("none", "uncovered")
            ELSE Decision("read", "none")
    [] verb = "POST" /\ d.form = "object" /\ d.method = "tools/call"
         -> CASE d.target = "" -> Decision("none", "none")
              [] d.target \in MappedTools -> Decision(CapabilityOfTool(d.target), "none")
              [] OTHER -> Decision("none", "uncovered")
    [] OTHER -> Decision("none", "denied")

\* The status the middleware answers, 0 when it calls the application.  The
\* JSON-RPC id is extracted first, and text that is not UTF-8 raises there.
Verdict(r, messages) ==
  LET d == DocumentOf(r, messages)
      decision == AuthorizationDecision(r.verb, d)
  IN  CASE d.form = "bytes" -> 500
        [] d.form # "bytes" /\ decision.fault = "denied" -> 403
        [] d.form # "bytes" /\ decision.fault # "denied"
             /\ decision.capability \notin capabilities \cup {"none"} -> 403
        [] d.form # "bytes" /\ decision.fault = "uncovered" -> 500
        [] OTHER -> 0
-----------------------------------------------------------------------------
(***************************************************************************)
(* The middleware.                                                         *)
(***************************************************************************)
limiterVars == vars
configVars == <<role, capabilities>>

\* A response goes out; what is left of the request does not matter any more.
Answer(c, status) ==
  [Idle EXCEPT !.pc = "answered", !.status = status, !.served = conn[c].served]

\* HTTPReadinessMiddleware answers before anything is asked of the request.
IsProbe(r) == r.path = "startup" /\ r.verb \in {"GET", "HEAD"}

\* What is answered from the headers alone; 0 when the body is read.
EarlyStatus(r) ==
  CASE IsProbe(r) -> 200
    [] ~IsProbe(r) /\ r.token # "valid" -> 401
    [] ~IsProbe(r) /\ r.token = "valid" /\ TooLong(r.length) -> 413
    [] OTHER -> 0

\* Up to its first receive the middleware runs without an await.
Arrive(c) ==
  /\ conn[c].pc = "idle"
  /\ conn[c].served < MaxRequests
  /\ \E r \in Arrivals :
       LET new == [Idle EXCEPT !.served = conn[c].served + 1]
       IN  conn' = [conn EXCEPT ![c] =
             IF EarlyStatus(r) = 0
             THEN [new EXCEPT !.pc = "buffering", !.request = r]
             ELSE [new EXCEPT !.pc = "answered", !.status = EarlyStatus(r)]]
  /\ UNCHANGED <<limiterVars, configVars>>

\* The client's next message: a chunk, or that it has gone.
Incoming(c) ==
  {Disconnect} \cup
  {Chunk(conn[c].request, i) :
     i \in {Len(conn[c].messages) + 1} \cap DOMAIN conn[c].request.sizes}

\* One turn of the loop, and after the last the decision.
Buffer(c) ==
  /\ conn[c].pc = "buffering"
  /\ \E m \in Incoming(c) :
       LET messages == Append(conn[c].messages, m)
           more     == m.type = "http.request" /\ m.more
           verdict  == Verdict(conn[c].request, messages)
       IN  conn' = [conn EXCEPT ![c] =
             CASE TooLong(Sizes(messages)) ->
                    Answer(c, 413)
               [] ~TooLong(Sizes(messages)) /\ more ->
                    [conn[c] EXCEPT !.messages = messages]
               [] ~TooLong(Sizes(messages)) /\ ~more /\ verdict # 0 -> Answer(c, verdict)
               [] OTHER -> [conn[c] EXCEPT !.pc = "app", !.messages = messages,
                                           !.sent = messages]]
  /\ UNCHANGED <<limiterVars, configVars>>
-----------------------------------------------------------------------------
(***************************************************************************)
(* The application.  It reads the body to its end through replay_receive,  *)
(* gives up when the client has gone, and calls the tool that the document *)
(* of a POST names.                                                        *)
(***************************************************************************)
ReplayReceive(messages) ==
  IF messages = <<>> THEN <<EmptyRequest, <<>> >> ELSE NextReplay(messages)

AppReads(c) ==
  /\ conn[c].pc = "app"
  /\ LET got  == ReplayReceive(conn[c].messages)
         read == Append(conn[c].read, got[1])
         call == [conn[c] EXCEPT !.messages = got[2], !.read = read]
         d    == DocumentOf(conn[c].request, read)
     IN  conn' = [conn EXCEPT ![c] =
           CASE got[1].type = "http.request" /\ got[1].more -> call
             [] got[1].type # "http.request" -> Answer(c, 0)
             [] OTHER ->
                  IF /\ conn[c].request.verb = "POST"
                     /\ d.method = "tools/call" /\ d.target \in RefreshTools
                  THEN [call EXCEPT !.pc = "called"]
                  ELSE Answer(c, 200)]
  /\ UNCHANGED <<limiterVars, configVars>>

\* preview_dataset serves from the local snapshot.
PreviewLocally(c) ==
  /\ conn[c].pc = "called"
  /\ conn' = [conn EXCEPT ![c] = Answer(c, 200)]
  /\ UNCHANGED <<limiterVars, configVars>>

\* It needs a live refresh: enforce is entered, and in the end grants or
\* raises; either way the tool returns a result.
CallLimiter(c) ==
  /\ conn[c].pc = "called"
  /\ Enter
  /\ conn' = [conn EXCEPT ![c].pc = "enforcing"]
  /\ UNCHANGED configVars

LimiterReturns(c) ==
  /\ conn[c].pc = "enforcing"
  /\ Grant \/ Refuse
  /\ conn' = [conn EXCEPT ![c] = Answer(c, 200)]
  /\ UNCHANGED configVars

Close(c) ==
  /\ conn[c].pc = "answered"
  /\ conn' = [conn EXCEPT ![c] = [Idle EXCEPT !.served = conn[c].served]]
  /\ UNCHANGED <<limiterVars, configVars>>

\* The limiter goes on by itself, and time passes.
LimiterStep == Forget /\ UNCHANGED <<configVars, conn>>
ClockStep == Tick /\ UNCHANGED <<configVars, conn>>

Serve(c) ==
  Buffer(c) \/ AppReads(c) \/ PreviewLocally(c) \/ CallLimiter(c) \/ LimiterReturns(c)

HttpInit ==
  /\ Init
  /\ \E e \in Environments :
       /\ ConfigurationAccepted(e)
       /\ role = RoleFromEnv(e)
       /\ capabilities = CapabilitiesFromEnv(e)
  /\ conn = [c \in Clients |-> Idle]

HttpNext ==
  \/ \E c \in Clients : Arrive(c) \/ Serve(c) \/ Close(c)
  \/ LimiterStep
  \/ ClockStep

HttpSpec == HttpInit /\ [][HttpNext]_httpVars
-----------------------------------------------------------------------------
\* The application acts on the very messages the decision was taken on, all of
\* them, once and in their order, also when the client has gone in the middle.
ActsOnWhatWasDecided ==
  \A c \in Clients :
    /\ conn[c].pc = "app" => conn[c].read \o conn[c].messages = conn[c].sent
    /\ conn[c].pc = "called" => conn[c].read = conn[c].sent

\* Whatever the declared length says, the middleware holds at most the limit
\* and never hands over more.
BodiesAreBounded ==
  \A c \in Clients :
    /\ Sizes(conn[c].messages) <= MaxBody
    /\ Sizes(conn[c].read) <= MaxBody

\* The preview tool, the only one a request can spend a grant of the limiter
\* with, runs for requests with the token, a body that came whole, and a role
\* that may refresh.
PreviewsAreAuthorized ==
  \A c \in Clients :
    conn[c].pc \in {"called", "enforcing"} =>
      /\ conn[c].request.token = "valid"
      /\ conn[c].request.verb = "POST"
      /\ Len(conn[c].read) = Len(conn[c].request.sizes)
      /\ role # "viewer"
=============================================================================
