------------------------------ MODULE AccessLog ------------------------------
(***************************************************************************)
(* One HTTP request through the middleware chain (middleware.go,           *)
(* response_writer.go, health.go, buildMiddleware of config.go): Recovery  *)
(* outermost, then RequestID, RequestLog with its responseWriter, CORS,    *)
(* and the mux.  The wrapper's flag, its status and the header on the wire *)
(* are three separate steps of every call, and the handler's goroutine is  *)
(* not the only one that makes calls.                                      *)
(*                                                                         *)
(* net/http below the wrapper is external: its calls are atomic here, the  *)
(* first final header wins, an informational one (1xx) does not count, and *)
(* a body or a Flush before any header implies a 200.  Bodies are chunks   *)
(* that are accepted or not.                                               *)
(***************************************************************************)
EXTENDS Integers, FiniteSets, Sequences

CONSTANTS
    Main,      \* the goroutine that runs the handler
    Helpers,   \* goroutines the handler starts, an event stream's for example
    Codes,     \* what they pass to WriteHeader
    Configs,   \* records [recovers, health : BOOLEAN, cors : Policies]
    Requests,  \* records [method, origin, path, id]
    MaxCalls   \* bound: calls one goroutine makes on the ResponseWriter

Policies == {"off", "listed", "wildcard"}

ASSUME AccessAssumption ==
    /\ Main \notin Helpers
    /\ IsFiniteSet(Helpers)
    /\ Codes \subseteq 100 .. 599
    /\ MaxCalls \in Nat
    /\ Configs \subseteq [recovers : BOOLEAN, health : BOOLEAN, cors : Policies]
    /\ Requests \subseteq [method : {"OPTIONS", "GET"},
                           origin : {"none", "listed", "unlisted"},
                           path : {"health", "ready", "app"},
                           id : {"absent", "valid", "malformed"}]

Writers == Helpers \cup {Main}

VARIABLES
    config,    \* of the server
    request,   \* the request that is served
    unready,   \* cfg.ReadinessCheck() fails
    pc,        \* where each goroutine is
    call,      \* its call on the ResponseWriter
    made,      \* how many it has made
    wrote,     \* responseWriter.wroteHeader
    status,    \* responseWriter.status
    bytes,     \* responseWriter.bytesWritten
    accepted,  \* chunks the underlying Write of each goroutine reported, 0 or 1
    wire,      \* the final status the client was sent, 0 for none yet
    sent,      \* chunks of the handler's body net/http has accepted
    line,      \* the access log's line
    reported,  \* Recovery has logged a panic
    history,   \* history: the calls made so far
    asked      \* history: what those calls, made in this order on a bare
               \* http.ResponseWriter, put on the wire

setup   == <<config, request, unready>>
counter == <<wrote, status, bytes>>
client  == <<wire, sent>>
logs    == <<line, reported>>
past    == <<history, asked>>
vars == <<setup, pc, call, made, counter, accepted, client, logs, past>>

-----------------------------------------------------------------------------
(***************************************************************************)
(* What a request and a configuration make of the chain.                   *)
(***************************************************************************)
MatchOrigin(origin, cors) == cors = "wildcard" \/ origin = "listed"

\* CORS answers a preflight itself; the mux never sees it.
IsPreflight(c, r) ==
    /\ c.cors # "off"
    /\ r.origin # "none"
    /\ MatchOrigin(r.origin, c.cors)
    /\ r.method = "OPTIONS"

\* RequestID: what does not match validRequestID is replaced.
RequestID(r) == IF r.id = "valid" THEN "client" ELSE "generated"

SkipPaths == {"health", "ready"}
Level(r) == IF r.path \in SkipPaths THEN "debug" ELSE "info"

\* Mutant of Body: Write wins the flag and stores no status.
BodyUnset == [op |-> "body", code |-> 0]

\* Calls on the ResponseWriter, with the status each implies.
Header(code) == [op |-> "header", code |-> code]
Flush == [op |-> "flush", code |-> 200]
Body == [op |-> "body", code |-> 200]

Calls == {Header(code) : code \in Codes} \cup {Body, Flush}

\* The handlers of this package, call by call.
HealthScript == <<Body>>
ReadyScript  == IF unready THEN <<Header(503), Body>> ELSE <<Body>>
CORSScript   == <<Header(204)>>

\* The handler is the application's, which may do anything.
IsApp == /\ ~IsPreflight(config, request)
         /\ request.path = "app" \/ ~config.health
Script == IF IsPreflight(config, request) THEN CORSScript
          ELSE IF request.path = "health" THEN HealthScript ELSE ReadyScript

\* Goroutine w may make call k next.
Offers(w, k) ==
    IF IsApp
      THEN made[w] < MaxCalls /\ k \in Calls
      ELSE w = Main /\ made[w] < Len(Script) /\ k = Script[made[w] + 1]

-----------------------------------------------------------------------------
NoLine == [status |-> 0, bytes |-> 0, level |-> "none", id |-> "none"]
Idle   == [op |-> "none", code |-> 0]

\* The wrapper RequestLog makes: a handler that sends nothing is logged as 200.
NewWriter == wrote = FALSE /\ status = 200 /\ bytes = 0

Init ==
    /\ config \in Configs
    /\ request \in Requests
    /\ unready \in BOOLEAN
    /\ pc = [w \in Writers |-> "run"]
    /\ call = [w \in Writers |-> Idle]
    /\ made = [w \in Writers |-> 0]
    /\ NewWriter
    /\ accepted = [w \in Writers |-> 0]
    /\ wire = 0
    /\ sent = 0
    /\ line = NoLine
    /\ reported = FALSE
    /\ history = {}
    /\ asked = 0

Goto(w, place) == pc' = [pc EXCEPT ![w] = place]

\* net/http: a final status is sent once, an informational one does not count.
Informational(code) == code \in 100 .. 199
Send(old, code) == IF old = 0 /\ ~Informational(code) THEN code ELSE old

-----------------------------------------------------------------------------
(***************************************************************************)
(* The wrapper.                                                            *)
(***************************************************************************)

\* Mutant of AfterFlag: every call stores its status.
AfterFlagStoring(k) == "store"

\* Mutant of AfterFlag: a WriteHeader that comes second is dropped.
AfterFlagDropping(k) == IF ~wrote THEN "store"
                        ELSE IF k.op = "body" THEN "body" ELSE "run"

\* Who wins the flag stores its status first; the others are passed through.
AfterFlag(k) == IF ~wrote THEN "store" ELSE k.op

\* WriteHeader or Write is called: the compare-and-swap of wroteHeader.
Enter(w, k) ==
    /\ pc[w] = "run" /\ Offers(w, k) /\ k.op # "flush"
    /\ call' = [call EXCEPT ![w] = k]
    /\ made' = [made EXCEPT ![w] = @ + 1]
    /\ wrote' = TRUE
    /\ Goto(w, AfterFlag(k))
    /\ history' = history \cup {[by |-> w, op |-> k.op, code |-> k.code]}
    /\ asked' = Send(asked, k.code)
    /\ UNCHANGED <<setup, status, bytes, accepted, client, logs>>

\* The winner stores its status; a Write's is 200.
StoreStatus(w) ==
    /\ pc[w] = "store"
    /\ status' = call[w].code
    /\ Goto(w, "header")
    /\ UNCHANGED <<setup, call, made, wrote, bytes, accepted, client, logs, past>>

\* The underlying WriteHeader, also of a call that came second.
PassHeader(w) ==
    /\ pc[w] = "header"
    /\ wire' = Send(wire, call[w].code)
    /\ Goto(w, IF call[w].op = "body" THEN "body" ELSE "run")
    /\ UNCHANGED <<setup, call, made, counter, accepted, sent, logs, past>>

\* The underlying Write: it accepts nothing where the status has no body or
\* the connection is gone.
PassBody(w) ==
    /\ pc[w] = "body"
    /\ wire' = Send(wire, 200)
    /\ \E n \in {0, 1} :
          /\ n = 1 => wire' # 204
          /\ accepted' = [accepted EXCEPT ![w] = n]
          /\ sent' = sent + n
    /\ Goto(w, "count")
    /\ UNCHANGED <<setup, call, made, counter, logs, past>>

CountBytes(w) ==
    /\ pc[w] = "count"
    /\ bytes' = bytes + accepted[w]
    /\ accepted' = [accepted EXCEPT ![w] = 0]
    /\ Goto(w, "run")
    /\ UNCHANGED <<setup, call, made, wrote, status, client, logs, past>>

\* Flush goes past the flag; one that finds no header on the wire sends a 200.
PassFlush(w) ==
    /\ pc[w] = "run" /\ Offers(w, Flush)
    /\ made' = [made EXCEPT ![w] = @ + 1]
    /\ wire' = Send(wire, 200)
    /\ history' = history \cup
          {[by |-> w, op |-> IF wire = 0 THEN "early flush" ELSE "flush", code |-> 200]}
    /\ asked' = Send(asked, 200)
    /\ UNCHANGED <<setup, pc, call, counter, accepted, sent, logs>>

-----------------------------------------------------------------------------
(***************************************************************************)
(* The handler's goroutine on its way out through the chain.               *)
(***************************************************************************)

\* The handler returns when the goroutines it started have: net/http allows no
\* call on the ResponseWriter after that.
Return ==
    /\ pc[Main] = "run"
    /\ IsApp \/ made[Main] = Len(Script)
    /\ \A h \in Helpers : pc[h] = "run"
    /\ pc' = [w \in Writers |-> IF w = Main THEN "log" ELSE "left"]
    /\ UNCHANGED <<setup, call, made, counter, accepted, client, logs, past>>

AccessLine == [status |-> status, bytes |-> bytes,
               level |-> Level(request), id |-> RequestID(request)]

\* RequestLog writes its line with what the wrapper has counted.
LogLine ==
    /\ pc[Main] = "log"
    /\ line' = AccessLine
    /\ Goto(Main, "finish")
    /\ UNCHANGED <<setup, call, made, counter, accepted, client, reported, past>>

\* Mutant of Panic: the line is deferred and written all the same.
PanicDeferredLine ==
    /\ pc[Main] = "run" /\ IsApp
    /\ line' = AccessLine
    /\ Goto(Main, IF config.recovers THEN "recover" ELSE "aborted")
    /\ UNCHANGED <<setup, call, made, counter, accepted, client, reported, past>>

\* The handler panics between two calls: RequestLog has no defer, so the line
\* is skipped.  Its helpers know nothing of it.  Without Recovery net/http
\* drops the connection.
Panic ==
    /\ pc[Main] = "run" /\ IsApp
    /\ Goto(Main, IF config.recovers THEN "recover" ELSE "aborted")
    /\ UNCHANGED <<setup, call, made, counter, accepted, client, logs, past>>

\* Recovery logs the panic and answers past the wrapper.
Recover ==
    /\ pc[Main] = "recover"
    /\ reported' = TRUE
    /\ Goto(Main, "http.Error")
    /\ UNCHANGED <<setup, call, made, counter, accepted, client, line, past>>

RecoverHeader ==
    /\ pc[Main] = "http.Error"
    /\ wire' = Send(wire, 500)
    /\ Goto(Main, "finish")
    /\ UNCHANGED <<setup, call, made, counter, accepted, sent, logs, past>>

\* net/http ends the response: 200 when nobody sent a header.
Finish ==
    /\ pc[Main] = "finish"
    /\ wire' = Send(wire, 200)
    /\ pc' = [w \in Writers |-> IF w = Main THEN "ended" ELSE "left"]
    /\ UNCHANGED <<setup, call, made, counter, accepted, sent, logs, past>>

Wrapper(w) ==
    \/ \E k \in Calls \cup {Header(503), Header(204)} : Enter(w, k)
    \/ StoreStatus(w) \/ PassHeader(w) \/ PassBody(w) \/ CountBytes(w) \/ PassFlush(w)

Chain == Return \/ LogLine \/ Panic \/ Recover \/ RecoverHeader \/ Finish

Next == Chain \/ \E w \in Writers : Wrapper(w)

Spec == Init /\ [][Next]_vars
-----------------------------------------------------------------------------
(***************************************************************************)
(* Type invariant.                                                         *)
(***************************************************************************)
Statuses == Codes \cup {200, 204, 500, 503}
Past == [by : Writers, op : {"header", "body", "early flush", "flush"}, code : Statuses]
Lines == [status : Statuses, bytes : Nat, level : {"info", "debug"},
          id : {"client", "generated"}]

SetupType ==
    /\ config \in Configs
    /\ request \in Requests
    /\ unready \in BOOLEAN
WriterType ==
    /\ pc \in [Writers -> {"run", "store", "header", "body", "count", "log", "left",
                           "recover", "http.Error", "finish", "ended", "aborted"}]
    /\ call \in [Writers -> Calls \cup {Header(204), Header(503), Idle}]
    /\ made \in [Writers -> Nat]
    /\ accepted \in [Writers -> {0, 1}]
ResponseType ==
    /\ wrote \in BOOLEAN
    /\ status \in Statuses
    /\ bytes \in Nat
    /\ wire \in Statuses \cup {0}
    /\ sent \in Nat
    /\ line \in Lines \cup {NoLine}
    /\ reported \in BOOLEAN
PastType ==
    /\ history \subseteq Past
    /\ asked \in Statuses \cup {0}

\* Every variable holds a value of its type; what is logged and what is sent is
\* a status somebody asked for and never the empty call's.
TypeOK == SetupType /\ WriterType /\ ResponseType /\ PastType

-----------------------------------------------------------------------------
(***************************************************************************)
(* Safety.                                                                 *)
(***************************************************************************)

\* Only the handler's own goroutine has made calls.
SoleWriter == \A h \in history : h.by = Main

\* The wrapper is transparent (response_writer.go:29): a handler that writes
\* from one goroutine has, after each call and at the end, put on the wire what
\* the same calls put there on a bare http.ResponseWriter.  A call that comes
\* second has to be passed through for that, although its status is not kept:
\* after a 103 it is the one that counts.
WireUnchanged ==
    SoleWriter =>
        /\ pc[Main] \in {"run", "log"} => wire = asked
        /\ pc[Main] = "ended" /\ ~reported => wire = Send(asked, 200)

\* One goroutine, no informational status, no Flush ahead of the header.
Plain == /\ SoleWriter
         /\ \A h \in history : h.op # "early flush" /\ ~Informational(h.code)

\* Any number of goroutines that all ask for the same final status; a Flush that
\* finds a header on the wire asks for none.
Decisive == {h \in history : h.op # "flush"}
Agreed == \A g, h \in Decisive : g.code = h.code /\ ~Informational(h.code)

\* The access log says what happened (response_writer.go:8): as many chunks as
\* were accepted, however many goroutines wrote them, and the status the client
\* was sent.  The latter only of a response with one plain writer, or whose
\* writers agree: between the flag and the header another goroutine's call can
\* reach the wire first, a 103 takes the place of the final status, and a Flush
\* sends a 200 the wrapper does not see.
LineIsTrue ==
    line # NoLine =>
        /\ line.bytes = sent
        /\ pc[Main] = "ended" /\ (Plain \/ Agreed) => line.status = wire

\* A request leaves one trace (middleware.go:45): the access log's line, or, when
\* its handler panicked, Recovery's; then the client has a 500, unless the
\* handler had sent a header, which stays.  Without Recovery the connection is
\* dropped and there is neither.
PanicReported ==
    /\ pc[Main] = "ended" => (reported <=> line = NoLine)
    /\ pc[Main] = "ended" /\ reported /\ SoleWriter => wire = Send(asked, 500)
    /\ pc[Main] = "aborted" => line = NoLine /\ ~reported
=============================================================================
