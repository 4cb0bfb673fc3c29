----------------------------- MODULE ServerRun ------------------------------
(***************************************************************************)
(* Run (mcpserver.go): from building the handler to the return, with the   *)
(* listener goroutine, requests in flight and the two in-memory sessions   *)
(* of the REST bridge (rest.go), which have two closers: the cleanup that  *)
(* Run calls once the HTTP server has drained, and the safety-net          *)
(* goroutine that waits for bridgeCtx, cancelled by a deferred call.       *)
(*                                                                         *)
(* net/http is external: it accepts requests until Shutdown, and Shutdown  *)
(* returns when none is in flight, or with an error when its context ends. *)
(* Stdio mode, which hands over to the SDK, and logging are left out.      *)
(***************************************************************************)
CONSTANTS
    Requests,       \* requests in flight at once
    BridgeModes     \* what cfg.RESTBridge may be

ASSUME BridgeAssumption == BridgeModes \subseteq BOOLEAN

VARIABLES
    pc,         \* where Run is
    ret,        \* what it returned: nil, or the error of which call
    bridge,     \* cfg.RESTBridge
    signalled,  \* sigCtx is done
    listener,   \* ListenAndServe: "unbound" when the port was taken, "broken"
                \* when Accept failed
    listenErr,  \* the channel holds its error
    inShutdown, \* srv.Shutdown has been called
    hooked,     \* ghost: OnShutdown has returned
    client,     \* the bridge's client session
    peer,       \* its server session
    once,       \* closeOnce: "new", who is inside, or "done"
    closer,     \* where each closer is
    req         \* where each request is

httpVars == <<listener, listenErr, inShutdown, req>>
sessionVars == <<client, peer, once, closer>>
vars == <<pc, ret, bridge, signalled, hooked, httpVars, sessionVars>>

Closers == {"run", "net"}
Failed == listener \in {"unbound", "broken"}
InFlight == {r \in Requests : req[r] # "idle"}

Goto(place) == pc' = place /\ UNCHANGED ret
Return(result) == pc' = "returned" /\ ret' = result

Init ==
    /\ pc = "build"
    /\ ret = "none"
    /\ bridge \in BridgeModes
    /\ signalled = FALSE
    /\ listener = "off"
    /\ listenErr = FALSE
    /\ inShutdown = FALSE
    /\ hooked = FALSE
    /\ client = "none"
    /\ peer = "none"
    /\ once = "new"
    /\ closer = [x \in Closers |-> "idle"]
    /\ req = [r \in Requests |-> "idle"]

-----------------------------------------------------------------------------
(***************************************************************************)
(* Run.                                                                    *)
(***************************************************************************)

\* buildHandler, and the listener goroutine.
Built ==
    /\ pc = "build"
    /\ client' = IF bridge THEN "open" ELSE "none"
    /\ peer' = client'
    /\ listener' = "starting"
    /\ Goto("select")
    /\ UNCHANGED <<bridge, signalled, hooked, listenErr, inShutdown, req, once,
                   closer>>

\* Either Connect of startRESTBridge fails, the second one with a session to
\* close; no safety net has been started.
BuildFails ==
    /\ pc = "build"
    /\ bridge
    /\ peer' \in {"none", "closed"}
    /\ Return("build")
    /\ UNCHANGED <<bridge, signalled, hooked, httpVars, client, once, closer>>

\* The select: when a signal and the listener's error are both there, either
\* is taken.
TakeSignal ==
    /\ pc = "select"
    /\ signalled
    /\ Goto("hook")
    /\ UNCHANGED <<bridge, signalled, hooked, httpVars, sessionVars>>

TakeListenErr ==
    /\ pc = "select"
    /\ listenErr
    /\ listenErr' = FALSE
    /\ signalled' = TRUE
    /\ Return("listen")
    /\ UNCHANGED <<bridge, hooked, listener, inShutdown, req, sessionVars>>

OnShutdown ==
    /\ pc = "hook"
    /\ hooked' = TRUE
    /\ Goto("shutdown")
    /\ UNCHANGED <<bridge, signalled, httpVars, sessionVars>>

\* Mutant of Shutdown: http.ErrServerClosed is reported as an error.
ShutdownReported ==
    /\ pc = "shutdown"
    /\ inShutdown' = TRUE
    /\ listener' = IF Failed THEN listener ELSE "closed"
    /\ listenErr' = TRUE
    /\ Goto("drain")
    /\ UNCHANGED <<bridge, signalled, hooked, req, sessionVars>>

\* srv.Shutdown begins: ListenAndServe returns http.ErrServerClosed, which is
\* not reported.
Shutdown ==
    /\ pc = "shutdown"
    /\ inShutdown' = TRUE
    /\ listener' = IF Failed THEN listener ELSE "closed"
    /\ Goto("drain")
    /\ UNCHANGED <<bridge, signalled, hooked, listenErr, req, sessionVars>>

Drained ==
    /\ pc = "drain"
    /\ InFlight = {}
    /\ IF bridge THEN Goto("cleanup") ELSE Return("nil")
    /\ UNCHANGED <<bridge, signalled, hooked, httpVars, sessionVars>>

\* Mutant of ShutdownFails: the context of Shutdown has no deadline.
ShutdownNeverFails == pc = "nowhere" /\ UNCHANGED vars

\* Mutant of ShutdownFails: the error is logged, and Run goes on.
ShutdownFailsIgnored ==
    /\ pc = "drain"
    /\ IF bridge THEN Goto("cleanup") ELSE Return("nil")
    /\ UNCHANGED <<bridge, signalled, hooked, httpVars, sessionVars>>

\* cfg.ShutdownTimeout passes with requests in flight, or the listener's Close
\* fails: Run returns before the cleanup.
ShutdownFails ==
    /\ pc = "drain"
    /\ Return("shutdown")
    /\ UNCHANGED <<bridge, signalled, hooked, httpVars, sessionVars>>

CleanedUp ==
    /\ pc = "cleanup"
    /\ closer["run"] = "done"
    /\ Return("nil")
    /\ UNCHANGED <<bridge, signalled, hooked, httpVars, sessionVars>>

-----------------------------------------------------------------------------
(***************************************************************************)
(* doClose, by Run's cleanup and by the safety net.                        *)
(***************************************************************************)

\* Mutants of BridgeDone: the bridge is given sigCtx, and nothing is deferred.
BridgeDoneOnSignal == signalled \/ pc = "returned"
BridgeNeverDone == pc = "nowhere"

\* bridgeCtx is done: the deferred bridgeCancel has run.
BridgeDone == pc = "returned"

MayClose(x) == IF x = "run" THEN pc = "cleanup" ELSE client # "none" /\ BridgeDone

\* sync.Once: the second caller waits for the first and does nothing.
EnterOnce(x) ==
    /\ closer[x] = "idle" /\ MayClose(x)
    /\ \/ once = "new" /\ once' = x /\ closer' = [closer EXCEPT ![x] = "client"]
       \/ once = "done" /\ UNCHANGED once /\ closer' = [closer EXCEPT ![x] = "done"]
    /\ UNCHANGED <<pc, ret, bridge, signalled, hooked, httpVars, client, peer>>

CloseClient(x) ==
    /\ closer[x] = "client"
    /\ client' = "closed"
    /\ closer' = [closer EXCEPT ![x] = "server"]
    /\ UNCHANGED <<pc, ret, bridge, signalled, hooked, httpVars, peer, once>>

CloseServer(x) ==
    /\ closer[x] = "server"
    /\ peer' = "closed"
    /\ once' = "done"
    /\ closer' = [closer EXCEPT ![x] = "done"]
    /\ UNCHANGED <<pc, ret, bridge, signalled, hooked, httpVars, client>>

-----------------------------------------------------------------------------
(***************************************************************************)
(* The HTTP server, the signal and the requests.                           *)
(***************************************************************************)
Signal ==
    /\ ~signalled
    /\ signalled' = TRUE
    /\ UNCHANGED <<pc, ret, bridge, hooked, httpVars, sessionVars>>

Listen ==
    /\ listener = "starting"
    /\ listener' = "serving"
    /\ UNCHANGED <<pc, ret, bridge, signalled, hooked, listenErr, inShutdown, req,
                   sessionVars>>

\* The port is taken, or Accept fails for good.
ListenFails ==
    /\ \/ listener = "starting" /\ listener' = "unbound"
       \/ listener = "serving" /\ listener' = "broken"
    /\ listenErr' = TRUE
    /\ UNCHANGED <<pc, ret, bridge, signalled, hooked, inShutdown, req, sessionVars>>

SetReq(r, place) ==
    /\ req' = [req EXCEPT ![r] = place]
    /\ UNCHANGED <<pc, ret, bridge, signalled, hooked, listener, listenErr,
                   inShutdown, sessionVars>>

\* A connection is accepted, or one that is kept alive has its next request:
\* from here on Shutdown waits for it.
Arrive(r) ==
    /\ req[r] = "idle"
    /\ listener \in {"serving", "broken"} /\ ~inShutdown
    /\ SetReq(r, "active")

\* A REST handler calls CallTool or ListTools, as often as it needs to.
UseBridge(r) ==
    /\ req[r] = "active"
    /\ bridge
    /\ SetReq(r, IF client = "open" THEN "calling" ELSE "lost")

Replied(r) == req[r] = "calling" /\ SetReq(r, "active")

\* The session is closed under the call.
LoseSession(r) ==
    /\ req[r] = "calling"
    /\ client # "open" \/ peer # "open"
    /\ SetReq(r, "lost")

Finish(r) == req[r] \in {"active", "lost"} /\ SetReq(r, "idle")

-----------------------------------------------------------------------------
RunStep ==
    \/ Built \/ BuildFails \/ TakeSignal \/ TakeListenErr \/ OnShutdown
    \/ Shutdown \/ Drained \/ ShutdownFails \/ CleanedUp
CloseStep(x) == EnterOnce(x) \/ CloseClient(x) \/ CloseServer(x)
RequestStep(r) ==
    \/ Arrive(r) \/ UseBridge(r) \/ Replied(r) \/ LoseSession(r) \/ Finish(r)

Next ==
    \/ RunStep
    \/ \E x \in Closers : CloseStep(x)
    \/ Signal \/ Listen \/ ListenFails
    \/ \E r \in Requests : RequestStep(r)

Spec == Init /\ [][Next]_vars

-----------------------------------------------------------------------------
(***************************************************************************)
(* Type invariant.                                                         *)
(***************************************************************************)
Results == {"nil", "build", "listen", "shutdown"}
SessionStates == {"none", "open", "closed"}

\* Every variable holds a value of its type; Run has a result when it is left,
\* and an error in the channel is one of a listener that failed.
TypeOK ==
    /\ pc \in {"build", "select", "hook", "shutdown", "drain", "cleanup", "returned"}
    /\ ret \in Results \cup {"none"}
    /\ (ret = "none") <=> (pc # "returned")
    /\ bridge \in BOOLEAN
    /\ signalled \in BOOLEAN
    /\ listener \in {"off", "starting", "serving", "unbound", "broken", "closed"}
    /\ listenErr \in BOOLEAN /\ (listenErr => Failed)
    /\ inShutdown \in BOOLEAN
    /\ hooked \in BOOLEAN
    /\ client \in SessionStates
    /\ peer \in SessionStates
    /\ once \in {"new", "done"} \cup Closers
    /\ closer \in [Closers -> {"idle", "client", "server", "done"}]
    /\ req \in [Requests -> {"idle", "active", "calling", "lost"}]

-----------------------------------------------------------------------------
(***************************************************************************)
(* Properties.                                                             *)
(***************************************************************************)

\* No request finds its session closed, also none that arrives between the
\* signal and the end of the drain, unless Run has left with an error
\* (mcpserver.go:107, 172).
SessionKept ==
    \A r \in Requests : req[r] = "lost" => ret \in Results \ {"nil"}

\* When Run returns nil everything is over: OnShutdown was called, no request
\* is in flight nor can one arrive, and both sessions are closed.
CleanReturn ==
    ret = "nil" =>
        /\ hooked /\ InFlight = {}
        /\ inShutdown
        /\ client # "open" /\ peer # "open"

\* The two closers never close a session twice (rest.go:114), and always the
\* client's end first.
ClosedOnce ==
    [][\A x \in Closers :
          /\ CloseClient(x) => client = "open"
          /\ CloseServer(x) => client = "closed" /\ peer = "open"]_vars

(***************************************************************************)
(* Fairness: Run, the closers and the listener go on; Built or BuildFails, *)
(* and Drained or ShutdownFails, one of them happens, the latter because   *)
(* Shutdown has a deadline.  A request need never finish.                  *)
(***************************************************************************)
Fairness == WF_vars(RunStep) /\ \A x \in Closers : WF_vars(CloseStep(x))
FairSpec == Spec /\ Fairness

\* A signal ends Run, also while a request never finishes (mcpserver.go:163).
SignalEndsRun == signalled ~> pc = "returned"

\* Whichever way Run is left, both sessions end up closed (rest.go:108).
SessionsEndClosed == pc = "returned" ~> client # "open" /\ peer # "open"
=============================================================================
