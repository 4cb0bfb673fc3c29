-------------------------- MODULE ServerRun_proofs --------------------------
(***************************************************************************)
(* Proofs about ServerRun, for any number of requests.                     *)
(***************************************************************************)
EXTENDS ServerRun, TLAPS

-----------------------------------------------------------------------------
(***************************************************************************)
(* The inductive invariant.                                                *)
(***************************************************************************)

\* What is up before, while and after Run serves.
Before == pc = "build" \/ ret = "build"
Over == pc = "cleanup" \/ ret = "nil"
RunInv ==
    /\ Before => client = "none" /\ listener = "off" /\ InFlight = {}
    /\ bridge /\ ~Before => client # "none"
    /\ client # "none" => bridge
    /\ pc \in {"shutdown", "drain"} => hooked
    /\ pc = "drain" => inShutdown
    /\ Over => hooked /\ inShutdown /\ InFlight = {}
    /\ pc = "cleanup" => bridge
    /\ \A r \in Requests : req[r] = "calling" => bridge

\* Who may close, and how far the closing has come.
CloseInv ==
    /\ closer["run"] # "idle" => Over
    /\ closer["net"] # "idle" => pc = "returned" /\ client # "none"
    /\ \A x \in Closers :
          /\ closer[x] \in {"client", "server"} => once = x
          /\ closer[x] = "client" => client = "open" /\ peer = "open"
          /\ closer[x] = "server" => client = "closed" /\ peer = "open"
          /\ closer[x] = "done" => once = "done"
    /\ once \in Closers => closer[once] \in {"client", "server"}
    /\ once = "new" /\ client # "none" => client = "open" /\ peer = "open"
    /\ once = "done" => client = "closed" /\ peer = "closed"
    /\ once # "new" => Over \/ pc = "returned"
    /\ client = "none" => once = "new" /\ (~Before => peer = "none")
    /\ ret = "nil" /\ bridge => once = "done"

IInv == TypeOK /\ RunInv /\ CloseInv /\ SessionKept

-----------------------------------------------------------------------------
LEMMA IInvInit == Init => IInv
BY BridgeAssumption
   DEF Init, IInv, TypeOK, RunInv, CloseInv, SessionKept, Before, Over, InFlight,
       Closers, Results, SessionStates

LEMMA TypeStep == TypeOK /\ RunInv /\ [Next]_vars => TypeOK'
<1> SUFFICES ASSUME TypeOK, RunInv, [Next]_vars PROVE TypeOK' OBVIOUS
<1> USE DEF TypeOK, Results, SessionStates, Closers, Goto, Return, Failed, httpVars,
            sessionVars
<1>1. CASE Built
  <2>1. ~listenErr BY <1>1 DEF Built, RunInv, Before
  <2> QED BY <1>1, <2>1 DEF Built
<1>2. CASE BuildFails BY <1>2 DEF BuildFails
<1>3. CASE TakeSignal \/ OnShutdown
  <2>1. CASE TakeSignal BY <2>1 DEF TakeSignal
  <2>2. CASE OnShutdown BY <2>2 DEF OnShutdown
  <2> QED BY <1>3, <2>1, <2>2
<1>4. CASE TakeListenErr BY <1>4 DEF TakeListenErr
<1>5. CASE Shutdown BY <1>5 DEF Shutdown
<1>6. CASE Drained BY <1>6 DEF Drained
<1>7. CASE ShutdownFails \/ CleanedUp BY <1>7 DEF ShutdownFails, CleanedUp
<1>8. ASSUME NEW x \in Closers, CloseStep(x) PROVE TypeOK'
  <2>1. CASE EnterOnce(x) BY <2>1 DEF EnterOnce
  <2>2. CASE CloseClient(x) \/ CloseServer(x) BY <2>2 DEF CloseClient, CloseServer
  <2> QED BY <1>8, <2>1, <2>2 DEF CloseStep
<1>9. CASE Signal BY <1>9 DEF Signal
<1>10. CASE Listen BY <1>10 DEF Listen
<1>11. CASE ListenFails BY <1>11 DEF ListenFails
<1>12. CASE UNCHANGED vars BY <1>12 DEF vars
<1>13. ASSUME NEW r \in Requests, RequestStep(r) PROVE TypeOK'
  BY <1>13 DEF RequestStep, Arrive, UseBridge, Replied, LoseSession, Finish, SetReq
<1> QED
  BY <1>1, <1>2, <1>3, <1>4, <1>5, <1>6, <1>7, <1>8, <1>9, <1>10, <1>11, <1>12, <1>13
     DEF Next, RunStep

\* Once a request may not arrive, none is in flight that was not before.
LEMMA RunStepInv == TypeOK /\ RunInv /\ CloseInv /\ [Next]_vars => RunInv'
<1> SUFFICES ASSUME TypeOK, RunInv, CloseInv, [Next]_vars PROVE RunInv' OBVIOUS
<1> USE DEF TypeOK, RunInv, Before, Over, InFlight, Goto, Return, httpVars, sessionVars,
            Results
<1>1. CASE Built \/ BuildFails \/ TakeSignal \/ TakeListenErr \/ OnShutdown
  BY <1>1 DEF Built, BuildFails, TakeSignal, TakeListenErr, OnShutdown
<1>2. CASE Shutdown \/ Drained \/ ShutdownFails \/ CleanedUp
  BY <1>2 DEF Shutdown, Drained, ShutdownFails, CleanedUp
<1>3. ASSUME NEW x \in Closers, CloseStep(x) PROVE RunInv'
  <2>1. client # "none" \/ UNCHANGED client
    BY <1>3 DEF CloseStep, EnterOnce, CloseClient, CloseServer, CloseInv
  <2> QED BY <1>3, <2>1 DEF CloseStep, EnterOnce, CloseClient, CloseServer
<1>4. CASE Signal \/ Listen \/ ListenFails \/ UNCHANGED vars
  BY <1>4 DEF Signal, Listen, ListenFails, vars
<1>5. ASSUME NEW r \in Requests, RequestStep(r) PROVE RunInv'
  <2>1. UNCHANGED <<pc, ret, bridge, listener, inShutdown, hooked, client>>
    BY <1>5 DEF RequestStep, Arrive, UseBridge, Replied, LoseSession, Finish, SetReq
  <2>2. ~Before /\ ~Over
    BY <1>5 DEF RequestStep, Arrive, UseBridge, Replied, LoseSession, Finish
  <2>3. \A q \in Requests : req'[q] = "calling" => bridge
    BY <1>5 DEF RequestStep, Arrive, UseBridge, Replied, LoseSession, Finish, SetReq
  <2> QED BY <2>1, <2>2, <2>3
<1> QED BY <1>1, <1>2, <1>3, <1>4, <1>5 DEF Next, RunStep

LEMMA CloseStepInv == TypeOK /\ RunInv /\ CloseInv /\ [Next]_vars => CloseInv'
<1> SUFFICES ASSUME TypeOK, RunInv, CloseInv, [Next]_vars PROVE CloseInv' OBVIOUS
<1> USE DEF TypeOK, CloseInv, Before, Over, Closers, Goto, Return, httpVars,
            sessionVars, Results, SessionStates
<1>1. CASE Built \/ BuildFails
  BY <1>1 DEF Built, BuildFails, RunInv
<1>2. CASE TakeSignal \/ TakeListenErr \/ OnShutdown \/ Shutdown \/ ShutdownFails
  BY <1>2 DEF TakeSignal, TakeListenErr, OnShutdown, Shutdown, ShutdownFails, RunInv
<1>3. CASE Drained \/ CleanedUp
  BY <1>3 DEF Drained, CleanedUp, RunInv
<1>4. ASSUME NEW x \in Closers, EnterOnce(x) PROVE CloseInv'
  BY <1>4 DEF EnterOnce, MayClose, BridgeDone, RunInv
<1>5. ASSUME NEW x \in Closers, CloseClient(x) \/ CloseServer(x) PROVE CloseInv'
  BY <1>5 DEF CloseClient, CloseServer
<1>6. CASE Signal \/ Listen \/ ListenFails \/ UNCHANGED vars
  BY <1>6 DEF Signal, Listen, ListenFails, vars
<1>7. ASSUME NEW r \in Requests, RequestStep(r) PROVE CloseInv'
  BY <1>7 DEF RequestStep, Arrive, UseBridge, Replied, LoseSession, Finish, SetReq
<1> QED BY <1>1, <1>2, <1>3, <1>4, <1>5, <1>6, <1>7 DEF Next, RunStep, CloseStep

\* While Run has not left with an error, an open request has an open session.
LEMMA OpenWhileServed ==
    ASSUME TypeOK, RunInv, CloseInv, bridge, InFlight # {}, ret \in {"none", "nil"}
    PROVE  client = "open" /\ peer = "open"
BY DEF TypeOK, RunInv, CloseInv, Before, Over, Closers, SessionStates, Results

LEMMA KeptStep ==
    TypeOK /\ RunInv /\ CloseInv /\ SessionKept /\ [Next]_vars => SessionKept'
<1> SUFFICES ASSUME TypeOK, RunInv, CloseInv, SessionKept, [Next]_vars
             PROVE  SessionKept'
  OBVIOUS
<1> USE DEF TypeOK, SessionKept, Goto, Return, httpVars, sessionVars, Results
<1>1. CASE Built \/ BuildFails \/ TakeSignal \/ TakeListenErr \/ OnShutdown
  BY <1>1 DEF Built, BuildFails, TakeSignal, TakeListenErr, OnShutdown
<1>2. CASE Shutdown \/ Drained \/ ShutdownFails \/ CleanedUp
  BY <1>2 DEF Shutdown, Drained, ShutdownFails, CleanedUp
<1>3. ASSUME NEW x \in Closers, CloseStep(x) PROVE SessionKept'
  BY <1>3 DEF CloseStep, EnterOnce, CloseClient, CloseServer
<1>4. CASE Signal \/ Listen \/ ListenFails \/ UNCHANGED vars
  BY <1>4 DEF Signal, Listen, ListenFails, vars
<1>5. ASSUME NEW r \in Requests, RequestStep(r) PROVE SessionKept'
  <2>1. CASE UseBridge(r) \/ LoseSession(r)
    <3>1. InFlight # {} BY <2>1 DEF UseBridge, LoseSession, InFlight
    <3>2. bridge BY <2>1 DEF UseBridge, LoseSession, RunInv
    <3>3. CASE ret \in {"none", "nil"}
      BY <2>1, <3>1, <3>2, <3>3, OpenWhileServed DEF UseBridge, LoseSession, SetReq
    <3>4. CASE ret \notin {"none", "nil"}
      BY <2>1, <3>4 DEF UseBridge, LoseSession, SetReq
    <3> QED BY <3>3, <3>4
  <2>2. CASE Arrive(r) \/ Replied(r) \/ Finish(r)
    BY <2>2 DEF Arrive, Replied, Finish, SetReq
  <2> QED BY <1>5, <2>1, <2>2 DEF RequestStep
<1> QED BY <1>1, <1>2, <1>3, <1>4, <1>5 DEF Next, RunStep

-----------------------------------------------------------------------------
(***************************************************************************)
(* The theorems.                                                           *)
(***************************************************************************)
LEMMA Inductive == Spec => []IInv
<1>1. IInv /\ [Next]_vars => IInv'
  BY TypeStep, RunStepInv, CloseStepInv, KeptStep DEF IInv
<1> QED BY IInvInit, <1>1, PTL DEF Spec

\* Every variable keeps a value of its type.
THEOREM TypeCorrect == Spec => []TypeOK
<1>1. IInv => TypeOK BY DEF IInv
<1> QED BY <1>1, Inductive, PTL

\* However many requests are in flight when the signal comes, or arrive after it,
\* none finds its session closed unless Run has left with an error
\* (mcpserver.go:107, 172).
THEOREM SessionKeptHolds == Spec => []SessionKept
<1>1. IInv => SessionKept BY DEF IInv
<1> QED BY <1>1, Inductive, PTL

\* Run returns nil only when OnShutdown was called, the HTTP server has drained and
\* both sessions are closed (mcpserver.go:158-179).
THEOREM CleanReturnHolds == Spec => []CleanReturn
<1>1. IInv => CleanReturn
  BY DEF IInv, TypeOK, RunInv, CloseInv, CleanReturn, Before, Over, SessionStates
<1> QED BY <1>1, Inductive, PTL

\* The cleanup and the safety net together close each session once, the client's
\* end first (rest.go:114).
THEOREM ClosedOnceHolds == Spec => ClosedOnce
<1>1. IInv /\ [Next]_vars =>
        [\A x \in Closers : /\ CloseClient(x) => client = "open"
                            /\ CloseServer(x) => client = "closed" /\ peer = "open"]_vars
  <2> SUFFICES ASSUME IInv, NEW x \in Closers
               PROVE  /\ CloseClient(x) => client = "open"
                      /\ CloseServer(x) => client = "closed" /\ peer = "open"
    OBVIOUS
  <2> QED BY DEF IInv, CloseInv, CloseClient, CloseServer
<1> QED BY <1>1, Inductive, PTL DEF Spec, ClosedOnce
=============================================================================
