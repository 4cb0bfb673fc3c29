------------------------- MODULE ToolTimeout_proofs -------------------------
(***************************************************************************)
(* Proofs about ToolTimeout, for any set of calls (an infinite one too),   *)
(* any limit and any timeouts.                                             *)
(***************************************************************************)
EXTENDS ToolTimeout, FiniteSetTheorems, TLAPS

-----------------------------------------------------------------------------
(***************************************************************************)
(* The inductive invariant.                                                *)
(***************************************************************************)

\* Where the handler is tells how far its call has come.
BeforeLaunch == {"idle", "hook", "filter", "acquire", "launch"}
Progress(c) ==
    /\ pc[c] \in BeforeLaunch => worker[c] = "none" /\ answer[c] = "none"
    /\ pc[c] \in {"select", "abort"} => worker[c] # "none" /\ answer[c] = "none"
    /\ pc[c] = "abort" => ctxErr[c] # "none"
    /\ pc[c] \in DeferPCs => worker[c] # "none" /\ answer[c] # "rejected"
    /\ pc[c] \notin BeforeLaunch \cup {"select", "abort"} => answer[c] # "none"
    /\ pc[c] \in {"release", "observe", "answered"} =>
          (worker[c] # "none" => ctxErr[c] # "none")

\* Before the worker there is no context, and no result before the tool's.
Launched(c) ==
    /\ worker[c] = "none" => ctxErr[c] = "none" /\ after[c] = "off"
    /\ worker[c] \in {"none", "running"} => outcome[c] = "none" /\ ~full[c]
    /\ worker[c] \notin {"none", "running"} => outcome[c] # "none"

\* What ended the context, while the handler may still ask.
Caused(c) ==
    /\ ctxErr[c] = "deadline" => elapsed[c] >= timeout[c]
    /\ ctxErr[c] = "canceled" /\ pc[c] \in {"select", "abort"} =>
          withdrawn[c] \/ (transport[c] = "post" /\ gone[c])
    /\ after[c] # "off" => transport[c] = "post"
    /\ pc[c] = "select" /\ transport[c] = "post" =>
          ctxErr[c] # "none" \/ after[c] = "armed"

\* AnswerCause for one call.
Truthful(c) ==
    /\ answer[c] = "timedOut" => elapsed[c] >= timeout[c]
    /\ answer[c] = "disconnected" => transport[c] = "post" /\ gone[c]
    /\ answer[c] = "cancelled" => withdrawn[c]
    /\ answer[c] \in Outcomes => outcome[c] = answer[c]

CallInv == \A c \in Calls : Progress(c) /\ Launched(c) /\ Caused(c) /\ Truthful(c)

\* The holders are finitely many although Calls need not be.
SlotInv == IsFiniteSet(Holders) /\ SlotAccounting

\* The inductive invariant.
IInv == TypeOK /\ CallInv /\ SlotInv

-----------------------------------------------------------------------------
(***************************************************************************)
(* Timeouts.                                                               *)
(***************************************************************************)

\* A resolved timeout is a duration.
LEMMA ResolveTimeoutType ==
    ASSUME NEW t \in Tools, NEW a \in ArgTimeouts
    PROVE  ResolveTimeout(t, a) \in Nat
BY TimeoutAssumption DEF ResolveTimeout

\* With a cap, no caller extends its deadline beyond the cap and the
\* configured timeouts, whatever timeout_secs it sends (hooks.go:282).
THEOREM TimeoutCapped ==
    ASSUME NEW t \in Tools, NEW a \in ArgTimeouts, MaxToolTimeout > 0
    PROVE  \/ ResolveTimeout(t, a) <= MaxToolTimeout
           \/ a = 0 /\ ResolveTimeout(t, a) \in {ToolTimeouts[t], DefaultTimeout}
BY TimeoutAssumption DEF ResolveTimeout

-----------------------------------------------------------------------------
(***************************************************************************)
(* The holders of the semaphore.                                           *)
(***************************************************************************)
LEMMA HoldersStay ==
    ASSUME \A c \in Calls : Holds(c)' <=> Holds(c)
    PROVE  Holders' = Holders
BY DEF Holders

LEMMA HoldersGrow ==
    ASSUME NEW c \in Calls, pc \in [Calls -> PCs], ~Holds(c), Goto(c, "launch")
    PROVE  Holders' = Holders \cup {c} /\ c \notin Holders
BY DEF Holders, Holds, Goto, HoldPCs

LEMMA HoldersShrink ==
    ASSUME NEW c \in Calls, pc \in [Calls -> PCs], Holds(c), Goto(c, "observe")
    PROVE  Holders' = Holders \ {c} /\ c \in Holders
BY DEF Holders, Holds, Goto, HoldPCs, DeferPCs

LEMMA SlotsStay ==
    ASSUME SlotInv, slots' = slots, \A c \in Calls : Holds(c)' <=> Holds(c)
    PROVE  SlotInv'
BY HoldersStay DEF SlotInv, SlotAccounting

\* While c holds a slot, there is one to give back.
LEMMA HolderCounted ==
    ASSUME SlotInv, MaxConcurrentTools > 0, NEW c \in Calls, Holds(c)
    PROVE  slots \in Nat /\ slots >= 1
<1>1. c \in Holders BY DEF Holders
<1>2. Cardinality(Holders) \in Nat BY FS_CardinalityType DEF SlotInv
<1>3. Cardinality(Holders) # 0 BY <1>1, FS_EmptySet DEF SlotInv
<1> QED BY <1>2, <1>3, LimitAssumption DEF SlotInv, SlotAccounting

-----------------------------------------------------------------------------
(***************************************************************************)
(* Init and steps.                                                         *)
(***************************************************************************)
LEMMA IInvInit == Init => IInv
<1> SUFFICES ASSUME Init PROVE IInv OBVIOUS
<1>1. TypeOK
  BY TimeoutAssumption
  DEF Init, TypeOK, HandlerType, ContextType, WorkerType, PCs, Answers, Outcomes
<1>2. CallInv
  BY DEF Init, CallInv, Progress, Launched, Caused, Truthful, BeforeLaunch,
         DeferPCs, Outcomes
<1>3. Holders = {} BY DEF Init, Holders, Holds, HoldPCs, DeferPCs
<1>4. SlotInv BY <1>3, FS_EmptySet, LimitAssumption DEF Init, SlotInv, SlotAccounting
<1> QED BY <1>1, <1>2, <1>4 DEF IInv

\* The steps that neither take a slot nor give one back.
Unslotted(c) ==
    \/ Receive(c) \/ Outer(c) \/ ToolReturns(c) \/ Worker(c) \/ KeepaliveExits(c)
    \/ Deadline(c) \/ CancelOnClientGone(c) \/ Peer(c) \/ Launch(c) \/ TakeResult(c)
    \/ CtxDone(c) \/ AbortText(c) \/ StopKeepalive(c) \/ StopAfter(c) \/ Cancel(c)

LEMMA UnslottedKeeps ==
    ASSUME IInv, NEW c \in Calls, Unslotted(c)
    PROVE  slots' = slots /\ \A d \in Calls : Holds(d)' <=> Holds(d)
<1> USE DEF IInv, TypeOK, HandlerType, Holds, HoldPCs, DeferPCs
<1>1. CASE Receive(c) BY <1>1 DEF Receive, Goto
<1>2. CASE Outer(c)
  BY <1>2 DEF Outer, OnToolCall, FilterCall, OnToolResult, Goto, Return
<1>3. CASE ToolReturns(c) \/ Worker(c)
  BY <1>3 DEF ToolReturns, Worker, SendResult, Watch
<1>4. CASE KeepaliveExits(c) \/ Deadline(c) \/ CancelOnClientGone(c)
  BY <1>4 DEF KeepaliveExits, Deadline, CancelOnClientGone
<1>5. CASE Peer(c) BY <1>5 DEF Peer, ClientGone, Withdraw
<1>6. CASE Launch(c) BY <1>6 DEF Launch, Goto
<1>7. CASE TakeResult(c) \/ AbortText(c)
  BY <1>7 DEF TakeResult, AbortText, Return, Goto
<1>8. CASE CtxDone(c) \/ StopKeepalive(c) \/ StopAfter(c) \/ Cancel(c)
  BY <1>8 DEF CtxDone, StopKeepalive, StopAfter, Cancel, Goto
<1> QED BY <1>1, <1>2, <1>3, <1>4, <1>5, <1>6, <1>7, <1>8 DEF Unslotted

LEMMA SlotStep == IInv /\ [Next]_vars => SlotInv'
<1> SUFFICES ASSUME IInv, [Next]_vars PROVE SlotInv' OBVIOUS
<1>0. SlotInv /\ pc \in [Calls -> PCs] BY DEF IInv, TypeOK, HandlerType
<1>1. CASE UNCHANGED vars
  BY <1>0, <1>1, SlotsStay DEF vars, Holds
<1>2. CASE Tick
  BY <1>0, <1>2, SlotsStay DEF Tick, Holds
<1>3. ASSUME NEW c \in Calls, Acquire(c) PROVE SlotInv'
  <2>1. ~Holds(c) BY <1>3 DEF Acquire, Holds, HoldPCs, DeferPCs
  <2>2. CASE Goto(c, "launch") /\ slots' = IF MaxConcurrentTools > 0 THEN slots + 1
                                                                   ELSE slots
    <3>1. Holders' = Holders \cup {c} /\ c \notin Holders
      BY <1>0, <2>1, <2>2, HoldersGrow
    <3>2. IsFiniteSet(Holders') /\ Cardinality(Holders') = Cardinality(Holders) + 1
      BY <1>0, <3>1, FS_AddElement DEF SlotInv
    <3> QED BY <1>0, <2>2, <3>2, LimitAssumption DEF SlotInv, SlotAccounting
  <2>3. CASE Goto(c, "observe") /\ slots' = slots
    <3>1. \A d \in Calls : Holds(d)' <=> Holds(d)
      BY <1>0, <2>1, <2>3 DEF Goto, Holds, HoldPCs, DeferPCs
    <3> QED BY <1>0, <2>3, <3>1, SlotsStay
  <2> QED BY <1>3, <2>2, <2>3 DEF Acquire, Return
<1>4. ASSUME NEW c \in Calls, Release(c) PROVE SlotInv'
  <2>1. Holds(c) BY <1>4 DEF Release, Holds, HoldPCs, DeferPCs
  <2>2. Holders' = Holders \ {c} /\ c \in Holders
    BY <1>0, <1>4, <2>1, HoldersShrink DEF Release
  <2>3. IsFiniteSet(Holders') /\ Cardinality(Holders') = Cardinality(Holders) - 1
    BY <1>0, <2>2, FS_RemoveElement DEF SlotInv
  <2> QED BY <1>0, <1>4, <2>3, LimitAssumption DEF Release, SlotInv, SlotAccounting
<1>5. ASSUME NEW c \in Calls, Unslotted(c) PROVE SlotInv'
  BY <1>0, <1>5, UnslottedKeeps, SlotsStay
<1> QED BY <1>1, <1>2, <1>3, <1>4, <1>5 DEF Next, Handler, Unslotted

-----------------------------------------------------------------------------
(***************************************************************************)
(* Typing of a step, one step of the proof for each action.                *)
(***************************************************************************)
LEMMA TypeStep == IInv /\ [Next]_vars => TypeOK'
<1> SUFFICES ASSUME IInv, [Next]_vars PROVE TypeOK' OBVIOUS
<1> USE DEF IInv, TypeOK, HandlerType, ContextType, WorkerType, Goto,
            peerVars, contextVars, toolVars
<1>p. /\ {"hook", "filter", "acquire", "launch", "observe", "answered"} \subseteq PCs
      /\ {"select", "abort", "stopKeepalive", "stopAfter", "cancel", "release"}
           \subseteq PCs
      /\ "result" \in Answers /\ "error" \in Answers
      /\ {"denied", "rejected", "timedOut", "disconnected", "cancelled"}
           \subseteq Answers
  BY DEF PCs, OuterPCs, HoldPCs, DeferPCs, Answers, Outcomes
<1>1. CASE UNCHANGED vars BY <1>1 DEF vars
<1>2. CASE Tick BY <1>2, TimeoutAssumption DEF Tick
<1>3. ASSUME NEW c \in Calls, Receive(c) PROVE TypeOK' BY <1>3, <1>p DEF Receive
<1>4. ASSUME NEW c \in Calls, Outer(c) PROVE TypeOK'
  BY <1>4, <1>p DEF Outer, OnToolCall, FilterCall, OnToolResult, Return
<1>5. ASSUME NEW c \in Calls, Acquire(c) PROVE TypeOK'
  <2>1. timeout' \in [Calls -> Nat] BY <1>5, ResolveTimeoutType DEF Acquire
  <2> QED BY <1>5, <2>1, <1>p, LimitAssumption DEF Acquire, Return
<1>6. ASSUME NEW c \in Calls, Launch(c) PROVE TypeOK' BY <1>6, <1>p DEF Launch
<1>7. ASSUME NEW c \in Calls, TakeResult(c) PROVE TypeOK'
  <2>1. outcome[c] \in Answers \cup {"none"} BY DEF Answers
  <2> QED BY <1>7, <2>1, <1>p DEF TakeResult, Return
<1>8. ASSUME NEW c \in Calls, CtxDone(c) PROVE TypeOK' BY <1>8, <1>p DEF CtxDone
<1>9. ASSUME NEW c \in Calls, AbortText(c) PROVE TypeOK'
  BY <1>9, <1>p DEF AbortText, Return
<1>10. ASSUME NEW c \in Calls, StopKeepalive(c) \/ StopAfter(c) PROVE TypeOK'
  <2>1. CASE StopKeepalive(c) BY <2>1, <1>p DEF StopKeepalive
  <2>2. CASE StopAfter(c) BY <2>2, <1>p DEF StopAfter
  <2> QED BY <1>10, <2>1, <2>2
<1>11. ASSUME NEW c \in Calls, Cancel(c) PROVE TypeOK'
  BY <1>11, <1>p DEF Cancel, CancelCtx
<1>12. ASSUME NEW c \in Calls, Release(c) PROVE TypeOK'
  <2>1. Holds(c) BY <1>12 DEF Release, Holds, HoldPCs, DeferPCs
  <2>2. slots' \in Nat BY <1>12, <2>1, HolderCounted DEF Release
  <2> QED BY <1>12, <2>2, <1>p DEF Release
<1>13. ASSUME NEW c \in Calls, ToolReturns(c) PROVE TypeOK'
  BY <1>13 DEF ToolReturns, Outcomes
<1>14. ASSUME NEW c \in Calls, Worker(c) PROVE TypeOK'
  <2>1. CASE SendResult(c) BY <2>1 DEF SendResult
  <2>2. CASE Watch(c)
    <3>1. (elapsed[c] > LeakWarnFactor * timeout[c]) \in BOOLEAN OBVIOUS
    <3>2. warned' \in [Calls -> BOOLEAN] BY <2>2, <3>1 DEF Watch
    <3> QED BY <2>2, <3>2 DEF Watch
  <2> QED BY <1>14, <2>1, <2>2 DEF Worker
<1>15. ASSUME NEW c \in Calls, KeepaliveExits(c) PROVE TypeOK'
  BY <1>15 DEF KeepaliveExits
<1>16. ASSUME NEW c \in Calls, Deadline(c) \/ CancelOnClientGone(c) PROVE TypeOK'
  BY <1>16 DEF Deadline, CancelOnClientGone, CancelCtx
<1>17. ASSUME NEW c \in Calls, Peer(c) PROVE TypeOK'
  <2>1. CASE ClientGone(c) BY <2>1 DEF ClientGone
  <2>2. CASE Withdraw(c) BY <2>2 DEF Withdraw, CancelCtx
  <2> QED BY <1>17, <2>1, <2>2 DEF Peer
<1> QED
  BY <1>1, <1>2, <1>3, <1>4, <1>5, <1>6, <1>7, <1>8, <1>9, <1>10, <1>11, <1>12,
     <1>13, <1>14, <1>15, <1>16, <1>17
  DEF Next, Handler

-----------------------------------------------------------------------------
(***************************************************************************)
(* What a step does to one call d.                                         *)
(***************************************************************************)
CallOK(d) == Progress(d) /\ Launched(d) /\ Caused(d) /\ Truthful(d)

LEMMA CallStep == IInv /\ [Next]_vars => CallInv'
<1> SUFFICES ASSUME IInv, [Next]_vars, NEW d \in Calls PROVE CallOK(d)'
  BY DEF CallInv, CallOK
<1>t. TypeOK /\ CallOK(d) BY DEF IInv, CallInv, CallOK
<1> USE <1>t
<1> USE DEF TypeOK, HandlerType, ContextType, WorkerType, CallOK, Progress,
            Launched, Caused, Truthful, BeforeLaunch, DeferPCs, Outcomes, Goto,
            peerVars, contextVars, toolVars
<1>1. CASE UNCHANGED vars BY <1>1 DEF vars
<1>2. CASE Tick
  <2>1. elapsed'[d] >= elapsed[d] BY <1>2, TimeoutAssumption DEF Tick
  <2> QED BY <1>2, <2>1 DEF Tick
<1>3. ASSUME NEW c \in Calls, Receive(c) PROVE CallOK(d)' BY <1>3 DEF Receive
<1>4. ASSUME NEW c \in Calls, Outer(c) PROVE CallOK(d)'
  BY <1>4 DEF Outer, OnToolCall, FilterCall, OnToolResult, Return
<1>5. ASSUME NEW c \in Calls, Acquire(c) PROVE CallOK(d)'
  <2>1. d # c => timeout'[d] = timeout[d] BY <1>5 DEF Acquire
  <2> QED BY <1>5, <2>1 DEF Acquire, Return
<1>6. ASSUME NEW c \in Calls, Launch(c) PROVE CallOK(d)'
  <2>1. CASE d = c BY <1>6, <2>1 DEF Launch
  <2>2. CASE d # c BY <1>6, <2>2 DEF Launch
  <2> QED BY <2>1, <2>2
<1>7. ASSUME NEW c \in Calls, TakeResult(c) PROVE CallOK(d)'
  <2>1. outcome[c] \in Outcomes BY <1>7 DEF TakeResult, IInv, CallInv
  <2> QED BY <1>7, <2>1 DEF TakeResult, Return
<1>8. ASSUME NEW c \in Calls, CtxDone(c) PROVE CallOK(d)' BY <1>8 DEF CtxDone
<1>9. ASSUME NEW c \in Calls, AbortText(c) PROVE CallOK(d)'
  BY <1>9 DEF AbortText, Return
<1>10. ASSUME NEW c \in Calls, StopKeepalive(c) \/ StopAfter(c) PROVE CallOK(d)'
  BY <1>10 DEF StopKeepalive, StopAfter
<1>11. ASSUME NEW c \in Calls, Cancel(c) PROVE CallOK(d)'
  BY <1>11 DEF Cancel, CancelCtx
<1>12. ASSUME NEW c \in Calls, Release(c) PROVE CallOK(d)' BY <1>12 DEF Release
<1>13. ASSUME NEW c \in Calls, ToolReturns(c) PROVE CallOK(d)'
  BY <1>13 DEF ToolReturns
<1>14. ASSUME NEW c \in Calls, Worker(c) PROVE CallOK(d)'
  BY <1>14 DEF Worker, SendResult, Watch
<1>15. ASSUME NEW c \in Calls, KeepaliveExits(c) PROVE CallOK(d)'
  BY <1>15 DEF KeepaliveExits
<1>16. ASSUME NEW c \in Calls, Deadline(c) PROVE CallOK(d)'
  BY <1>16 DEF Deadline, CancelCtx
<1>17. ASSUME NEW c \in Calls, CancelOnClientGone(c) PROVE CallOK(d)'
  BY <1>17 DEF CancelOnClientGone, CancelCtx
<1>18. ASSUME NEW c \in Calls, Peer(c) PROVE CallOK(d)'
  BY <1>18 DEF Peer, ClientGone, Withdraw, CancelCtx
<1> QED
  BY <1>1, <1>2, <1>3, <1>4, <1>5, <1>6, <1>7, <1>8, <1>9, <1>10, <1>11, <1>12,
     <1>13, <1>14, <1>15, <1>16, <1>17, <1>18
  DEF Next, Handler

LEMMA IInvStep == IInv /\ [Next]_vars => IInv'
BY TypeStep, CallStep, SlotStep DEF IInv

THEOREM Inductive == Spec => []IInv
BY IInvInit, IInvStep, PTL DEF Spec

-----------------------------------------------------------------------------
(***************************************************************************)
(* What the invariant gives.                                               *)
(***************************************************************************)

\* Every variable keeps its type; slots is never negative.
THEOREM TypeCorrect == Spec => []TypeOK
<1>1. IInv => TypeOK BY DEF IInv
<1> QED BY <1>1, Inductive, PTL

\* The semaphore counts the calls that hold it, exactly (hooks.go:120), so the
\* limit is never exceeded and never wears away.
THEOREM SlotAccountingHolds == Spec => []SlotAccounting
<1>1. IInv => SlotAccounting BY DEF IInv, SlotInv
<1> QED BY <1>1, Inductive, PTL

\* The answer names what ended the call (hooks.go:262).
THEOREM AnswerCauseHolds == Spec => []AnswerCause
<1>1. IInv => AnswerCause BY DEF IInv, CallInv, Truthful, AnswerCause
<1> QED BY <1>1, Inductive, PTL

\* A worker that outlives its call runs under a context that is done
\* (hooks.go:96).
THEOREM DetachedIsCancelledHolds == Spec => []DetachedIsCancelled
<1>1. IInv => DetachedIsCancelled
  <2> SUFFICES ASSUME IInv, NEW c \in Calls, answer[c] # "none", ~Holds(c),
                      worker[c] # "none"
               PROVE  ctxErr[c] # "none"
    BY DEF DetachedIsCancelled
  <2> QED BY DEF IInv, CallInv, Progress, BeforeLaunch, Holds, HoldPCs, DeferPCs,
                 TypeOK, HandlerType, PCs, OuterPCs
<1> QED BY <1>1, Inductive, PTL

\* A client that goes away ends its call's context, whenever it goes
\* (disconnect.go:15).
THEOREM GoneClientCancelsHolds == Spec => []GoneClientCancels
<1>1. IInv => GoneClientCancels BY DEF IInv, CallInv, Caused, GoneClientCancels
<1> QED BY <1>1, Inductive, PTL

\* A tool whose caller is gone, at its deadline or by leaving, is told to stop
\* at once, for any set of calls.
THEOREM AbandonedIsToldHolds == Spec => []AbandonedIsTold
BY DetachedIsCancelledHolds, GoneClientCancelsHolds, PTL DEF AbandonedIsTold

\* The one step that gives a call its answer finds it without one.
LEMMA AnswerKept ==
    ASSUME IInv, [Next]_vars, NEW d \in Calls, answer[d] # "none"
    PROVE  answer'[d] = answer[d]
<1> USE DEF IInv, TypeOK, HandlerType, CallInv, Progress, BeforeLaunch
<1>1. CASE UNCHANGED vars \/ Tick BY <1>1 DEF vars, Tick
<1>2. ASSUME NEW c \in Calls,
             Acquire(c) \/ TakeResult(c) \/ AbortText(c) \/ FilterCall(c)
      PROVE  answer'[d] = answer[d]
  BY <1>2 DEF Acquire, TakeResult, AbortText, FilterCall, Return
<1>3. ASSUME NEW c \in Calls,
             \/ Receive(c) \/ OnToolCall(c) \/ OnToolResult(c) \/ Launch(c)
             \/ CtxDone(c) \/ StopKeepalive(c) \/ StopAfter(c) \/ Cancel(c)
             \/ Release(c)
      PROVE  answer'[d] = answer[d]
  BY <1>3 DEF Receive, OnToolCall, OnToolResult, Launch, CtxDone, StopKeepalive,
              StopAfter, Cancel, Release
<1>4. ASSUME NEW c \in Calls,
             \/ ToolReturns(c) \/ Worker(c) \/ KeepaliveExits(c) \/ Deadline(c)
             \/ CancelOnClientGone(c) \/ Peer(c)
      PROVE  answer'[d] = answer[d]
  BY <1>4 DEF ToolReturns, Worker, SendResult, Watch, KeepaliveExits, Deadline,
              CancelOnClientGone, Peer, ClientGone, Withdraw
<1> QED BY <1>1, <1>2, <1>3, <1>4 DEF Next, Outer, Handler

\* What the middleware returned is final: a detached worker's late result
\* changes nothing (hooks.go:154).
THEOREM AnswerIsFinalHolds == Spec => AnswerIsFinal
<1>1. IInv /\ [Next]_vars
        => [\A c \in Calls : answer[c] # "none" => answer'[c] = answer[c]]_vars
  BY AnswerKept
<1> QED BY <1>1, Inductive, PTL DEF Spec, AnswerIsFinal

-----------------------------------------------------------------------------
(***************************************************************************)
(* ToolTimeout implements ToolGate.                                        *)
(***************************************************************************)
StatusFn == [c \in Calls |-> Status(c)]

LEMMA StatusStays ==
    ASSUME \A c \in Calls : Status(c)' = Status(c)
    PROVE  StatusFn' = StatusFn
BY DEF StatusFn

LEMMA StatusMoves ==
    ASSUME NEW c \in Calls, NEW to, Status(c)' = to,
           \A d \in Calls \ {c} : Status(d)' = Status(d)
    PROVE  StatusFn' = [StatusFn EXCEPT ![c] = to]
BY DEF StatusFn

\* The admitted calls of ToolGate are the holders.
LEMMA AdmittedAreHolders == Limit!Admitted = Holders
<1>1. \A c \in Calls : Status(c) = "admitted" <=> Holds(c) BY DEF Status
<1> QED BY <1>1 DEF Limit!Admitted, Holders

LEMMA FullIsFull ==
    ASSUME SlotInv
    PROVE  Limit!Full <=> MaxConcurrentTools > 0 /\ slots >= MaxConcurrentTools
<1>1. Limit!Full <=> MaxConcurrentTools > 0 /\ Cardinality(Holders) >= MaxConcurrentTools
  BY AdmittedAreHolders DEF Limit!Full, Limit!Cardinality, Cardinality
<1>2. MaxConcurrentTools > 0 => slots = Cardinality(Holders)
  BY DEF SlotInv, SlotAccounting
<1> QED BY <1>1, <1>2

\* A step of c leaves the status of every other call alone.
LEMMA OthersKeepStatus ==
    ASSUME IInv, NEW c \in Calls, NEW d \in Calls \ {c},
           \/ Receive(c) \/ Outer(c) \/ Handler(c) \/ ToolReturns(c) \/ Worker(c)
           \/ KeepaliveExits(c) \/ Deadline(c) \/ CancelOnClientGone(c) \/ Peer(c)
    PROVE  Status(d)' = Status(d)
<1>1. pc'[d] = pc[d] /\ answer'[d] = answer[d]
  <2> USE DEF IInv, TypeOK, HandlerType, Goto, Return
  <2>1. CASE Receive(c) \/ Outer(c)
    BY <2>1 DEF Receive, Outer, OnToolCall, FilterCall, OnToolResult
  <2>2. CASE Handler(c)
    BY <2>2 DEF Handler, Acquire, Launch, TakeResult, CtxDone, AbortText,
                StopKeepalive, StopAfter, Cancel, Release
  <2>3. CASE \/ ToolReturns(c) \/ Worker(c) \/ KeepaliveExits(c) \/ Deadline(c)
             \/ CancelOnClientGone(c) \/ Peer(c)
    BY <2>3 DEF ToolReturns, Worker, SendResult, Watch, KeepaliveExits, Deadline,
                CancelOnClientGone, Peer, ClientGone, Withdraw
  <2> QED BY <2>1, <2>2, <2>3
<1> QED BY <1>1 DEF Status, Holds

\* A call is refused only while the limit's worth of others are admitted and
\* unanswered, and every admitted call gives its place back (hooks.go:91).
THEOREM BoundedAdmissionHolds == Spec => BoundedAdmission
<1>1. Init => Limit!Init
  BY DEF Init, Limit!Init, Status, Holds, HoldPCs, DeferPCs
<1>2. IInv /\ [Next]_vars => [Limit!Next]_StatusFn
  <2> SUFFICES ASSUME IInv, [Next]_vars PROVE [Limit!Next]_StatusFn OBVIOUS
  <2> USE DEF Status, Holds, HoldPCs, DeferPCs, Goto, Return, Limit!Move, StatusFn
  <2>0. SlotInv /\ TypeOK /\ CallInv BY DEF IInv
  <2>1. CASE UNCHANGED vars \/ Tick
    BY <2>1, StatusStays DEF vars, Tick
  <2>2. ASSUME NEW c \in Calls, FilterCall(c) PROVE [Limit!Next]_StatusFn
    <3>1. \A d \in Calls \ {c} : Status(d)' = Status(d)
      BY <2>2, OthersKeepStatus DEF Outer
    <3>2. Status(c) = "new"
      BY <2>0, <2>2 DEF FilterCall, CallInv, Progress, BeforeLaunch
    <3>3. CASE Goto(c, "acquire") /\ UNCHANGED answer
      <4>1. Status(c)' = "new"
        BY <2>0, <3>2, <3>3 DEF TypeOK, HandlerType
      <4> QED BY <3>1, <3>2, <4>1, StatusStays
    <3>4. CASE Return(c, "denied", "observe")
      <4>1. Status(c)' = "done" BY <2>0, <3>4 DEF TypeOK, HandlerType
      <4>2. Limit!Divert(c) BY <3>1, <3>2, <4>1, StatusMoves DEF Limit!Divert
      <4> QED BY <4>2 DEF Limit!Next
    <3> QED BY <2>2, <3>3, <3>4 DEF FilterCall
  <2>3. ASSUME NEW c \in Calls, Acquire(c) PROVE [Limit!Next]_StatusFn
    <3>1. \A d \in Calls \ {c} : Status(d)' = Status(d)
      BY <2>3, OthersKeepStatus DEF Handler
    <3>2. Status(c) = "new"
      BY <2>0, <2>3 DEF Acquire, CallInv, Progress, BeforeLaunch
    <3>3. CASE Goto(c, "launch") /\ (MaxConcurrentTools = 0 \/ slots < MaxConcurrentTools)
      <4>1. Status(c)' = "admitted" BY <2>0, <3>3 DEF TypeOK, HandlerType
      <4>2. ~Limit!Full
        BY <2>0, <3>3, FullIsFull, LimitAssumption DEF TypeOK, HandlerType
      <4>3. Limit!Admit(c)
        BY <3>1, <3>2, <4>1, <4>2, StatusMoves DEF Limit!Admit
      <4> QED BY <4>3 DEF Limit!Next
    <3>4. CASE /\ Return(c, "rejected", "observe")
               /\ MaxConcurrentTools > 0 /\ slots >= MaxConcurrentTools
      <4>1. Status(c)' = "refused" BY <2>0, <3>4 DEF TypeOK, HandlerType
      <4>2. Limit!Full BY <2>0, <3>4, FullIsFull
      <4>3. Limit!Refuse(c)
        BY <3>1, <3>2, <4>1, <4>2, StatusMoves DEF Limit!Refuse
      <4> QED BY <4>3 DEF Limit!Next
    <3> QED BY <2>3, <3>3, <3>4 DEF Acquire
  <2>4. ASSUME NEW c \in Calls, Release(c) PROVE [Limit!Next]_StatusFn
    <3>1. \A d \in Calls \ {c} : Status(d)' = Status(d)
      BY <2>4, OthersKeepStatus DEF Handler
    <3>2. Status(c) = "admitted" BY <2>4 DEF Release
    <3>3. answer[c] # "none" /\ answer[c] # "rejected"
      BY <2>0, <2>4 DEF Release, CallInv, Progress, BeforeLaunch, Truthful
    <3>4. Status(c)' = "done" BY <2>0, <2>4, <3>3 DEF Release, TypeOK, HandlerType
    <3>5. Limit!Finish(c) BY <3>1, <3>2, <3>4, StatusMoves DEF Limit!Finish
    <3> QED BY <3>5 DEF Limit!Next
  <2>5. ASSUME NEW c \in Calls,
               \/ Receive(c) \/ OnToolCall(c) \/ OnToolResult(c) \/ Launch(c)
               \/ TakeResult(c) \/ CtxDone(c) \/ AbortText(c) \/ StopKeepalive(c)
               \/ StopAfter(c) \/ Cancel(c) \/ ToolReturns(c) \/ Worker(c)
               \/ KeepaliveExits(c) \/ Deadline(c) \/ CancelOnClientGone(c) \/ Peer(c)
        PROVE  [Limit!Next]_StatusFn
    <3>1. \A d \in Calls \ {c} : Status(d)' = Status(d)
      BY <2>5, OthersKeepStatus DEF Outer, Handler
    <3>2. Status(c)' = Status(c)
      <4> USE DEF TypeOK, HandlerType
      <4>1. CASE Receive(c) \/ OnToolCall(c) \/ OnToolResult(c)
        BY <2>0, <4>1 DEF Receive, OnToolCall, OnToolResult
      <4>2. CASE \/ Launch(c) \/ TakeResult(c) \/ CtxDone(c) \/ AbortText(c)
                 \/ StopKeepalive(c) \/ StopAfter(c) \/ Cancel(c)
        BY <2>0, <4>2
        DEF Launch, TakeResult, CtxDone, AbortText, StopKeepalive, StopAfter, Cancel
      <4>3. CASE \/ ToolReturns(c) \/ Worker(c) \/ KeepaliveExits(c) \/ Deadline(c)
                 \/ CancelOnClientGone(c) \/ Peer(c)
        BY <4>3 DEF ToolReturns, Worker, SendResult, Watch, KeepaliveExits,
                    Deadline, CancelOnClientGone, Peer, ClientGone, Withdraw
      <4> QED BY <2>5, <4>1, <4>2, <4>3
    <3> QED BY <3>1, <3>2, StatusStays
  <2> QED BY <2>1, <2>2, <2>3, <2>4, <2>5 DEF Next, Outer, Handler
<1> QED BY <1>1, <1>2, Inductive, PTL DEF Spec, BoundedAdmission, Limit!Spec, StatusFn
=============================================================================
