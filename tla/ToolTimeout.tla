---------------------------- MODULE ToolTimeout -----------------------------
(***************************************************************************)
(* One tools/call through the MCP middleware stack (hooks.go, auth.go,     *)
(* disconnect.go, config.go): the consumer's hooks, the tool filter, and   *)
(* innermost ToolTimeoutMiddleware with its semaphore, its deadline, its   *)
(* cancellation when the HTTP client is gone, the keepalive goroutine and  *)
(* the worker goroutine that runs the tool and is detached when the call   *)
(* is abandoned.                                                           *)
(*                                                                         *)
(* Five parties act on a call: its handler goroutine, the worker, the      *)
(* context's timer, the AfterFunc goroutine of the client's context, and   *)
(* the client or session that goes away or withdraws the request.  Calls   *)
(* are one-shot identities; what two calls share is the semaphore.         *)
(*                                                                         *)
(* Progress notifications, result contents and logging are left out, the   *)
(* watchdog's warning apart, which is the record `warned`.                 *)
(***************************************************************************)
EXTENDS Integers, FiniteSets

CONSTANTS
    Calls,
    Tools,
    ArgTimeouts,        \* what timeout_secs may parse to; 0: absent, refused
                        \* or beyond what a Duration holds
    ToolTimeouts,       \* cfg.ToolTimeouts[t], 0 where there is no entry
    DefaultTimeout,     \* cfg.ToolTimeout
    MaxToolTimeout,     \* cfg.MaxToolTimeout, 0 for no cap
    MaxConcurrentTools, \* cfg.MaxConcurrentTools, 0 for no semaphore
    Transports,         \* how requests arrive, see below
    Horizon             \* bound: durations beyond it are not told apart

ASSUME TimeoutAssumption ==
    /\ ArgTimeouts \subseteq Nat
    /\ ToolTimeouts \in [Tools -> Nat]
    /\ DefaultTimeout \in Nat
    /\ MaxToolTimeout \in Nat
    /\ Horizon \in Nat
ASSUME LimitAssumption == MaxConcurrentTools \in Nat

(***************************************************************************)
(* "post": a stateless POST of an older protocol, whose HTTP context       *)
(* trackClientDisconnect hands to the middleware; "propagated": one whose  *)
(* handler context the SDK itself cancels; "other": stdio, a stateful      *)
(* session, the REST bridge, or CancelOnClientDisconnect off.              *)
(***************************************************************************)
ASSUME TransportAssumption == Transports \subseteq {"post", "propagated", "other"}

VARIABLES
    pc,         \* where the call's handler goroutine is
    transport,  \* how the call arrived
    gone,       \* its HTTP request context is done
    withdrawn,  \* the context the middleware was given is cancelled
    timeout,    \* the resolved timeout
    slots,      \* len(sem)
    ctxErr,     \* ctx.Err() of the context the tool runs under
    after,      \* the AfterFunc registration on the client's context
    keepalive,  \* the keepalive goroutine
    stopped,    \* its done channel is closed
    worker,     \* where the worker goroutine is
    outcome,    \* what the tool returned
    full,       \* the result channel holds it
    elapsed,    \* ticks since the worker was started, up to Horizon
    warned,     \* the watchdog has logged its warning
    answer      \* what the middleware returned, "none" until it has

peerVars    == <<transport, gone, withdrawn>>
toolVars    == <<worker, outcome, full, warned>>
contextVars == <<ctxErr, after, keepalive, stopped>>
vars == <<pc, peerVars, timeout, slots, contextVars, toolVars, elapsed, answer>>

-----------------------------------------------------------------------------
\* timeout_secs capped at MaxToolTimeout, else the tool's own, else the default.
ResolveTimeout(tool, arg) ==
    IF arg > 0
      THEN IF MaxToolTimeout > 0 /\ arg > MaxToolTimeout THEN MaxToolTimeout
                                                         ELSE arg
      ELSE IF ToolTimeouts[tool] > 0 THEN ToolTimeouts[tool] ELSE DefaultTimeout

\* Where a handler is.  "hook", "filter" and "observe" are the middleware
\* around the timeout: config.go registers the timeout first, and what is
\* registered last is outermost.
OuterPCs  == {"hook", "filter", "observe"}
DeferPCs  == {"stopKeepalive", "stopAfter", "cancel", "release"}
HoldPCs   == {"launch", "select", "abort"} \cup DeferPCs
PCs == {"idle", "acquire", "answered"} \cup OuterPCs \cup HoldPCs

\* c is between taking a slot of the semaphore and giving it back.
Holds(c) == pc[c] \in HoldPCs
Holders  == {c \in Calls : Holds(c)}

Goto(c, place) == pc' = [pc EXCEPT ![c] = place]

\* The middleware's result, on its way out through the deferred calls.
Return(c, result, place) == answer' = [answer EXCEPT ![c] = result] /\ Goto(c, place)

\* A context is cancelled once; a later cause does not replace the first.
CancelCtx(c, cause) ==
    ctxErr' = [ctxErr EXCEPT ![c] = IF @ = "none" THEN cause ELSE @]

Init ==
    /\ pc = [c \in Calls |-> "idle"]
    /\ transport \in [Calls -> Transports]
    /\ gone = [c \in Calls |-> FALSE]
    /\ withdrawn = [c \in Calls |-> FALSE]
    /\ timeout = [c \in Calls |-> 0]
    /\ slots = 0
    /\ ctxErr = [c \in Calls |-> "none"]
    /\ after = [c \in Calls |-> "off"]
    /\ keepalive = [c \in Calls |-> "off"]
    /\ stopped = [c \in Calls |-> FALSE]
    /\ worker = [c \in Calls |-> "none"]
    /\ outcome = [c \in Calls |-> "none"]
    /\ full = [c \in Calls |-> FALSE]
    /\ elapsed = [c \in Calls |-> 0]
    /\ warned = [c \in Calls |-> FALSE]
    /\ answer = [c \in Calls |-> "none"]

-----------------------------------------------------------------------------
(***************************************************************************)
(* The middleware around the timeout, outermost first.                     *)
(***************************************************************************)
Receive(c) ==
    /\ pc[c] = "idle"
    /\ Goto(c, "hook")
    /\ UNCHANGED <<peerVars, timeout, slots, contextVars, toolVars, elapsed, answer>>

OnToolCall(c) ==
    /\ pc[c] = "hook"
    /\ Goto(c, "filter")
    /\ UNCHANGED <<peerVars, timeout, slots, contextVars, toolVars, elapsed, answer>>

FilterCall(c) ==
    /\ pc[c] = "filter"
    /\ \/ Goto(c, "acquire") /\ UNCHANGED answer
       \/ Return(c, "denied", "observe")
    /\ UNCHANGED <<peerVars, timeout, slots, contextVars, toolVars, elapsed>>

\* OnToolResult, then OnError, with the result on its way to the client.
OnToolResult(c) ==
    /\ pc[c] = "observe"
    /\ Goto(c, "answered")
    /\ UNCHANGED <<peerVars, timeout, slots, contextVars, toolVars, elapsed, answer>>

-----------------------------------------------------------------------------
(***************************************************************************)
(* ToolTimeoutMiddleware: the handler goroutine.                           *)
(***************************************************************************)

\* Mutant of Acquire: the limit admits one call too many.
AcquireOneTooMany(c) ==
    /\ pc[c] = "acquire"
    /\ \E t \in Tools, a \in ArgTimeouts :
          timeout' = [timeout EXCEPT ![c] = ResolveTimeout(t, a)]
    /\ \/ /\ MaxConcurrentTools = 0 \/ slots <= MaxConcurrentTools
          /\ slots' = IF MaxConcurrentTools > 0 THEN slots + 1 ELSE slots
          /\ Goto(c, "launch")
          /\ UNCHANGED answer
       \/ /\ MaxConcurrentTools > 0 /\ slots > MaxConcurrentTools
          /\ Return(c, "rejected", "observe")
          /\ UNCHANGED slots
    /\ UNCHANGED <<peerVars, contextVars, toolVars, elapsed>>

\* Mutant of Acquire: the slot's release is deferred before it is taken.
AcquireDeferFirst(c) ==
    /\ pc[c] = "acquire"
    /\ \E t \in Tools, a \in ArgTimeouts :
          timeout' = [timeout EXCEPT ![c] = ResolveTimeout(t, a)]
    /\ \/ /\ MaxConcurrentTools = 0 \/ slots < MaxConcurrentTools
          /\ slots' = IF MaxConcurrentTools > 0 THEN slots + 1 ELSE slots
          /\ Goto(c, "launch")
          /\ UNCHANGED answer
       \/ /\ MaxConcurrentTools > 0 /\ slots >= MaxConcurrentTools
          /\ Return(c, "rejected", "release")
          /\ UNCHANGED slots
    /\ UNCHANGED <<peerVars, contextVars, toolVars, elapsed>>

\* The timeout is resolved and the semaphore tried, without waiting.
Acquire(c) ==
    /\ pc[c] = "acquire"
    /\ \E t \in Tools, a \in ArgTimeouts :
          timeout' = [timeout EXCEPT ![c] = ResolveTimeout(t, a)]
    /\ \/ /\ MaxConcurrentTools = 0 \/ slots < MaxConcurrentTools
          /\ slots' = IF MaxConcurrentTools > 0 THEN slots + 1 ELSE slots
          /\ Goto(c, "launch")
          /\ UNCHANGED answer
       \/ /\ MaxConcurrentTools > 0 /\ slots >= MaxConcurrentTools
          /\ Return(c, "rejected", "observe")
          /\ UNCHANGED slots
    /\ UNCHANGED <<peerVars, contextVars, toolVars, elapsed>>

\* Mutant of Launch: the client's context is not watched.
LaunchUnwatched(c) ==
    /\ pc[c] = "launch"
    /\ Goto(c, "select")
    /\ ctxErr' = [ctxErr EXCEPT ![c] = IF withdrawn[c] THEN "canceled" ELSE "none"]
    /\ keepalive' = [keepalive EXCEPT ![c] = "on"]
    /\ worker' = [worker EXCEPT ![c] = "running"]
    /\ UNCHANGED <<peerVars, timeout, slots, after, stopped, outcome, full,
                   elapsed, warned, answer>>

\* The context with its deadline, the registration on the client's context,
\* the keepalive and the worker.  A context derived from a cancelled one is
\* cancelled from the start.
Launch(c) ==
    /\ pc[c] = "launch"
    /\ Goto(c, "select")
    /\ ctxErr' = [ctxErr EXCEPT ![c] = IF withdrawn[c] THEN "canceled" ELSE "none"]
    /\ after' = [after EXCEPT ![c] = IF transport[c] = "post" THEN "armed" ELSE "off"]
    /\ keepalive' = [keepalive EXCEPT ![c] = "on"]
    /\ worker' = [worker EXCEPT ![c] = "running"]
    /\ UNCHANGED <<peerVars, timeout, slots, stopped, outcome, full, elapsed, warned,
                   answer>>

\* The select: when the result and ctx.Done() are both ready, either is taken.
TakeResult(c) ==
    /\ pc[c] = "select"
    /\ full[c]
    /\ full' = [full EXCEPT ![c] = FALSE]
    /\ Return(c, outcome[c], "stopKeepalive")
    /\ UNCHANGED <<peerVars, timeout, slots, contextVars, worker, outcome, warned,
                   elapsed>>

\* Mutant of CtxDone: the handler waits for the tool to notice.
CtxDoneAwaitsTool(c) ==
    /\ pc[c] = "select"
    /\ ctxErr[c] # "none"
    /\ worker[c] # "running"
    /\ Goto(c, "abort")
    /\ UNCHANGED <<peerVars, timeout, slots, contextVars, toolVars, elapsed, answer>>

CtxDone(c) ==
    /\ pc[c] = "select"
    /\ ctxErr[c] # "none"
    /\ Goto(c, "abort")
    /\ UNCHANGED <<peerVars, timeout, slots, contextVars, toolVars, elapsed, answer>>

\* Mutant of AbortText: a cancelled context is taken for a passed deadline.
AbortTextAlwaysTimeout(c) ==
    /\ pc[c] = "abort"
    /\ Return(c, IF transport[c] = "post" /\ gone[c] THEN "disconnected"
                 ELSE "timedOut",
              "stopKeepalive")
    /\ UNCHANGED <<peerVars, timeout, slots, contextVars, toolVars, elapsed>>

\* abortText: by now the client may be gone although something else ended ctx.
AbortText(c) ==
    /\ pc[c] = "abort"
    /\ Return(c, IF ctxErr[c] = "deadline" THEN "timedOut"
                 ELSE IF transport[c] = "post" /\ gone[c] THEN "disconnected"
                 ELSE "cancelled",
              "stopKeepalive")
    /\ UNCHANGED <<peerVars, timeout, slots, contextVars, toolVars, elapsed>>

\* The deferred calls, last deferred first; the result leaves after them.
StopKeepalive(c) ==
    /\ pc[c] = "stopKeepalive"
    /\ Goto(c, "stopAfter")
    /\ stopped' = [stopped EXCEPT ![c] = TRUE]
    /\ UNCHANGED <<peerVars, timeout, slots, ctxErr, after, keepalive, toolVars,
                   elapsed, answer>>

StopAfter(c) ==
    /\ pc[c] = "stopAfter"
    /\ Goto(c, "cancel")
    /\ after' = [after EXCEPT ![c] = IF @ = "armed" THEN "off" ELSE @]
    /\ UNCHANGED <<peerVars, timeout, slots, ctxErr, keepalive, stopped, toolVars,
                   elapsed, answer>>

\* Mutant of Cancel: there is no deferred cancel.
CancelMissing(c) ==
    /\ pc[c] = "cancel"
    /\ Goto(c, "release")
    /\ UNCHANGED <<peerVars, timeout, slots, contextVars, toolVars, elapsed, answer>>

Cancel(c) ==
    /\ pc[c] = "cancel"
    /\ Goto(c, "release")
    /\ CancelCtx(c, "canceled")
    /\ UNCHANGED <<peerVars, timeout, slots, after, keepalive, stopped, toolVars,
                   elapsed, answer>>

\* Mutant of Release: the slot of a call whose worker still runs is kept.
ReleaseUnlessDetached(c) ==
    /\ pc[c] = "release"
    /\ Goto(c, "observe")
    /\ slots' = IF MaxConcurrentTools > 0 /\ worker[c] # "running" THEN slots - 1
                                                                   ELSE slots
    /\ UNCHANGED <<peerVars, timeout, contextVars, toolVars, elapsed, answer>>

Release(c) ==
    /\ pc[c] = "release"
    /\ Goto(c, "observe")
    /\ slots' = IF MaxConcurrentTools > 0 THEN slots - 1 ELSE slots
    /\ UNCHANGED <<peerVars, timeout, contextVars, toolVars, elapsed, answer>>

-----------------------------------------------------------------------------
(***************************************************************************)
(* The worker goroutine.  Nothing makes a tool return, and the worker goes *)
(* on after the handler has left.                                          *)
(***************************************************************************)
ToolReturns(c) ==
    /\ worker[c] = "running"
    /\ \E r \in {"result", "error"} : outcome' = [outcome EXCEPT ![c] = r]
    /\ worker' = [worker EXCEPT ![c] = "send"]
    /\ UNCHANGED <<pc, peerVars, timeout, slots, contextVars, full, warned, elapsed,
                   answer>>

\* Mutant of SendResult: an unbuffered channel, the send waits for a receiver.
SendResultUnbuffered(c) ==
    /\ worker[c] = "send"
    /\ pc[c] \in {"launch", "select"}
    /\ full' = [full EXCEPT ![c] = TRUE]
    /\ worker' = [worker EXCEPT ![c] = "watch"]
    /\ UNCHANGED <<pc, peerVars, timeout, slots, contextVars, outcome, warned,
                   elapsed, answer>>

\* Mutant of SendResult: the worker writes the handler's result.
SendResultDirectly(c) ==
    /\ worker[c] = "send"
    /\ full' = [full EXCEPT ![c] = TRUE]
    /\ answer' = [answer EXCEPT ![c] = outcome[c]]
    /\ worker' = [worker EXCEPT ![c] = "watch"]
    /\ UNCHANGED <<pc, peerVars, timeout, slots, contextVars, outcome, warned,
                   elapsed>>

\* The channel has room for the one result it will ever be sent.
SendResult(c) ==
    /\ worker[c] = "send"
    /\ full' = [full EXCEPT ![c] = TRUE]
    /\ worker' = [worker EXCEPT ![c] = "watch"]
    /\ UNCHANGED <<pc, peerVars, timeout, slots, contextVars, outcome, warned,
                   elapsed, answer>>

\* The watchdog: leakWarnFactor times the timeout, since the start.
LeakWarnFactor == 2
Watch(c) ==
    /\ worker[c] = "watch"
    /\ worker' = [worker EXCEPT ![c] = "done"]
    /\ warned' = [warned EXCEPT ![c] = elapsed[c] > LeakWarnFactor * timeout[c]]
    /\ UNCHANGED <<pc, peerVars, timeout, slots, contextVars, outcome, full, elapsed,
                   answer>>

KeepaliveExits(c) ==
    /\ keepalive[c] = "on"
    /\ stopped[c] \/ ctxErr[c] # "none"
    /\ keepalive' = [keepalive EXCEPT ![c] = "off"]
    /\ UNCHANGED <<pc, peerVars, timeout, slots, ctxErr, after, stopped, toolVars,
                   elapsed, answer>>

-----------------------------------------------------------------------------
(***************************************************************************)
(* Time and the other end.                                                 *)
(***************************************************************************)

\* Time is counted while it can matter: until the worker has looked at its
\* clock and the handler is past its select.
Timed(c) == /\ worker[c] # "none"
            /\ worker[c] # "done" \/ pc[c] \in {"select", "abort"}

Tick ==
    /\ \E c \in Calls : Timed(c) /\ elapsed[c] < Horizon
    /\ elapsed' = [c \in Calls |-> IF Timed(c) /\ elapsed[c] < Horizon
                                     THEN elapsed[c] + 1 ELSE elapsed[c]]
    /\ UNCHANGED <<pc, peerVars, timeout, slots, contextVars, toolVars, answer>>

\* The context's timer, at its deadline or later.
Deadline(c) ==
    /\ worker[c] # "none"
    /\ ctxErr[c] = "none"
    /\ elapsed[c] >= timeout[c]
    /\ CancelCtx(c, "deadline")
    /\ UNCHANGED <<pc, peerVars, timeout, slots, after, keepalive, stopped, toolVars,
                   elapsed, answer>>

\* The HTTP client goes away before it has its answer.  Nothing looks at it
\* before the slot is taken or after it is given back.
ClientGone(c) ==
    /\ Holds(c)
    /\ ~gone[c]
    /\ gone' = [gone EXCEPT ![c] = TRUE]
    /\ UNCHANGED <<pc, transport, withdrawn, timeout, slots, contextVars, toolVars,
                   elapsed, answer>>

\* The AfterFunc goroutine: it runs unless it was stopped before.
CancelOnClientGone(c) ==
    /\ after[c] = "armed"
    /\ gone[c]
    /\ after' = [after EXCEPT ![c] = "fired"]
    /\ CancelCtx(c, "canceled")
    /\ UNCHANGED <<pc, peerVars, timeout, slots, keepalive, stopped, toolVars,
                   elapsed, answer>>

\* The context the middleware was given ends: a notifications/cancelled, the
\* end of the session, or for a "propagated" request a client that is gone.
Withdraw(c) ==
    /\ Holds(c)
    /\ ~withdrawn[c]
    /\ withdrawn' = [withdrawn EXCEPT ![c] = TRUE]
    /\ IF worker[c] = "none" THEN UNCHANGED ctxErr ELSE CancelCtx(c, "canceled")
    /\ UNCHANGED <<pc, transport, gone, timeout, slots, after, keepalive, stopped,
                   toolVars, elapsed, answer>>

-----------------------------------------------------------------------------
Outer(c) == OnToolCall(c) \/ FilterCall(c) \/ OnToolResult(c)
Handler(c) ==
    \/ Acquire(c) \/ Launch(c) \/ TakeResult(c) \/ CtxDone(c) \/ AbortText(c)
    \/ StopKeepalive(c) \/ StopAfter(c) \/ Cancel(c) \/ Release(c)
Worker(c) == SendResult(c) \/ Watch(c)
Peer(c) == ClientGone(c) \/ Withdraw(c)

Next ==
    \/ \E c \in Calls :
          \/ Receive(c) \/ Outer(c) \/ Handler(c) \/ ToolReturns(c) \/ Worker(c)
          \/ KeepaliveExits(c) \/ Deadline(c) \/ CancelOnClientGone(c) \/ Peer(c)
    \/ Tick

Spec == Init /\ [][Next]_vars

-----------------------------------------------------------------------------
(***************************************************************************)
(* Type invariant.                                                         *)
(***************************************************************************)
Outcomes == {"result", "error"}
Answers == Outcomes \cup {"denied", "rejected", "timedOut", "disconnected", "cancelled"}

HandlerType ==
    /\ pc \in [Calls -> PCs]
    /\ transport \in [Calls -> Transports]
    /\ gone \in [Calls -> BOOLEAN]
    /\ withdrawn \in [Calls -> BOOLEAN]
    /\ timeout \in [Calls -> Nat]
    /\ slots \in Nat
    /\ answer \in [Calls -> Answers \cup {"none"}]
ContextType ==
    /\ ctxErr \in [Calls -> {"none", "deadline", "canceled"}]
    /\ after \in [Calls -> {"off", "armed", "fired"}]
    /\ keepalive \in [Calls -> {"off", "on"}]
    /\ stopped \in [Calls -> BOOLEAN]
    /\ elapsed \in [Calls -> 0 .. Horizon]
WorkerType ==
    /\ worker \in [Calls -> {"none", "running", "send", "watch", "done"}]
    /\ outcome \in [Calls -> Outcomes \cup {"none"}]
    /\ full \in [Calls -> BOOLEAN]
    /\ warned \in [Calls -> BOOLEAN]

\* Every variable holds a value of its type: no slot is given back twice, and
\* no result is taken from a worker that has none.
TypeOK == HandlerType /\ ContextType /\ WorkerType

-----------------------------------------------------------------------------
(***************************************************************************)
(* Safety.                                                                 *)
(***************************************************************************)

\* The semaphore counts the calls that hold it, exactly: whatever ends a call,
\* its slot comes back once, so the limit neither wears away nor lets one more
\* call in (hooks.go:120).
SlotAccounting ==
    slots = IF MaxConcurrentTools > 0 THEN Cardinality(Holders) ELSE 0

\* The answer names what ended the call (hooks.go:262): a timeout only when the
\* deadline has passed, a disconnect only when the tracked client is gone, a
\* cancel only when the request was withdrawn or its client gone; and a result
\* is the tool's own, of a call nothing else had to end.
AnswerCause ==
    \A c \in Calls :
        /\ answer[c] = "timedOut" => elapsed[c] >= timeout[c]
        /\ answer[c] = "disconnected" => transport[c] = "post" /\ gone[c]
        /\ answer[c] = "cancelled" => withdrawn[c]
        /\ answer[c] \in Outcomes => outcome[c] = answer[c]

\* A tool that outlives its call runs under a context that is done: when the
\* slot is given back, and for ever after, the worker has been told to stop
\* (hooks.go:96).
DetachedIsCancelled ==
    \A c \in Calls :
        answer[c] # "none" /\ ~Holds(c) /\ worker[c] # "none" => ctxErr[c] # "none"

\* The tool of a client that is gone is told to stop without waiting for its
\* deadline (disconnect.go:15): unless its context is done, the AfterFunc
\* goroutine that ends it is on its way, also when the client left before the
\* context was made.
GoneClientCancels ==
    \A c \in Calls :
        pc[c] = "select" /\ transport[c] = "post" /\ gone[c]
            => ctxErr[c] # "none" \/ after[c] = "armed"

\* No tool goes on unaware that nobody waits for it.
AbandonedIsTold == DetachedIsCancelled /\ GoneClientCancels

\* What the middleware returned is what the hooks observe and the client gets:
\* a detached worker that returns later changes nothing (hooks.go:154).
AnswerIsFinal ==
    [][\A c \in Calls : answer[c] # "none" => answer'[c] = answer[c]]_vars

\* The limit, as its callers see it.
Status(c) ==
    IF Holds(c) THEN "admitted"
    ELSE IF answer[c] = "none" THEN "new"
    ELSE IF answer[c] = "rejected" THEN "refused" ELSE "done"
Limit == INSTANCE ToolGate WITH Max <- MaxConcurrentTools,
                                status <- [c \in Calls |-> Status(c)]

\* A call is refused only while MaxConcurrentTools others are admitted and
\* unanswered, and an admitted call gives its place back however it ends: tools
\* that ignore their deadline cannot use the limit up (hooks.go:91).
BoundedAdmission == Limit!Spec

-----------------------------------------------------------------------------
(***************************************************************************)
(* Liveness.  The handler, the timer and the goroutines of the middleware  *)
(* go on; hooks and filter, the consumer's code, return.  A tool need not. *)
(***************************************************************************)
Fairness ==
    /\ WF_vars(Tick)
    /\ \A c \in Calls :
          /\ WF_vars(Outer(c)) /\ WF_vars(Handler(c)) /\ WF_vars(Worker(c))
          /\ WF_vars(KeepaliveExits(c)) /\ WF_vars(Deadline(c))
          /\ WF_vars(CancelOnClientGone(c))
FairSpec == Spec /\ Fairness

\* A call is answered even when its tool never returns (hooks.go:89).
EveryCallAnswered == \A c \in Calls : pc[c] = "hook" ~> pc[c] = "answered"

\* A call leaves nothing behind but a tool that does not return: worker and
\* keepalive end, whichever way the call went, and no registration stays on
\* the client's context (hooks.go:154).
NothingLeftBehind ==
    \A c \in Calls :
        pc[c] = "answered" /\ worker[c] # "running"
          ~> worker[c] \in {"none", "done"} /\ keepalive[c] = "off" /\ after[c] # "armed"

-----------------------------------------------------------------------------
(***************************************************************************)
(* What a comment of the code says, and the middleware does not do.        *)
(***************************************************************************)

\* "Max concurrent tool execution goroutines" (config.go:92): the slot of an
\* abandoned call is given back while its worker runs on.
BoundedWorkers ==
    MaxConcurrentTools > 0 =>
        Cardinality({c \in Calls : worker[c] = "running"}) <= MaxConcurrentTools
=============================================================================
