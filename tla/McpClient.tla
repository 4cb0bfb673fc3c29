----------------------------- MODULE McpClient ------------------------------
(***************************************************************************)
(* mcpclient.Client (mcpclient/client.go): calls from several goroutines   *)
(* that share one lazily opened session, background calls bounded by a     *)
(* semaphore, and what a caller is told when a call fails.                 *)
(*                                                                         *)
(* One mutex guards the cached session.  It is held across Connect, and    *)
(* taken again by a call that failed, to drop whatever session is cached   *)
(* by then.  The SDK's session is external: it is modelled by what         *)
(* Connect, CallTool and Close may do to this code, a server that goes     *)
(* away and comes back, and the replies in Replies.                        *)
(*                                                                         *)
(* Arguments, result contents, headers and logging are left out.           *)
(***************************************************************************)
EXTENDS Integers, FiniteSets

CONSTANTS
    Callers,        \* goroutines that use the client
    Sessions,       \* bound: names for *mcp.ClientSession values in use at once
    MaxFire,        \* maxFireConcurrent
    ReuseModes,     \* what WithSessionReuse may have set
    Tolerant,       \* WithUnreachableTolerant
    Replies,        \* what a server that is up may reply
    NoSession       \* nil

Nobody == "nobody"

ASSUME ModeAssumption ==
    /\ NoSession \notin Sessions
    /\ Nobody \notin Callers
    /\ MaxFire \in Nat \ {0}
    /\ ReuseModes \subseteq BOOLEAN
    /\ Tolerant \in BOOLEAN
    /\ Replies \subseteq {"result", "toolError", "rpcError", "refused", "transient"}

VARIABLES
    reuse,      \* c.reuse
    up,         \* the server can be reached
    mu,         \* who holds c.mu while it connects; nobody keeps it otherwise
    session,    \* c.session
    open,       \* the sessions that have not been closed
    owner,      \* the session Client.Close has taken and not closed yet
    slots,      \* len(c.fireSem)
    firing,     \* the goroutines that Fire has started and that run
    pc,         \* where each goroutine is
    sess,       \* the session its call uses
    closing,    \* the session its dropSession has taken and not closed yet
    status,     \* its statusRecorder: the last status is "refused", or "other"
    err,        \* the error of Connect or CallTool, or of the tool
    expired,    \* callCtx has ended, while the call looks at it
    refused     \* ghost: the server has refused a request of the call

poolVars == <<session, open, owner>>
callVars == <<sess, closing, status, err, expired>>
vars == <<reuse, up, mu, poolVars, slots, firing, pc, callVars, refused>>

Active(c) == pc[c] # "idle"

\* The names no goroutine still refers to; any of them will do for a new one.
Unused == {s \in Sessions : /\ s \notin open \cup {session, owner}
                            /\ \A c \in Callers : s # sess[c]}
Fresh == CHOOSE s \in Unused : TRUE

Goto(c, place) == pc' = [pc EXCEPT ![c] = place]

Init ==
    /\ reuse \in ReuseModes
    /\ up = TRUE
    /\ mu = Nobody
    /\ session = NoSession
    /\ open = {}
    /\ owner = NoSession
    /\ slots = 0
    /\ firing = {}
    /\ pc = [c \in Callers |-> "idle"]
    /\ sess = [c \in Callers |-> NoSession]
    /\ closing = [c \in Callers |-> NoSession]
    /\ status = [c \in Callers |-> "other"]
    /\ err = [c \in Callers |-> "none"]
    /\ expired = [c \in Callers |-> FALSE]
    /\ refused = [c \in Callers |-> FALSE]

-----------------------------------------------------------------------------
(***************************************************************************)
(* Call and Fire.                                                          *)
(***************************************************************************)
Start(c) ==
    /\ Goto(c, IF reuse THEN "lock" ELSE "connect")
    /\ UNCHANGED <<reuse, up, mu, poolVars, callVars, refused>>

Call(c) ==
    /\ pc[c] = "idle"
    /\ Start(c)
    /\ UNCHANGED <<slots, firing>>

\* Mutant of Fire: the limit admits one goroutine too many.
FireOneTooMany(c) ==
    /\ pc[c] = "idle"
    /\ slots <= MaxFire
    /\ slots' = slots + 1
    /\ firing' = firing \cup {c}
    /\ Start(c)

\* The slot is taken without waiting.  At the limit Fire drops the call, and
\* nothing changes.
Fire(c) ==
    /\ pc[c] = "idle"
    /\ slots < MaxFire
    /\ slots' = slots + 1
    /\ firing' = firing \cup {c}
    /\ Start(c)

\* Mutant of Lock: whether a session is cached is not looked at again.
LockBlindly(c) ==
    /\ pc[c] = "lock"
    /\ mu = Nobody
    /\ mu' = c
    /\ Goto(c, "connect")
    /\ UNCHANGED <<reuse, up, poolVars, slots, firing, callVars, refused>>

\* session_: the cached session, or the mutex and a connection to make.
Lock(c) ==
    /\ pc[c] = "lock"
    /\ mu = Nobody
    /\ \/ /\ session # NoSession
          /\ sess' = [sess EXCEPT ![c] = session]
          /\ Goto(c, "call")
          /\ UNCHANGED mu
       \/ /\ session = NoSession
          /\ mu' = c
          /\ Goto(c, "connect")
          /\ UNCHANGED sess
    /\ UNCHANGED <<reuse, up, poolVars, slots, firing, closing, status, err,
                   expired, refused>>

\* connect: only a client that reuses sessions keeps the new one.
Connected(c) ==
    /\ pc[c] = "connect"
    /\ up
    /\ Unused # {}
    /\ open' = open \cup {Fresh}
    /\ session' = IF reuse THEN Fresh ELSE session
    /\ sess' = [sess EXCEPT ![c] = Fresh]
    /\ mu' = Nobody
    /\ status' = [status EXCEPT ![c] = "other"]
    /\ Goto(c, "call")
    /\ UNCHANGED <<reuse, up, owner, slots, firing, closing, err, expired,
                   refused>>

\* How a reply makes a request fail: the error the SDK returns and the class of
\* the HTTP status statusTransport has recorded.  A transient status comes back
\* as the SDK's own sentinel, a JSON-RPC error the server never sent.
Failure == [rpcError  |-> [err |-> "rpc",       status |-> "other"],
            refused   |-> [err |-> "transport", status |-> "refused"],
            transient |-> [err |-> "sentinel",  status |-> "other"]]

Refused(c) ==
    \E r \in Replies \cap DOMAIN Failure :
        /\ up
        /\ err' = [err EXCEPT ![c] = Failure[r].err]
        /\ status' = [status EXCEPT ![c] = Failure[r].status]
        /\ refused' = [refused EXCEPT ![c] = @ \/ r # "transient"]

\* No response: the recorder keeps the status of an earlier request.
Unanswered(c) ==
    /\ err' = [err EXCEPT ![c] = "transport"]
    /\ UNCHANGED <<status, refused>>

\* Mutant of ConnectFails: the error path returns without the unlock.
ConnectFailsLocked(c) ==
    /\ pc[c] = "connect"
    /\ Refused(c) \/ ((~up \/ expired[c]) /\ Unanswered(c))
    /\ Goto(c, "leave")
    /\ expired' = [expired EXCEPT ![c] = FALSE]
    /\ UNCHANGED <<reuse, up, mu, poolVars, slots, firing, sess, closing>>

ConnectFails(c) ==
    /\ pc[c] = "connect"
    /\ Refused(c) \/ ((~up \/ expired[c]) /\ Unanswered(c))
    /\ mu' = Nobody
    /\ Goto(c, "leave")
    /\ expired' = [expired EXCEPT ![c] = FALSE]
    /\ UNCHANGED <<reuse, up, poolVars, slots, firing, sess, closing>>

\* CallTool over a session nobody has closed: a result, or one that IsError.
Answered(c) ==
    /\ pc[c] = "call"
    /\ up /\ sess[c] \in open
    /\ \/ "result" \in Replies /\ UNCHANGED err
       \/ "toolError" \in Replies /\ err' = [err EXCEPT ![c] = "tool"]
    /\ status' = [status EXCEPT ![c] = "other"]
    /\ Goto(c, "leave")
    /\ expired' = [expired EXCEPT ![c] = FALSE]
    /\ UNCHANGED <<reuse, up, mu, poolVars, slots, firing, sess, closing,
                   refused>>

\* CallTool fails, a session another goroutine has closed included.
CallFails(c) ==
    /\ pc[c] = "call"
    /\ \/ sess[c] \in open /\ Refused(c)
       \/ (~up \/ expired[c] \/ sess[c] \notin open) /\ Unanswered(c)
    /\ Goto(c, "drop")
    /\ expired' = [expired EXCEPT ![c] = FALSE]
    /\ UNCHANGED <<reuse, up, mu, poolVars, slots, firing, sess, closing>>

\* Mutant of DropSession: only a transport error drops the session.
DropSessionIfTransport(c) ==
    /\ pc[c] = "drop"
    /\ mu = Nobody
    /\ IF reuse /\ session # NoSession /\ err[c] = "transport"
         THEN /\ closing' = [closing EXCEPT ![c] = session]
              /\ session' = NoSession
              /\ Goto(c, "close")
         ELSE UNCHANGED <<closing, session>> /\ Goto(c, "leave")
    /\ UNCHANGED <<reuse, up, mu, open, owner, slots, firing, sess, status, err,
                   expired, refused>>

\* dropSession takes whatever session is cached now.
DropSession(c) ==
    /\ pc[c] = "drop"
    /\ mu = Nobody
    /\ IF reuse /\ session # NoSession
         THEN /\ closing' = [closing EXCEPT ![c] = session]
              /\ session' = NoSession
              /\ Goto(c, "close")
         ELSE UNCHANGED <<closing, session>> /\ Goto(c, "leave")
    /\ UNCHANGED <<reuse, up, mu, open, owner, slots, firing, sess, status, err,
                   expired, refused>>

CloseDropped(c) ==
    /\ pc[c] = "close"
    /\ open' = open \ {closing[c]}
    /\ closing' = [closing EXCEPT ![c] = NoSession]
    /\ Goto(c, "leave")
    /\ UNCHANGED <<reuse, up, mu, session, owner, slots, firing, sess, status,
                   err, expired,
                   refused>>

HasServerRPCError(e) == e = "rpc"

\* classifyErr, unreachableErr: a tolerant client is told nothing at all.
Classify(e, st) ==
    IF HasServerRPCError(e) \/ st = "refused" THEN "rejected"
    ELSE IF Tolerant THEN "nothing" ELSE "unreachable"

\* What Call tells its caller when it leaves.
Outcome(c) ==
    CASE err[c] = "none" -> "result"
      [] err[c] = "tool" -> "toolError"
      [] OTHER           -> Classify(err[c], status[c])

\* Mutant of Leave: the recorder belongs to the client and not to the call.
LeaveKeepsStatus(c) ==
    /\ pc[c] = "leave"
    /\ open' = IF reuse THEN open ELSE open \ {sess[c]}
    /\ slots' = IF c \in firing THEN slots - 1 ELSE slots
    /\ firing' = firing \ {c}
    /\ sess' = [sess EXCEPT ![c] = NoSession]
    /\ err' = [err EXCEPT ![c] = "none"]
    /\ refused' = [refused EXCEPT ![c] = FALSE]
    /\ Goto(c, "idle")
    /\ UNCHANGED <<reuse, up, mu, session, owner, closing, expired, status>>

\* Mutant of Leave: a failed background call keeps its slot.
LeaveSlotOnSuccess(c) ==
    /\ pc[c] = "leave"
    /\ open' = IF reuse THEN open ELSE open \ {sess[c]}
    /\ slots' = IF c \in firing /\ err[c] = "none" THEN slots - 1 ELSE slots
    /\ firing' = firing \ {c}
    /\ sess' = [sess EXCEPT ![c] = NoSession]
    /\ status' = [status EXCEPT ![c] = "other"]
    /\ err' = [err EXCEPT ![c] = "none"]
    /\ refused' = [refused EXCEPT ![c] = FALSE]
    /\ Goto(c, "idle")
    /\ UNCHANGED <<reuse, up, mu, session, owner, closing, expired>>

\* The deferred calls: a session of this call alone is closed, the context
\* cancelled, the slot of a background call given back.
Leave(c) ==
    /\ pc[c] = "leave"
    /\ open' = IF reuse THEN open ELSE open \ {sess[c]}
    /\ slots' = IF c \in firing THEN slots - 1 ELSE slots
    /\ firing' = firing \ {c}
    /\ sess' = [sess EXCEPT ![c] = NoSession]
    /\ status' = [status EXCEPT ![c] = "other"]
    /\ err' = [err EXCEPT ![c] = "none"]
    /\ refused' = [refused EXCEPT ![c] = FALSE]
    /\ Goto(c, "idle")
    /\ UNCHANGED <<reuse, up, mu, session, owner, closing, expired>>

-----------------------------------------------------------------------------
(***************************************************************************)
(* Client.Close, in two steps: the session is taken under the mutex and    *)
(* closed after it.                                                        *)
(***************************************************************************)
TakeSession ==
    /\ mu = Nobody
    /\ owner = NoSession /\ session # NoSession
    /\ owner' = session
    /\ session' = NoSession
    /\ UNCHANGED <<reuse, up, mu, open, slots, firing, pc, callVars, refused>>

CloseTaken ==
    /\ owner # NoSession
    /\ open' = open \ {owner}
    /\ owner' = NoSession
    /\ UNCHANGED <<reuse, up, mu, session, slots, firing, pc, callVars,
                   refused>>

-----------------------------------------------------------------------------
(***************************************************************************)
(* The server and the calls' contexts.                                     *)
(***************************************************************************)
ServerFails ==
    /\ up
    /\ up' = FALSE
    /\ UNCHANGED <<reuse, mu, poolVars, slots, firing, pc, callVars, refused>>

ServerReturns ==
    /\ ~up
    /\ up' = TRUE
    /\ UNCHANGED <<reuse, mu, poolVars, slots, firing, pc, callVars, refused>>

\* The timeout passes, or the caller's own context ends.
Expire(c) ==
    /\ pc[c] \in {"lock", "connect", "call"}
    /\ ~expired[c]
    /\ expired' = [expired EXCEPT ![c] = TRUE]
    /\ UNCHANGED <<reuse, up, mu, poolVars, slots, firing, pc, sess, closing,
                   status, err,
                   refused>>

-----------------------------------------------------------------------------
\* What the client does by itself, and what it waits for.
Proceed(c) == CloseDropped(c) \/ Leave(c)
Respond(c) == Connected(c) \/ ConnectFails(c) \/ Answered(c) \/ CallFails(c)

Next ==
    \/ \E c \in Callers : \/ Call(c) \/ Fire(c) \/ Lock(c) \/ Respond(c)
                          \/ DropSession(c) \/ Proceed(c) \/ Expire(c)
    \/ TakeSession \/ CloseTaken
    \/ ServerFails \/ ServerReturns

Spec == Init /\ [][Next]_vars

-----------------------------------------------------------------------------
(***************************************************************************)
(* Type invariant.                                                         *)
(***************************************************************************)
Errors == {"rpc", "sentinel", "transport"}
PCs == {"idle", "lock", "connect", "call", "drop", "close", "leave"}

ClientType ==
    /\ reuse \in BOOLEAN
    /\ up \in BOOLEAN
    /\ mu \in Callers \cup {Nobody}
    /\ session \in Sessions \cup {NoSession}
    /\ open \subseteq Sessions
    /\ owner \in Sessions \cup {NoSession}
    /\ slots \in 0 .. MaxFire
    /\ firing \subseteq Callers
CallType ==
    /\ pc \in [Callers -> PCs]
    /\ sess \in [Callers -> Sessions \cup {NoSession}]
    /\ closing \in [Callers -> Sessions \cup {NoSession}]
    /\ status \in [Callers -> {"other", "refused"}]
    /\ err \in [Callers -> Errors \cup {"none", "tool"}]
    /\ expired \in [Callers -> BOOLEAN]
    /\ refused \in [Callers -> BOOLEAN]

\* Every variable holds a value of its type.
TypeOK == ClientType /\ CallType

-----------------------------------------------------------------------------
(***************************************************************************)
(* Safety.                                                                 *)
(***************************************************************************)

\* Fire is bounded and stays so (client.go:178): the semaphore counts exactly
\* the background calls that run, so a failed one does not use the limit up.
FireAccounting == slots = Cardinality(firing)

\* No session is lost (client.go:153, 221): every session that has not been
\* closed is cached, or some goroutine is about to close it; however calls,
\* failures and Close interleave, none is overwritten or forgotten.
NoSessionLost ==
    \A s \in open :
        \/ s = session \/ s = owner
        \/ \E c \in Callers : s = closing[c] \/ (~reuse /\ Active(c) /\ s = sess[c])

\* After a failed call the next one connects anew (client.go:165): whoever was
\* first to drop it, no later call is given the session this one failed on.
FailedSessionIsDropped ==
    \A c \in Callers :
        reuse /\ pc[c] \in {"close", "leave"} /\ err[c] \in Errors
            /\ sess[c] # NoSession
          => session # sess[c]

\* ErrRejected means that the server refused a request of this very call, and
\* a refusal is never passed off as an unreachable server, nor suppressed
\* (client.go:46).
RejectedMeansRefused ==
    \A c \in Callers :
        pc[c] = "leave" /\ err[c] \in Errors
          => (Outcome(c) = "rejected" <=> refused[c])

-----------------------------------------------------------------------------
(***************************************************************************)
(* Liveness.  A context ends at its timeout at the latest, the SDK notices *)
(* that a context has ended or a session is closed, closing a session      *)
(* returns, and the mutex is not kept from a waiter for ever (Go's         *)
(* mutexes hand over after a millisecond).  The server need never answer.  *)
(***************************************************************************)
GivenUp(c) == expired[c] /\ (ConnectFails(c) \/ CallFails(c))
Fairness ==
    \A c \in Callers :
        /\ WF_vars(Proceed(c)) /\ WF_vars(Expire(c)) /\ WF_vars(GivenUp(c))
        /\ SF_vars(Lock(c)) /\ SF_vars(DropSession(c))
FairSpec == Spec /\ Fairness

\* Every call ends, whoever holds the mutex while a server does not answer
\* (client.go:8, 227).
EveryCallEnds == \A c \in Callers : Active(c) ~> ~Active(c)

-----------------------------------------------------------------------------
(***************************************************************************)
(* What a comment of the code says, and the client does not do.            *)
(***************************************************************************)

\* "On transport error the session is dropped" (client.go:100): a failed call
\* closes no session it never used, while another call is using it over a server
\* that is up.  dropSession takes whatever session is cached by the time it has
\* the mutex, also the fresh one of a call that came later and had no trouble.
OthersSessionsKept ==
    \A c, d \in Callers :
        closing[c] # NoSession /\ closing[c] # sess[c] /\ up
          => ~(pc[d] = "call" /\ sess[d] = closing[c])
=============================================================================
