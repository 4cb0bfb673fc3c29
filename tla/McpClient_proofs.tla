-------------------------- MODULE McpClient_proofs --------------------------
(***************************************************************************)
(* Proofs about McpClient, for any callers, any limit of background calls, *)
(* any set of replies and either mode of session reuse.                    *)
(***************************************************************************)
EXTENDS McpClient, FiniteSetTheorems, TLAPS

-----------------------------------------------------------------------------
(***************************************************************************)
(* The inductive invariant.                                                *)
(***************************************************************************)

\* The semaphore, and the background calls it counts.
FireInv ==
    /\ IsFiniteSet(firing)
    /\ FireAccounting
    /\ \A c \in firing : Active(c)

\* The mutex is kept across Connect only, and while it is no session is cached.
MutexInv ==
    /\ ~reuse => session = NoSession
    /\ \A c \in Callers : reuse /\ pc[c] = "connect" => mu = c /\ session = NoSession

\* Where a call is tells what it holds.
Unfinished == {"idle", "lock", "connect", "call"}
Holding(c) ==
    /\ pc[c] # "close" => closing[c] = NoSession
    /\ pc[c] \in {"idle", "lock", "connect"} => sess[c] = NoSession

\* Nothing has gone wrong before the call fails, and then it is remembered how.
Remembered(c) ==
    /\ pc[c] \in Unfinished => err[c] = "none" /\ status[c] = "other" /\ ~refused[c]
    /\ err[c] \in Errors => (Classify(err[c], status[c]) = "rejected" <=> refused[c])

\* FailedSessionIsDropped for one call.
Dropped(c) ==
    reuse /\ pc[c] \in {"close", "leave"} /\ err[c] \in Errors /\ sess[c] # NoSession
      => session # sess[c]

CallInv == \A c \in Callers : Holding(c) /\ Remembered(c) /\ Dropped(c)

IInv == TypeOK /\ FireInv /\ MutexInv /\ CallInv /\ NoSessionLost

-----------------------------------------------------------------------------
(***************************************************************************)
(* Initial states.                                                         *)
(***************************************************************************)
LEMMA IInvInit == Init => IInv
<1> SUFFICES ASSUME Init PROVE IInv OBVIOUS
<1> USE ModeAssumption DEF Init
<1>1. TypeOK BY DEF TypeOK, ClientType, CallType, PCs, Errors, Nobody
<1>2. FireInv BY FS_EmptySet DEF FireInv, FireAccounting
<1>3. MutexInv BY DEF MutexInv
<1>4. CallInv BY DEF CallInv, Holding, Remembered, Dropped, Unfinished, Errors
<1>5. NoSessionLost BY DEF NoSessionLost
<1> QED BY <1>1, <1>2, <1>3, <1>4, <1>5 DEF IInv

-----------------------------------------------------------------------------
(***************************************************************************)
(* Background calls.                                                       *)
(***************************************************************************)

\* A slot is given back by a call that has one.
LEMMA FiringCounted ==
    ASSUME FireInv, NEW c \in firing
    PROVE  /\ Cardinality(firing \ {c}) = slots - 1
           /\ slots - 1 \in Nat
           /\ IsFiniteSet(firing \ {c})
<1>1. IsFiniteSet(firing) /\ slots = Cardinality(firing)
  BY DEF FireInv, FireAccounting
<1>2. IsFiniteSet(firing \ {c}) /\ Cardinality(firing \ {c}) = Cardinality(firing) - 1
  BY <1>1, FS_RemoveElement
<1>3. Cardinality(firing \ {c}) \in Nat
  BY <1>2, FS_CardinalityType
<1> QED BY <1>1, <1>2, <1>3

LEMMA FireStep == TypeOK /\ FireInv /\ [Next]_vars => FireInv'
<1> SUFFICES ASSUME TypeOK, FireInv, [Next]_vars PROVE FireInv' OBVIOUS
<1> USE DEF TypeOK, ClientType, CallType, FireInv, FireAccounting, Active, Goto
<1>1. ASSUME NEW c \in Callers, Fire(c) PROVE FireInv'
  <2>1. c \notin firing BY <1>1 DEF Fire
  <2>2. IsFiniteSet(firing') /\ Cardinality(firing') = slots'
    BY <1>1, <2>1, FS_AddElement DEF Fire
  <2>3. ASSUME NEW d \in firing' PROVE pc'[d] # "idle"
    BY <1>1, <2>3 DEF Fire, Start
  <2> QED BY <2>2, <2>3
<1>2. ASSUME NEW c \in Callers, Leave(c) PROVE FireInv'
  <2>1. CASE c \in firing
    <3>1. IsFiniteSet(firing') /\ Cardinality(firing') = slots'
      BY <1>2, <2>1, FiringCounted DEF Leave
    <3> QED BY <1>2, <3>1 DEF Leave
  <2>2. CASE c \notin firing
    <3>1. firing \ {c} = firing BY <2>2
    <3> QED BY <1>2, <2>2, <3>1 DEF Leave
  <2> QED BY <2>1, <2>2
<1>3. ASSUME NEW c \in Callers, UNCHANGED <<slots, firing>>,
             \E place \in PCs \ {"idle"} : Goto(c, place)
      PROVE  FireInv'
  BY <1>3
<1>4. ASSUME NEW c \in Callers, Call(c) \/ Lock(c) \/ Respond(c)
      PROVE  FireInv'
  BY <1>3, <1>4
     DEF Call, Start, Lock, Respond, Connected, ConnectFails, Answered, CallFails, PCs
<1>5. ASSUME NEW c \in Callers, DropSession(c) \/ CloseDropped(c) PROVE FireInv'
  BY <1>3, <1>5 DEF DropSession, CloseDropped, PCs
<1>6. ASSUME UNCHANGED <<slots, firing, pc>> PROVE FireInv'
  BY <1>6
<1>7. ASSUME NEW c \in Callers, Expire(c) PROVE FireInv'
  BY <1>6, <1>7 DEF Expire
<1>8. CASE TakeSession \/ CloseTaken \/ ServerFails \/ ServerReturns \/ UNCHANGED vars
  BY <1>6, <1>8 DEF TakeSession, CloseTaken, ServerFails, ServerReturns, vars
<1> QED BY <1>1, <1>2, <1>4, <1>5, <1>7, <1>8 DEF Next, Proceed

-----------------------------------------------------------------------------
(***************************************************************************)
(* Types.                                                                  *)
(***************************************************************************)

\* A new session has a name that nobody uses.
LEMMA FreshUnused == Unused # {} => Fresh \in Unused
BY DEF Fresh

\* The call that leaves gives back at most one slot, and one that was taken.
LEMMA LeaveSlots ==
    ASSUME TypeOK, FireInv, NEW c \in Callers, Leave(c)
    PROVE  slots' \in 0 .. MaxFire
<1>1. slots \in 0 .. MaxFire BY DEF TypeOK, ClientType
<1>2. MaxFire \in Nat BY ModeAssumption
<1>3. CASE c \in firing
  <2>1. slots' = slots - 1 BY <1>3 DEF Leave
  <2>2. slots - 1 \in Nat BY <1>3, FiringCounted
  <2> QED BY <1>1, <1>2, <2>1, <2>2
<1>4. CASE c \notin firing
  <2>1. slots' = slots BY <1>4 DEF Leave
  <2> QED BY <1>1, <2>1
<1> QED BY <1>3, <1>4

LEMMA TypeStep == TypeOK /\ FireInv /\ [Next]_vars => TypeOK'
<1> SUFFICES ASSUME TypeOK, FireInv, [Next]_vars PROVE TypeOK' OBVIOUS
<1> USE ModeAssumption
    DEF TypeOK, ClientType, CallType, PCs, Errors, Goto, poolVars, callVars
<1>1. ASSUME NEW c \in Callers, Call(c) \/ Fire(c) \/ Lock(c) PROVE TypeOK'
  BY <1>1 DEF Call, Fire, Start, Lock
<1>2. ASSUME NEW c \in Callers, Connected(c) PROVE TypeOK'
  BY <1>2, FreshUnused DEF Connected, Unused
<1>3. ASSUME NEW c \in Callers, ConnectFails(c) PROVE TypeOK'
  BY <1>3 DEF ConnectFails, Refused, Unanswered, Failure
<1>4. ASSUME NEW c \in Callers, CallFails(c) PROVE TypeOK'
  BY <1>4 DEF CallFails, Refused, Unanswered, Failure
<1>5. ASSUME NEW c \in Callers, Answered(c) PROVE TypeOK'
  BY <1>5 DEF Answered
<1>6. ASSUME NEW c \in Callers, DropSession(c) \/ CloseDropped(c) \/ Expire(c)
      PROVE  TypeOK'
  <2>1. CASE DropSession(c) BY <2>1 DEF DropSession
  <2>2. CASE CloseDropped(c) BY <2>2 DEF CloseDropped
  <2>3. CASE Expire(c) BY <2>3 DEF Expire
  <2> QED BY <1>6, <2>1, <2>2, <2>3
<1>7. ASSUME NEW c \in Callers, Leave(c) PROVE TypeOK'
  <2>1. slots' \in 0 .. MaxFire BY <1>7, LeaveSlots
  <2> QED BY <1>7, <2>1 DEF Leave
<1>8. CASE TakeSession \/ CloseTaken \/ ServerFails \/ ServerReturns \/ UNCHANGED vars
  BY <1>8 DEF TakeSession, CloseTaken, ServerFails, ServerReturns, vars
<1> QED
  BY <1>1, <1>2, <1>3, <1>4, <1>5, <1>6, <1>7, <1>8 DEF Next, Respond, Proceed

-----------------------------------------------------------------------------
(***************************************************************************)
(* The mutex.                                                              *)
(***************************************************************************)
LEMMA MutexStep == TypeOK /\ MutexInv /\ [Next]_vars => MutexInv'
<1> SUFFICES ASSUME TypeOK, MutexInv, [Next]_vars PROVE MutexInv' OBVIOUS
<1> USE ModeAssumption
    DEF TypeOK, ClientType, CallType, MutexInv, Goto, poolVars, callVars, Nobody
<1>1. ASSUME NEW c \in Callers, Call(c) \/ Fire(c) \/ Lock(c) PROVE MutexInv'
  BY <1>1 DEF Call, Fire, Start, Lock
<1>2. ASSUME NEW c \in Callers, Connected(c) PROVE MutexInv'
  BY <1>2 DEF Connected
<1>3. ASSUME NEW c \in Callers, ConnectFails(c) PROVE MutexInv'
  BY <1>3 DEF ConnectFails
<1>4. ASSUME NEW c \in Callers, CallFails(c) \/ Answered(c) PROVE MutexInv'
  BY <1>4 DEF CallFails, Answered
<1>5. ASSUME NEW c \in Callers, DropSession(c) \/ CloseDropped(c) PROVE MutexInv'
  BY <1>5 DEF DropSession, CloseDropped
<1>6. ASSUME NEW c \in Callers, Leave(c) \/ Expire(c) PROVE MutexInv'
  BY <1>6 DEF Leave, Expire
<1>7. CASE TakeSession \/ CloseTaken \/ ServerFails \/ ServerReturns \/ UNCHANGED vars
  BY <1>7 DEF TakeSession, CloseTaken, ServerFails, ServerReturns, vars
<1> QED
  BY <1>1, <1>2, <1>3, <1>4, <1>5, <1>6, <1>7 DEF Next, Respond, Proceed

-----------------------------------------------------------------------------
(***************************************************************************)
(* What one call holds and remembers.                                      *)
(***************************************************************************)

\* Only steps of the call itself change what Holding and Remembered speak of.
LEMMA HoldingStep ==
    TypeOK /\ CallInv /\ [Next]_vars => \A c \in Callers : Holding(c)'
<1> SUFFICES ASSUME TypeOK, CallInv, [Next]_vars, NEW c \in Callers PROVE Holding(c)'
  OBVIOUS
<1> USE ModeAssumption DEF TypeOK, ClientType, CallType, PCs, Holding, Goto, callVars
<1>0. \A d \in Callers : Holding(d) BY DEF CallInv
<1>1. ASSUME NEW d \in Callers, Call(d) \/ Fire(d) \/ Lock(d) PROVE Holding(c)'
  BY <1>0, <1>1 DEF Call, Fire, Start, Lock
<1>2. ASSUME NEW d \in Callers, Connected(d) \/ ConnectFails(d) PROVE Holding(c)'
  BY <1>0, <1>2 DEF Connected, ConnectFails
<1>3. ASSUME NEW d \in Callers, CallFails(d) \/ Answered(d) PROVE Holding(c)'
  BY <1>0, <1>3 DEF CallFails, Answered
<1>4. ASSUME NEW d \in Callers, DropSession(d) \/ CloseDropped(d) PROVE Holding(c)'
  BY <1>0, <1>4 DEF DropSession, CloseDropped
<1>5. ASSUME NEW d \in Callers, Leave(d) \/ Expire(d) PROVE Holding(c)'
  BY <1>0, <1>5 DEF Leave, Expire
<1>6. CASE TakeSession \/ CloseTaken \/ ServerFails \/ ServerReturns \/ UNCHANGED vars
  BY <1>0, <1>6 DEF TakeSession, CloseTaken, ServerFails, ServerReturns, vars
<1> QED BY <1>1, <1>2, <1>3, <1>4, <1>5, <1>6 DEF Next, Respond, Proceed

\* How a request fails tells a refusal from an unreachable server.
LEMMA FailureRemembered ==
    ASSUME TypeOK, NEW c \in Callers, Remembered(c), pc[c] \in Unfinished,
           Refused(c) \/ Unanswered(c),
           NEW place, place \notin Unfinished, Goto(c, place)
    PROVE  Remembered(c)'
<1> USE DEF TypeOK, ClientType, CallType, Remembered, Unfinished, Goto, Classify,
            HasServerRPCError, Errors
<1>1. CASE Unanswered(c) BY <1>1 DEF Unanswered
<1>2. CASE Refused(c)
  <2>1. PICK r \in DOMAIN Failure :
          /\ err' = [err EXCEPT ![c] = Failure[r].err]
          /\ status' = [status EXCEPT ![c] = Failure[r].status]
          /\ refused' = [refused EXCEPT ![c] = @ \/ r # "transient"]
    BY <1>2 DEF Refused
  <2>2. CASE r = "transient" BY <2>1, <2>2 DEF Failure
  <2>3. CASE r \in {"rpcError", "refused"}
    <3>1. refused' = [refused EXCEPT ![c] = TRUE] BY <2>1, <2>3
    <3>2. CASE r = "rpcError" BY <2>1, <3>1, <3>2 DEF Failure
    <3>3. CASE r = "refused" BY <2>1, <3>1, <3>3 DEF Failure
    <3> QED BY <2>3, <3>2, <3>3
  <2> QED BY <2>1, <2>2, <2>3 DEF Failure
<1> QED BY <1>1, <1>2

LEMMA RememberedStep ==
    TypeOK /\ CallInv /\ [Next]_vars => \A c \in Callers : Remembered(c)'
<1> SUFFICES ASSUME TypeOK, CallInv, [Next]_vars, NEW c \in Callers
             PROVE  Remembered(c)'
  OBVIOUS
<1> USE DEF TypeOK, ClientType, CallType, Goto, callVars
<1>0. \A d \in Callers : Remembered(d) BY DEF CallInv
<1>1. ASSUME UNCHANGED <<err[c], status[c], refused[c]>>,
             pc'[c] = pc[c] \/ pc[c] \in Unfinished
      PROVE  Remembered(c)'
  BY <1>0, <1>1 DEF Remembered, Classify, HasServerRPCError, Unfinished, Errors
<1>2. ASSUME NEW d \in Callers, Call(d) \/ Fire(d) \/ Lock(d) PROVE Remembered(c)'
  BY <1>1, <1>2 DEF Call, Fire, Start, Lock, Unfinished
<1>3. ASSUME NEW d \in Callers, Connected(d) PROVE Remembered(c)'
  BY <1>0, <1>1, <1>3 DEF Connected, Remembered, Unfinished
<1>4. ASSUME NEW d \in Callers, ConnectFails(d) \/ CallFails(d) PROVE Remembered(c)'
  <2>1. CASE d = c
    <3>1. Refused(c) \/ Unanswered(c) BY <1>4, <2>1 DEF ConnectFails, CallFails
    <3>2. PICK place \in {"leave", "drop"} : Goto(c, place)
      BY <1>4, <2>1 DEF ConnectFails, CallFails
    <3>3. pc[c] \in Unfinished
      BY <1>4, <2>1 DEF ConnectFails, CallFails, Unfinished
    <3> QED BY <1>0, <3>1, <3>2, <3>3, FailureRemembered DEF Unfinished
  <2>2. CASE d # c
    <3>1. Refused(d) \/ Unanswered(d) BY <1>4 DEF ConnectFails, CallFails
    <3>2. UNCHANGED <<err[c], status[c], refused[c]>>
      BY <2>2, <3>1 DEF Refused, Unanswered
    <3>3. pc'[c] = pc[c] BY <1>4, <2>2 DEF ConnectFails, CallFails
    <3> QED BY <1>1, <3>2, <3>3
  <2> QED BY <2>1, <2>2
<1>5. ASSUME NEW d \in Callers, Answered(d) PROVE Remembered(c)'
  <2>1. CASE d = c
    BY <1>0, <1>5, <2>1 DEF Answered, Remembered, Unfinished, Errors
  <2>2. CASE d # c BY <1>1, <1>5, <2>2 DEF Answered
  <2> QED BY <2>1, <2>2
<1>6. ASSUME NEW d \in Callers, DropSession(d) \/ CloseDropped(d) PROVE Remembered(c)'
  BY <1>0, <1>6 DEF DropSession, CloseDropped, Remembered, Classify,
                    HasServerRPCError, Unfinished, Errors
<1>7. ASSUME NEW d \in Callers, Leave(d) PROVE Remembered(c)'
  <2>1. CASE d = c BY <1>7, <2>1 DEF Leave, Remembered, Errors
  <2>2. CASE d # c BY <1>1, <1>7, <2>2 DEF Leave
  <2> QED BY <2>1, <2>2
<1>8. ASSUME NEW d \in Callers, Expire(d) PROVE Remembered(c)'
  BY <1>1, <1>8 DEF Expire
<1>9. CASE TakeSession \/ CloseTaken \/ ServerFails \/ ServerReturns \/ UNCHANGED vars
  BY <1>1, <1>9 DEF TakeSession, CloseTaken, ServerFails, ServerReturns, vars
<1> QED
  BY <1>2, <1>3, <1>4, <1>5, <1>6, <1>7, <1>8, <1>9 DEF Next, Respond, Proceed

\* A session that a call has failed on is not cached again: it goes when the
\* call drops it, and a new one has another name.
LEMMA DroppedStep ==
    TypeOK /\ CallInv /\ [Next]_vars => \A c \in Callers : Dropped(c)'
<1> SUFFICES ASSUME TypeOK, CallInv, [Next]_vars, NEW c \in Callers PROVE Dropped(c)'
  OBVIOUS
<1> USE DEF TypeOK, ClientType, CallType, Goto, callVars, poolVars
<1>0. \A d \in Callers : Dropped(d) /\ Holding(d) /\ Remembered(d) BY DEF CallInv
<1>1. ASSUME UNCHANGED <<reuse, session, sess[c], err[c]>>,
             pc'[c] = pc[c] \/ pc'[c] \notin {"close", "leave"}
      PROVE  Dropped(c)'
  BY <1>0, <1>1 DEF Dropped, Errors
<1>2. ASSUME NEW d \in Callers, Call(d) \/ Fire(d) PROVE Dropped(c)'
  BY <1>1, <1>2 DEF Call, Fire, Start
<1>3. ASSUME NEW d \in Callers, Lock(d) PROVE Dropped(c)'
  <2>1. CASE d = c BY <1>3, <2>1 DEF Lock, Dropped
  <2>2. CASE d # c BY <1>1, <1>3, <2>2 DEF Lock
  <2> QED BY <2>1, <2>2
<1>4. ASSUME NEW d \in Callers, Connected(d) PROVE Dropped(c)'
  <2>1. CASE d = c BY <1>4, <2>1 DEF Connected, Dropped
  <2>2. CASE d # c
    <3>1. Fresh # sess[c] BY <1>4, FreshUnused DEF Connected, Unused
    <3> QED BY <1>0, <1>4, <2>2, <3>1 DEF Connected, Dropped, Errors
  <2> QED BY <2>1, <2>2
<1>5. ASSUME NEW d \in Callers, ConnectFails(d) \/ CallFails(d) PROVE Dropped(c)'
  <2>1. CASE d = c
    <3>1. CASE ConnectFails(d)
      BY <1>0, <2>1, <3>1 DEF ConnectFails, Holding, Dropped
    <3>2. CASE CallFails(d) BY <2>1, <3>2 DEF CallFails, Dropped
    <3> QED BY <1>5, <3>1, <3>2
  <2>2. CASE d # c
    <3>1. Refused(d) \/ Unanswered(d) BY <1>5 DEF ConnectFails, CallFails
    <3>2. err'[c] = err[c] BY <2>2, <3>1 DEF Refused, Unanswered
    <3> QED BY <1>1, <1>5, <2>2, <3>2 DEF ConnectFails, CallFails
  <2> QED BY <2>1, <2>2
<1>6. ASSUME NEW d \in Callers, Answered(d) PROVE Dropped(c)'
  <2>1. CASE d = c
    BY <1>0, <1>6, <2>1 DEF Answered, Remembered, Unfinished, Dropped, Errors
  <2>2. CASE d # c BY <1>1, <1>6, <2>2 DEF Answered
  <2> QED BY <2>1, <2>2
<1>7. ASSUME NEW d \in Callers, DropSession(d) PROVE Dropped(c)'
  BY <1>0, <1>7 DEF DropSession, Dropped
<1>8. ASSUME NEW d \in Callers, CloseDropped(d) \/ Expire(d) PROVE Dropped(c)'
  BY <1>0, <1>8 DEF CloseDropped, Expire, Dropped
<1>9. ASSUME NEW d \in Callers, Leave(d) PROVE Dropped(c)'
  BY <1>0, <1>9 DEF Leave, Dropped, Errors
<1>10. CASE TakeSession \/ CloseTaken \/ ServerFails \/ ServerReturns \/ UNCHANGED vars
  BY <1>0, <1>10
     DEF TakeSession, CloseTaken, ServerFails, ServerReturns, vars, Dropped
<1> QED
  BY <1>2, <1>3, <1>4, <1>5, <1>6, <1>7, <1>8, <1>9, <1>10
     DEF Next, Respond, Proceed

-----------------------------------------------------------------------------
(***************************************************************************)
(* No session is lost.                                                     *)
(***************************************************************************)

\* Somebody will close session s, or it is cached.
Kept(s) ==
    \/ s = session \/ s = owner
    \/ \E c \in Callers : s = closing[c] \/ (~reuse /\ Active(c) /\ s = sess[c])

LEMMA KeptStep == IInv /\ [Next]_vars => NoSessionLost'
<1> SUFFICES ASSUME IInv, [Next]_vars, NEW s \in open' PROVE Kept(s)'
  BY DEF NoSessionLost, Kept
<1> USE ModeAssumption
    DEF TypeOK, ClientType, CallType, Kept, Active, Goto, poolVars, callVars
<1>1. TypeOK /\ MutexInv /\ s # NoSession
  <2>1. TypeOK' BY TypeStep DEF IInv
  <2> QED BY <2>1 DEF IInv
<1>2. s \in open => Kept(s) BY DEF IInv, NoSessionLost
<1>3. \A c \in Callers : Holding(c) BY DEF IInv, CallInv
<1>4. ASSUME NEW c \in Callers, Call(c) \/ Fire(c) PROVE Kept(s)'
  BY <1>1, <1>2, <1>4 DEF Call, Fire, Start
<1>5. ASSUME NEW c \in Callers, Lock(c) PROVE Kept(s)'
  BY <1>1, <1>2, <1>5 DEF Lock, MutexInv
<1>6. ASSUME NEW c \in Callers, Connected(c) PROVE Kept(s)'
  <2>1. CASE reuse
    <3>1. session = NoSession BY <1>1, <1>6, <2>1 DEF Connected, MutexInv
    <3> QED BY <1>1, <1>2, <1>6, <2>1, <3>1 DEF Connected
  <2>2. CASE ~reuse
    <3>1. sess[c] = NoSession BY <1>3, <1>6 DEF Connected, Holding
    <3>2. CASE s = Fresh BY <1>1, <1>6, <2>2, <3>2 DEF Connected
    <3>3. CASE s # Fresh BY <1>1, <1>2, <1>6, <2>2, <3>1, <3>3 DEF Connected
    <3> QED BY <3>2, <3>3
  <2> QED BY <1>1, <2>1, <2>2
<1>7. ASSUME NEW c \in Callers, ConnectFails(c) \/ CallFails(c) \/ Answered(c)
      PROVE  Kept(s)'
  BY <1>1, <1>2, <1>7 DEF ConnectFails, CallFails, Answered
<1>8. ASSUME NEW c \in Callers, DropSession(c) PROVE Kept(s)'
  <2>1. closing[c] = NoSession BY <1>3, <1>8 DEF DropSession, Holding
  <2> QED BY <1>1, <1>2, <1>8, <2>1 DEF DropSession
<1>9. ASSUME NEW c \in Callers, CloseDropped(c) PROVE Kept(s)'
  BY <1>1, <1>2, <1>9 DEF CloseDropped
<1>10. ASSUME NEW c \in Callers, Leave(c) PROVE Kept(s)'
  BY <1>1, <1>2, <1>10 DEF Leave
<1>11. ASSUME NEW c \in Callers, Expire(c) PROVE Kept(s)'
  BY <1>1, <1>2, <1>11 DEF Expire
<1>12. CASE TakeSession \/ CloseTaken \/ ServerFails \/ ServerReturns \/ UNCHANGED vars
  BY <1>1, <1>2, <1>12
     DEF TakeSession, CloseTaken, ServerFails, ServerReturns, vars
<1> QED
  BY <1>4, <1>5, <1>6, <1>7, <1>8, <1>9, <1>10, <1>11, <1>12
     DEF Next, Respond, Proceed

-----------------------------------------------------------------------------
(***************************************************************************)
(* The theorems.                                                           *)
(***************************************************************************)
LEMMA Inductive == Spec => []IInv
<1>1. IInv /\ [Next]_vars => IInv'
  <2> SUFFICES ASSUME IInv, [Next]_vars PROVE IInv' OBVIOUS
  <2>1. TypeOK' BY TypeStep DEF IInv
  <2>2. FireInv' BY FireStep DEF IInv
  <2>3. MutexInv' BY MutexStep DEF IInv
  <2>4. CallInv' BY HoldingStep, RememberedStep, DroppedStep DEF IInv, CallInv
  <2>5. NoSessionLost' BY KeptStep
  <2> QED BY <2>1, <2>2, <2>3, <2>4, <2>5 DEF IInv
<1> QED BY IInvInit, <1>1, PTL DEF Spec

\* Every variable keeps a value of its type: the semaphore of Fire (client.go:178)
\* never counts below zero or above its limit.
THEOREM TypeCorrect == Spec => []TypeOK
<1>1. IInv => TypeOK BY DEF IInv
<1> QED BY <1>1, Inductive, PTL

\* The semaphore of Fire counts exactly the background calls that run, so that a
\* slot is neither lost nor given back twice (client.go:178).
THEOREM FireAccountingHolds == Spec => []FireAccounting
<1>1. IInv => FireAccounting BY DEF IInv, FireInv
<1> QED BY <1>1, Inductive, PTL

\* Whatever way calls, failures, dropSession and Close interleave, every open
\* session is cached or about to be closed by someone (client.go:153, 221).
THEOREM NoSessionLostHolds == Spec => []NoSessionLost
<1>1. IInv => NoSessionLost BY DEF IInv
<1> QED BY <1>1, Inductive, PTL

\* No call is given a session that another call has failed on and dropped
\* (client.go:165).
THEOREM FailedSessionIsDroppedHolds == Spec => []FailedSessionIsDropped
<1>1. IInv => FailedSessionIsDropped
  BY DEF IInv, CallInv, Dropped, FailedSessionIsDropped
<1> QED BY <1>1, Inductive, PTL

\* A call is told ErrRejected exactly when the server refused one of its own
\* requests, whatever it was told before (client.go:46).
THEOREM RejectedMeansRefusedHolds == Spec => []RejectedMeansRefused
<1>1. IInv => RejectedMeansRefused
  BY DEF IInv, CallInv, Remembered, RejectedMeansRefused, Outcome, Errors
<1> QED BY <1>1, Inductive, PTL
=============================================================================
