-------------------------- MODULE AccessLog_proofs ---------------------------
(***************************************************************************)
(* Proofs about AccessLog, for any number of goroutines that write, any    *)
(* status codes and any number of calls.                                   *)
(***************************************************************************)
EXTENDS AccessLog, FiniteSetTheorems, TLAPS

-----------------------------------------------------------------------------
(***************************************************************************)
(* Type correctness.                                                       *)
(***************************************************************************)
AllCalls == Calls \cup {Header(204), Header(503), Idle}

\* A call carries a status, and the one of a body is 200.
LEMMA CallCodes ==
    ASSUME NEW k \in AllCalls, k # Idle
    PROVE  /\ k.code \in Statuses
           /\ k.op \in {"header", "body", "flush"}
           /\ k.op = "body" => k.code = 200
BY DEF AllCalls, Calls, Header, Body, Flush, Statuses

LEMMA CodeTypes == Statuses \subseteq Nat \ {0}
BY AccessAssumption DEF Statuses

\* Sending keeps to the statuses.
LEMMA SendType ==
    ASSUME NEW old \in Statuses \cup {0}, NEW code \in Statuses
    PROVE  Send(old, code) \in Statuses \cup {0}
BY DEF Send

\* Who is inside a call is making one, and only a Write comes to the body.
InCall == {"store", "header", "body"}
CallInv ==
    \A w \in Writers : /\ pc[w] \in InCall => call[w] # Idle
                       /\ pc[w] = "body" => call[w].op = "body"

LEMMA FinalIsSent == \A old : \A code \in {200, 500} : Send(old, code) # 0
BY DEF Send, Informational

LEMMA TypeInit == Init => TypeOK /\ CallInv
<1> SUFFICES ASSUME Init PROVE TypeOK /\ CallInv OBVIOUS
<1>1. SetupType BY DEF Init, SetupType
<1>2. WriterType BY DEF Init, WriterType
<1>3. ResponseType BY DEF Init, NewWriter, ResponseType, Statuses
<1>4. PastType BY DEF Init, PastType
<1>5. CallInv BY DEF Init, CallInv, InCall
<1> QED BY <1>1, <1>2, <1>3, <1>4, <1>5 DEF TypeOK

LEMMA EnterType ==
    ASSUME TypeOK, NEW w \in Writers, NEW k \in AllCalls, Enter(w, k), k # Idle
    PROVE  TypeOK'
<1>1. k.code \in Statuses /\ k.op \in {"header", "body"}
  BY CallCodes DEF Enter
<1>2. [by |-> w, op |-> k.op, code |-> k.code] \in Past BY <1>1 DEF Past
<1>3. PastType'
  BY <1>1, <1>2, SendType DEF Enter, TypeOK, PastType
<1>4. WriterType'
  <2>1. AfterFlag(k) \in {"store", "header", "body"} BY <1>1 DEF AfterFlag
  <2>2. pc' = [pc EXCEPT ![w] = AfterFlag(k)] BY DEF Enter, Goto
  <2> QED BY <2>1, <2>2 DEF Enter, TypeOK, WriterType, AllCalls
<1>5. SetupType' /\ ResponseType'
  BY DEF Enter, TypeOK, SetupType, ResponseType, setup, client, logs
<1> QED BY <1>3, <1>4, <1>5 DEF TypeOK

LEMMA TypeStep == TypeOK /\ CallInv /\ [Next]_vars => TypeOK'
<1> SUFFICES ASSUME TypeOK, CallInv, [Next]_vars PROVE TypeOK' OBVIOUS
<1> USE DEF TypeOK, SetupType, WriterType, ResponseType, PastType, Goto,
            setup, counter, client, logs, past
<1>0. {200, 500} \subseteq Statuses /\ Main \in Writers BY DEF Statuses, Writers
<1>1. ASSUME NEW w \in Writers, NEW k \in Calls \cup {Header(503), Header(204)},
             Enter(w, k)
      PROVE  TypeOK'
  <2>1. k \in AllCalls /\ k # Idle
    BY DEF AllCalls, Calls, Header, Body, Flush, Idle
  <2> QED BY <1>1, <2>1, EnterType
<1>2. ASSUME NEW w \in Writers, StoreStatus(w) \/ PassHeader(w) PROVE TypeOK'
  <2>1. pc[w] \in InCall BY <1>2 DEF StoreStatus, PassHeader, InCall
  <2>2. call[w].code \in Statuses BY <2>1, CallCodes DEF CallInv, AllCalls
  <2>3. CASE StoreStatus(w) BY <2>2, <2>3 DEF StoreStatus
  <2>4. CASE PassHeader(w)
    <3>1. wire' \in Statuses \cup {0} BY <2>2, <2>4, SendType DEF PassHeader
    <3> QED BY <2>4, <3>1 DEF PassHeader
  <2> QED BY <1>2, <2>3, <2>4
<1>3. ASSUME NEW w \in Writers, PassBody(w) PROVE TypeOK'
  <2>1. wire' \in Statuses \cup {0} BY <1>0, <1>3, SendType DEF PassBody
  <2>2. PICK n \in {0, 1} : /\ accepted' = [accepted EXCEPT ![w] = n]
                            /\ sent' = sent + n
    BY <1>3 DEF PassBody
  <2> QED BY <1>3, <2>1, <2>2 DEF PassBody
<1>4. ASSUME NEW w \in Writers, CountBytes(w) PROVE TypeOK'
  <2>1. accepted[w] \in Nat OBVIOUS
  <2>2. bytes' \in Nat BY <1>4, <2>1 DEF CountBytes
  <2> QED BY <1>4, <2>2 DEF CountBytes
<1>5. ASSUME NEW w \in Writers, PassFlush(w) PROVE TypeOK'
  <2>1. wire' \in Statuses \cup {0} /\ asked' \in Statuses \cup {0}
    <3>1. Send(wire, 200) \in Statuses \cup {0} BY <1>0, SendType
    <3>2. Send(asked, 200) \in Statuses \cup {0} BY <1>0, SendType
    <3> QED BY <1>5, <3>1, <3>2 DEF PassFlush
  <2>2. history' \subseteq Past
    <3> DEFINE op == IF wire = 0 THEN "early flush" ELSE "flush"
    <3>1. history' = history \cup {[by |-> w, op |-> op, code |-> 200]}
      BY <1>5 DEF PassFlush
    <3>2. op \in {"early flush", "flush"} OBVIOUS
    <3> HIDE DEF op
    <3>3. [by |-> w, op |-> op, code |-> 200] \in Past BY <1>0, <3>2 DEF Past
    <3> QED BY <3>1, <3>3 DEF PastType
  <2>3. made' \in [Writers -> Nat]
    <3>1. made[w] + 1 \in Nat OBVIOUS
    <3>2. made' = [made EXCEPT ![w] = made[w] + 1] BY <1>5 DEF PassFlush
    <3> QED BY <3>1, <3>2
  <2> QED BY <1>5, <2>1, <2>2, <2>3 DEF PassFlush
<1>6. CASE Return \/ Panic \/ Recover
  <2>1. CASE Return BY <1>0, <2>1 DEF Return
  <2>2. CASE Panic BY <1>0, <2>2 DEF Panic
  <2>3. CASE Recover BY <1>0, <2>3 DEF Recover
  <2> QED BY <1>6, <2>1, <2>2, <2>3
<1>7. CASE LogLine
  <2>1. AccessLine \in Lines BY DEF AccessLine, Lines, Level, RequestID
  <2> QED BY <1>0, <1>7, <2>1 DEF LogLine
<1>8. CASE RecoverHeader \/ Finish
  <2>1. wire' \in Statuses \cup {0}
    BY <1>0, <1>8, SendType DEF RecoverHeader, Finish
  <2> QED BY <1>0, <1>8, <2>1 DEF RecoverHeader, Finish
<1>9. CASE UNCHANGED vars BY <1>9 DEF vars
<1> QED
  BY <1>1, <1>2, <1>3, <1>4, <1>5, <1>6, <1>7, <1>8, <1>9 DEF Next, Chain, Wrapper

LEMMA CallStep == TypeOK /\ CallInv /\ [Next]_vars => CallInv'
<1> SUFFICES ASSUME TypeOK, CallInv, [Next]_vars PROVE CallInv' OBVIOUS
<1> USE DEF TypeOK, WriterType, CallInv, InCall, Goto
<1>1. ASSUME NEW w \in Writers, NEW k \in Calls \cup {Header(503), Header(204)},
             Enter(w, k)
      PROVE  CallInv'
  <2>1. k # Idle BY DEF Calls, Header, Body, Flush, Idle
  <2>2. pc' = [pc EXCEPT ![w] = AfterFlag(k)] /\ call' = [call EXCEPT ![w] = k]
    BY <1>1 DEF Enter
  <2>3. AfterFlag(k) = "body" => k.op = "body" BY DEF AfterFlag
  <2> QED BY <2>1, <2>2, <2>3
<1>2. ASSUME NEW w \in Writers, StoreStatus(w) \/ PassHeader(w) PROVE CallInv'
  BY <1>2 DEF StoreStatus, PassHeader
<1>3. ASSUME NEW w \in Writers, PassBody(w) \/ CountBytes(w) PROVE CallInv'
  BY <1>3 DEF PassBody, CountBytes
<1>4. ASSUME NEW w \in Writers, PassFlush(w) PROVE CallInv'
  BY <1>4 DEF PassFlush
<1>5. CASE Chain
  <2>1. call' = call
    BY <1>5 DEF Chain, Return, LogLine, Panic, Recover, RecoverHeader, Finish
  <2>2. \A w \in Writers : pc'[w] \in InCall => pc'[w] = pc[w]
    <3>1. CASE Return \/ Finish BY <3>1 DEF Return, Finish
    <3>2. CASE LogLine \/ Panic \/ Recover \/ RecoverHeader
      BY <3>2 DEF LogLine, Panic, Recover, RecoverHeader
    <3> QED BY <1>5, <3>1, <3>2 DEF Chain
  <2> QED BY <2>1, <2>2
<1>6. CASE UNCHANGED vars BY <1>6 DEF vars
<1> QED BY <1>1, <1>2, <1>3, <1>4, <1>5, <1>6 DEF Next, Wrapper

-----------------------------------------------------------------------------
(***************************************************************************)
(* One trace of each request.                                              *)
(***************************************************************************)

\* Where the goroutines are decides what has been logged, and once the handler
\* has returned nobody writes.
TraceInv ==
    /\ \A h \in Helpers : pc[h] \in InCall \cup {"run", "count", "left"}
    /\ pc[Main] # "left"
    /\ line # NoLine => pc[Main] \in {"finish", "ended"} /\ ~reported
    /\ pc[Main] \in {"finish", "ended"} => (reported <=> line = NoLine)
    /\ reported => pc[Main] \in {"http.Error", "finish", "ended"}
    /\ pc[Main] = "http.Error" => reported
    /\ pc[Main] = "log" \/ line # NoLine => \A h \in Helpers : pc[h] = "left"

LEMMA MainApart == Main \in Writers /\ \A h \in Helpers : h \in Writers /\ h # Main
BY AccessAssumption DEF Writers

\* A step inside a call moves its goroutine from one place of a call to another.
LEMMA WrapperMoves ==
    ASSUME TypeOK, NEW w \in Writers, Wrapper(w)
    PROVE  /\ pc[w] \in InCall \cup {"run", "count"}
           /\ \E place \in InCall \cup {"run", "count"} : pc' = [pc EXCEPT ![w] = place]
           /\ UNCHANGED logs
<1> USE DEF TypeOK, WriterType, InCall, Goto
<1>1. ASSUME NEW k \in Calls \cup {Header(503), Header(204)}, Enter(w, k)
      PROVE  /\ pc[w] = "run"
             /\ \E place \in InCall : pc' = [pc EXCEPT ![w] = place]
             /\ UNCHANGED logs
  <2>1. AfterFlag(k) \in InCall
    BY <1>1 DEF Enter, AfterFlag, Calls, Header, Body, Flush
  <2> QED BY <1>1, <2>1 DEF Enter
<1>2. CASE StoreStatus(w) BY <1>2 DEF StoreStatus
<1>3. CASE PassHeader(w) BY <1>3 DEF PassHeader
<1>4. CASE PassBody(w) BY <1>4 DEF PassBody
<1>5. CASE CountBytes(w) BY <1>5 DEF CountBytes
<1>6. CASE PassFlush(w)
  <2>1. pc' = [pc EXCEPT ![w] = "run"] BY <1>6 DEF PassFlush
  <2> QED BY <1>6, <2>1 DEF PassFlush
<1> QED BY <1>1, <1>2, <1>3, <1>4, <1>5, <1>6 DEF Wrapper

LEMMA TraceStep == TypeOK /\ TraceInv /\ [Next]_vars => TraceInv'
<1> SUFFICES ASSUME TypeOK, TraceInv, [Next]_vars PROVE TraceInv' OBVIOUS
<1> USE MainApart DEF TypeOK, WriterType, TraceInv, Goto
<1>1. ASSUME NEW w \in Writers, Wrapper(w) PROVE TraceInv'
  <2>1. PICK place \in InCall \cup {"run", "count"} : pc' = [pc EXCEPT ![w] = place]
    BY <1>1, WrapperMoves
  <2>2. pc[w] \in InCall \cup {"run", "count"} /\ UNCHANGED logs
    BY <1>1, WrapperMoves
  <2>3. CASE w = Main BY <2>1, <2>2, <2>3 DEF logs, InCall
  <2>4. CASE w \in Helpers BY <2>1, <2>2, <2>4 DEF logs, InCall
  <2> QED BY <2>3, <2>4 DEF Writers
<1>2. CASE Return BY <1>2 DEF Return, logs, Writers
<1>3. CASE LogLine
  <2>1. AccessLine # NoLine BY DEF AccessLine, NoLine, Level
  <2> QED BY <1>3, <2>1 DEF LogLine
<1>4. CASE Panic BY <1>4 DEF Panic, logs
<1>5. CASE Recover BY <1>5 DEF Recover
<1>6. CASE RecoverHeader BY <1>6 DEF RecoverHeader, logs
<1>7. CASE Finish BY <1>7 DEF Finish, logs, Writers
<1>8. CASE UNCHANGED vars BY <1>8 DEF vars, logs
<1> QED BY <1>1, <1>2, <1>3, <1>4, <1>5, <1>6, <1>7, <1>8 DEF Next, Chain

\* While anybody writes, nothing has been logged and the handler has not left.
LEMMA WriterActive ==
    ASSUME TypeOK, TraceInv, NEW w \in Writers, Wrapper(w)
    PROVE  line = NoLine /\ line' = NoLine /\ pc'[Main] # "log"
<1> USE MainApart DEF TypeOK, WriterType, TraceInv, InCall
<1>1. PICK place \in InCall \cup {"run", "count"} : pc' = [pc EXCEPT ![w] = place]
  BY WrapperMoves
<1>2. pc[w] \in InCall \cup {"run", "count"} /\ UNCHANGED logs BY WrapperMoves
<1>3. line = NoLine
  <2>1. CASE w = Main BY <1>2, <2>1
  <2>2. CASE w \in Helpers BY <1>2, <2>2
  <2> QED BY <2>1, <2>2 DEF Writers
<1>4. pc'[Main] # "log"
  <2>1. CASE w = Main BY <1>1, <2>1
  <2>2. CASE w \in Helpers BY <1>1, <1>2, <2>2
  <2> QED BY <2>1, <2>2 DEF Writers
<1> QED BY <1>2, <1>3, <1>4 DEF logs

-----------------------------------------------------------------------------
(***************************************************************************)
(* The bytes.                                                              *)
(***************************************************************************)

\* What net/http has accepted and the wrapper has not counted yet.
Uncounted == {w \in Writers : accepted[w] = 1}

BytesInv ==
    /\ \A w \in Writers : accepted[w] = 1 => pc[w] \in {"count", "left"}
    /\ line # NoLine \/ pc[Main] = "log" => Uncounted = {}
    /\ sent = bytes + Cardinality(Uncounted)
    /\ line # NoLine => line.bytes = bytes

LEMMA WritersFinite == ASSUME NEW S \in SUBSET Writers
                       PROVE  IsFiniteSet(S) /\ Cardinality(S) \in Nat
<1>1. IsFiniteSet(Writers) BY AccessAssumption, FS_AddElement DEF Writers
<1>2. IsFiniteSet(S) BY <1>1, FS_Subset
<1> QED BY <1>2, FS_CardinalityType

LEMMA BytesStep == TypeOK /\ TraceInv /\ BytesInv /\ [Next]_vars => BytesInv'
<1> SUFFICES ASSUME TypeOK, TraceInv, BytesInv, [Next]_vars PROVE BytesInv' OBVIOUS
<1> USE DEF TypeOK, WriterType
<1>0. bytes \in Nat /\ sent \in Nat BY DEF ResponseType
<1>1. ASSUME UNCHANGED <<accepted, bytes, sent, line>>,
             \A w \in Writers : pc[w] \in {"count", "left"} => pc'[w] \in {"count", "left"},
             line # NoLine \/ pc'[Main] = "log" => Uncounted = {}
      PROVE  BytesInv'
  <2>1. Uncounted' = Uncounted BY <1>1 DEF Uncounted
  <2> QED BY <1>1, <2>1 DEF BytesInv
<1>2. ASSUME NEW w \in Writers, \E k \in Calls \cup {Header(503), Header(204)} : Enter(w, k)
      PROVE  BytesInv'
  <2>1. line = NoLine /\ pc'[Main] # "log" BY <1>2, WriterActive DEF Wrapper
  <2> QED BY <1>1, <1>2, <2>1 DEF Enter, Goto, client, logs
<1>3. ASSUME NEW w \in Writers, StoreStatus(w) \/ PassHeader(w) \/ PassFlush(w)
      PROVE  BytesInv'
  <2>1. line = NoLine /\ pc'[Main] # "log" BY <1>3, WriterActive DEF Wrapper
  <2>2. UNCHANGED <<accepted, bytes, sent, line>>
    BY <1>3 DEF StoreStatus, PassHeader, PassFlush, client, logs, counter
  <2>3. \A v \in Writers : pc[v] \in {"count", "left"} => pc'[v] \in {"count", "left"}
    <3>1. CASE StoreStatus(w) BY <3>1 DEF StoreStatus, Goto
    <3>2. CASE PassHeader(w) BY <3>2 DEF PassHeader, Goto
    <3>3. CASE PassFlush(w) BY <3>3 DEF PassFlush
    <3> QED BY <1>3, <3>1, <3>2, <3>3
  <2> QED BY <1>1, <2>1, <2>2, <2>3
<1>4. ASSUME NEW w \in Writers, PassBody(w) PROVE BytesInv'
  <2>1. PICK n \in {0, 1} : /\ accepted' = [accepted EXCEPT ![w] = n]
                            /\ sent' = sent + n
    BY <1>4 DEF PassBody
  <2>2. w \notin Uncounted BY <1>4 DEF PassBody, BytesInv, Uncounted
  <2>3. Cardinality(Uncounted') = Cardinality(Uncounted) + n
    <3>1. CASE n = 0
      <4>1. Uncounted' = Uncounted BY <2>1, <2>2, <3>1 DEF Uncounted
      <4> QED BY <3>1, <4>1, WritersFinite DEF Uncounted
    <3>2. CASE n = 1
      <4>1. Uncounted' = Uncounted \cup {w} BY <2>1, <3>2 DEF Uncounted
      <4>2. IsFiniteSet(Uncounted) BY WritersFinite DEF Uncounted
      <4> QED BY <2>2, <3>2, <4>1, <4>2, FS_AddElement
    <3> QED BY <3>1, <3>2
  <2>4. sent' = bytes + Cardinality(Uncounted)'
    <3>1. Cardinality(Uncounted) \in Nat BY WritersFinite DEF Uncounted
    <3> QED BY <1>0, <2>1, <2>3, <3>1 DEF BytesInv
  <2>5. \A v \in Writers : accepted'[v] = 1 => pc'[v] \in {"count", "left"}
    BY <1>4, <2>1 DEF PassBody, BytesInv, Goto
  <2>6. line' = NoLine /\ pc'[Main] # "log" BY <1>4, WriterActive DEF Wrapper
  <2> QED BY <1>4, <2>4, <2>5, <2>6 DEF PassBody, BytesInv, counter
<1>5. ASSUME NEW w \in Writers, CountBytes(w) PROVE BytesInv'
  <2>2. accepted' = [accepted EXCEPT ![w] = 0] /\ bytes' = bytes + accepted[w]
    BY <1>5 DEF CountBytes
  <2>3. Cardinality(Uncounted) = Cardinality(Uncounted') + accepted[w]
    <3>1. CASE accepted[w] = 0
      <4>1. Uncounted' = Uncounted BY <2>2, <3>1 DEF Uncounted
      <4> QED BY <3>1, <4>1, WritersFinite DEF Uncounted
    <3>2. CASE accepted[w] = 1
      <4>1. Uncounted' = Uncounted \ {w} BY <2>2, <3>2 DEF Uncounted
      <4>2. w \in Uncounted BY <3>2 DEF Uncounted
      <4>3. IsFiniteSet(Uncounted) /\ Cardinality(Uncounted) \in Nat
        BY WritersFinite DEF Uncounted
      <4>4. Cardinality(Uncounted \ {w}) = Cardinality(Uncounted) - 1
        BY <4>2, <4>3, FS_RemoveElement
      <4> QED BY <3>2, <4>1, <4>3, <4>4
    <3> QED BY <3>1, <3>2
  <2>4. sent' = bytes' + Cardinality(Uncounted)'
    <3>1. Cardinality(Uncounted') \in Nat
      <4>1. Uncounted' \subseteq Writers BY DEF Uncounted
      <4> QED BY <4>1, WritersFinite
    <3>2. accepted[w] \in Nat OBVIOUS
    <3>3. sent' = sent BY <1>5 DEF CountBytes, client
    <3> QED BY <1>0, <2>2, <2>3, <3>1, <3>2, <3>3 DEF BytesInv
  <2>5. \A v \in Writers : accepted'[v] = 1 => pc'[v] \in {"count", "left"}
    BY <1>5, <2>2 DEF CountBytes, BytesInv, Goto
  <2>6. line' = NoLine /\ pc'[Main] # "log" BY <1>5, WriterActive DEF Wrapper
  <2> QED BY <2>4, <2>5, <2>6 DEF BytesInv
<1>6. CASE LogLine
  <2>1. AccessLine.bytes = bytes BY DEF AccessLine
  <2>2. Uncounted' = Uncounted BY <1>6 DEF LogLine, Uncounted
  <2> QED BY <1>6, <2>1, <2>2 DEF LogLine, BytesInv, Goto, counter, client
<1>7. CASE Return
  <2>1. \A w \in Writers : pc[w] = "run" BY <1>7 DEF Return, Writers
  <2>2. Uncounted = {} BY <2>1 DEF BytesInv, Uncounted
  <2> QED BY <1>1, <1>7, <2>1, <2>2 DEF Return, counter, client, logs
<1>8. CASE Finish
  <2>1. \A w \in Writers : pc[w] \in {"count", "left"} => pc'[w] = "left"
    BY <1>8 DEF Finish
  <2>2. pc'[Main] # "log" BY <1>8, MainApart DEF Finish
  <2> QED BY <1>1, <1>8, <2>1, <2>2 DEF Finish, BytesInv, counter, logs
<1>9. CASE Panic \/ Recover \/ RecoverHeader
  BY <1>1, <1>9, MainApart DEF BytesInv, Panic, Recover, RecoverHeader, Goto, counter, client, logs
<1>10. CASE UNCHANGED vars BY <1>1, <1>10 DEF BytesInv, vars, counter, client, logs
<1> QED
  BY <1>2, <1>3, <1>4, <1>5, <1>6, <1>7, <1>8, <1>9, <1>10 DEF Next, Chain, Wrapper
-----------------------------------------------------------------------------
(***************************************************************************)
(* One writer: the wire under the wrapper and without it.                  *)
(***************************************************************************)

\* Between two calls the wire shows what was asked for; inside one, what it will
\* show when the call has been passed on.
Ahead ==
    /\ pc[Main] \in InCall => asked = Send(wire, call[Main].code)
    /\ pc[Main] \in {"run", "count", "log", "recover", "http.Error", "aborted"}
         => wire = asked
    /\ pc[Main] = "finish" => wire = IF reported THEN Send(asked, 500) ELSE asked
    /\ pc[Main] = "ended" => wire = Send(asked, IF reported THEN 500 ELSE 200)

WireInv ==
    /\ \A h \in Helpers : pc[h] \in InCall \cup {"count"} => \E g \in history : g.by = h
    /\ SoleWriter => Ahead

LEMMA HistoryGrows == [Next]_vars => history \subseteq history'
<1>1. Chain => history' = history
  BY DEF Chain, Return, LogLine, Panic, Recover, RecoverHeader, Finish, past
<1>2. ASSUME NEW w \in Writers, Wrapper(w) PROVE history \subseteq history'
  <2>1. CASE \E k \in Calls \cup {Header(503), Header(204)} : Enter(w, k)
    BY <2>1 DEF Enter
  <2>2. CASE PassFlush(w) BY <2>2 DEF PassFlush
  <2>3. CASE StoreStatus(w) \/ PassHeader(w) \/ PassBody(w) \/ CountBytes(w)
    BY <2>3 DEF StoreStatus, PassHeader, PassBody, CountBytes, past
  <2> QED BY <1>2, <2>1, <2>2, <2>3 DEF Wrapper
<1> QED BY <1>1, <1>2 DEF Next, vars, past

\* Whoever is inside a call has made one.
LEMMA CallersStep ==
    ASSUME TypeOK, WireInv, NEW w \in Writers, Wrapper(w)
    PROVE  /\ w \in Helpers => \E g \in history' : g.by = w
           /\ \A h \in Helpers : pc'[h] \in InCall \cup {"count"} => \E g \in history' : g.by = h
<1>1. history \subseteq history' BY HistoryGrows DEF Next
<1>2. w \in Helpers => \E g \in history' : g.by = w
  <2>1. ASSUME NEW k \in Calls \cup {Header(503), Header(204)}, Enter(w, k)
        PROVE  \E g \in history' : g.by = w
    <3>1. [by |-> w, op |-> k.op, code |-> k.code] \in history' BY <2>1 DEF Enter
    <3> QED BY <3>1
  <2>2. CASE PassFlush(w)
    <3>1. PICK op \in {"early flush", "flush"} :
             [by |-> w, op |-> op, code |-> 200] \in history'
      BY <2>2 DEF PassFlush
    <3> QED BY <3>1
  <2>3. CASE StoreStatus(w) \/ PassHeader(w) \/ PassBody(w) \/ CountBytes(w)
    <3>1. pc[w] \in InCall \cup {"count"}
      BY <2>3 DEF StoreStatus, PassHeader, PassBody, CountBytes, InCall
    <3> QED BY <1>1, <3>1 DEF WireInv
  <2> QED BY <2>1, <2>2, <2>3 DEF Wrapper
<1>3. PICK place \in InCall \cup {"run", "count"} : pc' = [pc EXCEPT ![w] = place]
  BY WrapperMoves
<1> QED BY <1>1, <1>2, <1>3, MainApart DEF WireInv, TypeOK, WriterType

\* The call somebody is inside of.
LEMMA CallTyped ==
    ASSUME TypeOK, CallInv, NEW w \in Writers, pc[w] \in InCall
    PROVE  /\ call[w].code \in Nat \ {0}
           /\ call[w].op = "body" => call[w].code = 200
<1>1. call[w] \in AllCalls BY DEF TypeOK, WriterType, AllCalls
<1>2. call[w] # Idle BY DEF CallInv
<1>3. call[w].code \in Statuses /\ (call[w].op = "body" => call[w].code = 200)
  BY <1>1, <1>2, CallCodes
<1> QED BY <1>3, CodeTypes

LEMMA AheadStep ==
    ASSUME TypeOK, CallInv, Ahead, Wrapper(Main)
    PROVE  Ahead'
<1>0. pc[Main] \in InCall => call[Main].code \in Nat \ {0}
  BY MainApart, CallTyped
<1> USE MainApart DEF TypeOK, WriterType, InCall, Goto, Ahead
<1>1. ASSUME NEW k \in Calls \cup {Header(503), Header(204)}, Enter(Main, k)
      PROVE  Ahead'
  <2>1. AfterFlag(k) \in InCall
    BY <1>1 DEF Enter, AfterFlag, Calls, Header, Body, Flush
  <2> QED BY <1>1, <2>1 DEF Enter, client
<1>2. CASE StoreStatus(Main) BY <1>2 DEF StoreStatus, client, past
<1>3. CASE PassHeader(Main)
  <2>1. wire' = asked BY <1>3 DEF PassHeader
  <2>2. CASE call[Main].op = "body"
    <3>1. call[Main].code = 200 BY <1>3, <2>2, CallCodes DEF PassHeader, CallInv, AllCalls
    <3>2. asked = Send(asked, 200) BY <1>3, <3>1 DEF PassHeader, Send, Informational
    <3> QED BY <1>3, <2>1, <2>2, <3>1, <3>2 DEF PassHeader, past
  <2>3. CASE call[Main].op # "body" BY <1>3, <2>1, <2>3 DEF PassHeader, past
  <2> QED BY <2>2, <2>3
<1>4. CASE PassBody(Main)
  <2>1. call[Main].code = 200 BY <1>4, CallCodes DEF PassBody, CallInv, AllCalls
  <2> QED BY <1>4, <2>1 DEF PassBody, past
<1>5. CASE CountBytes(Main) BY <1>5 DEF CountBytes, client, past
<1>6. CASE PassFlush(Main) BY <1>6 DEF PassFlush
<1> QED BY <1>1, <1>2, <1>3, <1>4, <1>5, <1>6 DEF Wrapper

LEMMA WireStep ==
    TypeOK /\ CallInv /\ TraceInv /\ WireInv /\ [Next]_vars => WireInv'
<1> SUFFICES ASSUME TypeOK, CallInv, TraceInv, WireInv, [Next]_vars PROVE WireInv'
  OBVIOUS
<1>1. SoleWriter' => SoleWriter BY HistoryGrows DEF SoleWriter
<1>2. ASSUME NEW w \in Writers, Wrapper(w) PROVE WireInv'
  <2>1. CASE w \in Helpers
    <3>1. ~SoleWriter' BY <1>2, <2>1, CallersStep, MainApart DEF SoleWriter
    <3> QED BY <1>2, <3>1, CallersStep DEF WireInv
  <2>2. CASE w = Main BY <1>1, <1>2, <2>2, CallersStep, AheadStep DEF WireInv
  <2> QED BY <2>1, <2>2 DEF Writers
<1>3. ASSUME UNCHANGED past,
             \A h \in Helpers : pc'[h] \in InCall \cup {"count"} => pc'[h] = pc[h],
             Ahead => Ahead'
      PROVE  WireInv'
  BY <1>1, <1>3 DEF WireInv, past
<1> USE MainApart DEF TypeOK, WriterType, Goto, Ahead, InCall
<1>4. CASE Return BY <1>3, <1>4 DEF Return, client, logs, past
<1>5. CASE LogLine BY <1>3, <1>5 DEF LogLine, TraceInv, client, past
<1>6. CASE Panic BY <1>3, <1>6 DEF Panic, client, logs, past
<1>7. CASE Recover BY <1>3, <1>7 DEF Recover, client, past
<1>8. CASE RecoverHeader BY <1>3, <1>8 DEF RecoverHeader, TraceInv, logs, past
<1>9. CASE Finish
  <2>1. Send(Send(asked, 500), 200) = Send(asked, 500)
    <3>1. Send(asked, 500) # 0 BY DEF Send, Informational
    <3> QED BY <3>1 DEF Send
  <2> QED BY <1>3, <1>9, <2>1 DEF Finish, logs, past
<1>10. CASE UNCHANGED vars BY <1>3, <1>10 DEF vars, client, logs, past
<1> QED BY <1>2, <1>4, <1>5, <1>6, <1>7, <1>8, <1>9, <1>10 DEF Next, Chain
-----------------------------------------------------------------------------
(***************************************************************************)
(* The status: of one plain writer.                                        *)
(***************************************************************************)

\* The first call decides, both what is kept and what is asked for.
Kept ==
    /\ ~wrote => status = 200 /\ asked = 0 /\ pc[Main] # "store"
    /\ wrote => asked # 0
    /\ wrote /\ pc[Main] = "store" => asked = call[Main].code
    /\ wrote /\ pc[Main] # "store" => status = asked
PlainInv == Plain => Kept

LEMMA PlainStep ==
    TypeOK /\ CallInv /\ TraceInv /\ WireInv /\ PlainInv /\ [Next]_vars => PlainInv'
<1> SUFFICES ASSUME TypeOK, CallInv, TraceInv, WireInv, PlainInv, [Next]_vars, Plain'
             PROVE  Kept'
  BY DEF PlainInv
<1>1. Plain /\ SoleWriter'
  BY HistoryGrows DEF Plain, SoleWriter
<1>2. Kept BY <1>1 DEF PlainInv
<1>3. ASSUME NEW w \in Helpers, Wrapper(w) PROVE FALSE
  <2>1. w \in Writers /\ w # Main BY MainApart
  <2>2. \E g \in history' : g.by = w BY <1>3, <2>1, CallersStep
  <2> QED BY <1>1, <2>1, <2>2 DEF SoleWriter
<1> USE MainApart DEF TypeOK, WriterType, Goto
<1>4. ASSUME NEW k \in Calls \cup {Header(503), Header(204)}, Enter(Main, k)
      PROVE  Kept'
  <2>1. [by |-> Main, op |-> k.op, code |-> k.code] \in history'
    <3>1. history' = history \cup {[by |-> Main, op |-> k.op, code |-> k.code]}
      BY <1>4 DEF Enter
    <3> QED BY <3>1
  <2>2. ~Informational(k.code) BY <1>1, <2>1 DEF Plain
  <2>3. k.code \in Nat \ {0}
    <3>1. k \in AllCalls /\ k # Idle
      BY DEF AllCalls, Calls, Header, Body, Flush, Idle
    <3>2. k.code \in Statuses BY <3>1, CallCodes
    <3> QED BY <3>2, CodeTypes
  <2>4. k.op \in {"header", "body"} BY <1>4 DEF Enter, Calls, Header, Body, Flush
  <2>5. asked' = IF asked = 0 THEN k.code ELSE asked BY <1>4, <2>2 DEF Enter, Send
  <2>6. /\ wrote' /\ status' = status
        /\ pc[Main] = "run" /\ pc'[Main] = AfterFlag(k) /\ call'[Main] = k
    BY <1>4 DEF Enter
  <2>7. CASE wrote
    <3>1. pc'[Main] # "store" BY <2>4, <2>6, <2>7 DEF AfterFlag
    <3> QED BY <1>2, <2>5, <2>6, <2>7, <3>1 DEF Kept
  <2>8. CASE ~wrote
    <3>1. pc'[Main] = "store" BY <2>6, <2>8 DEF AfterFlag
    <3>2. asked' = k.code BY <1>2, <2>5, <2>8 DEF Kept
    <3> QED BY <2>3, <2>6, <3>1, <3>2 DEF Kept
  <2> QED BY <2>7, <2>8 DEF PastType, ResponseType
<1>5. CASE StoreStatus(Main)
  BY <1>2, <1>5 DEF StoreStatus, Kept, past
<1>6. CASE PassHeader(Main) \/ PassBody(Main) \/ CountBytes(Main)
  BY <1>2, <1>6 DEF PassHeader, PassBody, CountBytes, Kept, counter, past
<1>7. CASE PassFlush(Main)
  <2>1. PICK op \in {"early flush", "flush"} :
           /\ op = IF wire = 0 THEN "early flush" ELSE "flush"
           /\ [by |-> Main, op |-> op, code |-> 200] \in history'
    BY <1>7 DEF PassFlush
  <2>2. op # "early flush" BY <1>1, <2>1 DEF Plain
  <2>3. wire # 0 BY <2>1, <2>2
  <2>4. wire = asked BY <1>1, <1>7 DEF PassFlush, WireInv, Ahead, Plain
  <2>5. asked' = asked BY <1>7, <2>3, <2>4 DEF PassFlush, Send
  <2> QED BY <1>2, <1>7, <2>5 DEF PassFlush, Kept, counter
<1>8. CASE Chain
  BY <1>2, <1>8
     DEF Chain, Return, LogLine, Panic, Recover, RecoverHeader, Finish, Kept, counter, past
<1>9. CASE UNCHANGED vars BY <1>2, <1>9 DEF vars, Kept, counter, past
<1> QED
  BY <1>3, <1>4, <1>5, <1>6, <1>7, <1>8, <1>9 DEF Next, Wrapper, Writers

-----------------------------------------------------------------------------
(***************************************************************************)
(* The status: of several writers that agree.                              *)
(***************************************************************************)

\* What is kept and what is sent are codes of calls that were made; and until
\* something is sent, only calls that are under way and informational ones have
\* been made.
Sources ==
    /\ ~wrote => status = 200 /\ \A h \in Decisive : h.code = 200 /\ wire # 0
    /\ wrote /\ ~reported => \/ \E w \in Writers : pc[w] = "store"
                            \/ \E h \in Decisive : h.code = status
InFlight ==
    /\ \A w \in Writers : pc[w] \in InCall =>
          \E h \in Decisive : h.by = w /\ h.code = call[w].code
    /\ wire # 0 /\ ~reported /\ pc[Main] # "ended" => \E h \in Decisive : h.code = wire
    /\ wire = 0 => \A h \in Decisive :
          Informational(h.code) \/ (pc[h.by] \in InCall /\ call[h.by].code = h.code)

LEMMA DecisiveGrows == [Next]_vars => Decisive \subseteq Decisive'
BY HistoryGrows DEF Decisive

LEMMA DecisiveTypes ==
    ASSUME TypeOK, NEW h \in Decisive
    PROVE  h.by \in Writers /\ h.code \in Statuses
BY DEF TypeOK, PastType, Past, Decisive
\* A call that is entered is decisive; a Flush is when it sends the header.
LEMMA EnterDecides ==
    ASSUME NEW w \in Writers, NEW k \in Calls \cup {Header(503), Header(204)}, Enter(w, k)
    PROVE  \E r : /\ Decisive' = Decisive \cup {r}
                 /\ r.by = w /\ r.code = k.code
<1> DEFINE r == [by |-> w, op |-> k.op, code |-> k.code]
<1>1. history' = history \cup {r} /\ r.op # "flush" BY DEF Enter
<1>2. Decisive' = Decisive \cup {r} BY <1>1 DEF Decisive
<1>3. r.by = w /\ r.code = k.code OBVIOUS
<1> HIDE DEF r
<1> QED BY <1>2, <1>3

LEMMA FlushDecides ==
    ASSUME NEW w \in Writers, PassFlush(w)
    PROVE  /\ wire # 0 => Decisive' = Decisive
           /\ wire = 0 => \E r : /\ Decisive' = Decisive \cup {r}
                                /\ r.by = w /\ r.code = 200
<1>1. CASE wire # 0
  <2>1. history' = history \cup {[by |-> w, op |-> "flush", code |-> 200]}
    BY <1>1 DEF PassFlush
  <2> QED BY <1>1, <2>1 DEF Decisive
<1>2. CASE wire = 0
  <2> DEFINE r == [by |-> w, op |-> "early flush", code |-> 200]
  <2>1. history' = history \cup {r} /\ r.op # "flush" BY <1>2 DEF PassFlush
  <2>2. Decisive' = Decisive \cup {r} BY <2>1 DEF Decisive
  <2>3. r.by = w /\ r.code = 200 OBVIOUS
  <2> HIDE DEF r
  <2> QED BY <1>2, <2>2, <2>3
<1> QED BY <1>1, <1>2

LEMMA SourcesStep ==
    TypeOK /\ TraceInv /\ Sources /\ InFlight /\ [Next]_vars => Sources'
<1> SUFFICES ASSUME TypeOK, TraceInv, Sources, InFlight, [Next]_vars PROVE Sources'
  OBVIOUS
<1> USE MainApart DEF TypeOK, WriterType, Goto, InCall
<1>1. ASSUME NEW w \in Writers, NEW k \in Calls \cup {Header(503), Header(204)},
             Enter(w, k)
      PROVE  Sources'
  <2>1. wrote' /\ status' = status /\ reported' = reported /\ pc[w] = "run"
        /\ pc' = [pc EXCEPT ![w] = AfterFlag(k)]
    BY <1>1 DEF Enter, logs
  <2>2. CASE ~wrote
    <3>1. pc'[w] = "store" BY <2>1, <2>2 DEF AfterFlag
    <3> QED BY <2>1, <3>1 DEF Sources
  <2>3. CASE wrote
    <3>1. Decisive \subseteq Decisive' BY DecisiveGrows
    <3>2. \A v \in Writers : pc[v] = "store" => pc'[v] = "store" BY <2>1
    <3> QED BY <2>1, <2>3, <3>1, <3>2 DEF Sources
  <2> QED BY <2>2, <2>3 DEF ResponseType
<1>2. ASSUME NEW w \in Writers, StoreStatus(w) PROVE Sources'
  <2>1. PICK h \in Decisive : h.code = call[w].code BY <1>2 DEF StoreStatus, InFlight
  <2>2. status' = h.code /\ Decisive' = Decisive BY <1>2, <2>1 DEF StoreStatus, past, Decisive
  <2> QED BY <1>2, <2>1, <2>2 DEF StoreStatus, Sources, client, logs
<1>3. ASSUME Decisive' = Decisive, UNCHANGED <<wrote, status>>, reported => reported',
             wire # 0 => wire' # 0, ~reported' =>
             \A w \in Writers : pc[w] = "store" => pc'[w] = "store"
      PROVE  Sources'
  BY <1>3 DEF Sources, ResponseType
<1>4. ASSUME NEW w \in Writers, PassHeader(w) \/ PassBody(w) \/ CountBytes(w)
      PROVE  Sources'
  <2>1. Decisive' = Decisive
    BY <1>4 DEF PassHeader, PassBody, CountBytes, past, Decisive
  <2>2. \A v \in Writers : pc[v] = "store" => pc'[v] = "store"
    BY <1>4 DEF PassHeader, PassBody, CountBytes
  <2>3. wire # 0 => wire' # 0
    BY <1>4 DEF PassHeader, PassBody, CountBytes, Send, client
  <2> QED
    BY <1>3, <1>4, <2>1, <2>2, <2>3
       DEF PassHeader, PassBody, CountBytes, counter, client, logs
<1>5. ASSUME NEW w \in Writers, PassFlush(w) PROVE Sources'
  <2>1. wire' # 0
    <3>1. wire' = Send(wire, 200) BY <1>5 DEF PassFlush
    <3>2. Send(wire, 200) # 0 BY FinalIsSent
    <3> QED BY <3>1, <3>2
  <2>2. CASE wire # 0
    <3>1. Decisive' = Decisive BY <1>5, <2>2, FlushDecides
    <3> QED BY <1>3, <1>5, <2>1, <3>1 DEF PassFlush, counter, logs
  <2>3. CASE wire = 0
    <3>1. PICK r : Decisive' = Decisive \cup {r} /\ r.code = 200
      BY <1>5, <2>3, FlushDecides
    <3>2. pc' = pc /\ reported' = reported /\ wrote' = wrote /\ status' = status
      BY <1>5 DEF PassFlush, counter, logs
    <3>3. Decisive \subseteq Decisive' /\ r \in Decisive' BY <3>1
    <3>4. (~wrote => status = 200 /\ \A h \in Decisive : h.code = 200 /\ wire # 0)'
      BY <2>1, <3>1, <3>2 DEF Sources
    <3>5. (wrote /\ ~reported => \/ \E v \in Writers : pc[v] = "store"
                                \/ \E h \in Decisive : h.code = status)'
      BY <3>2, <3>3 DEF Sources
    <3> QED BY <3>4, <3>5 DEF Sources
  <2> QED BY <2>2, <2>3
<1>6. CASE Return \/ LogLine \/ Panic \/ Recover \/ RecoverHeader
  <2>1. Decisive' = Decisive
    BY <1>6 DEF Return, LogLine, Panic, Recover, RecoverHeader, past, Decisive
  <2>2. UNCHANGED <<wrote, status>> /\ (reported => reported')
    BY <1>6 DEF Return, LogLine, Panic, Recover, RecoverHeader, counter, logs
  <2>3. wire # 0 => wire' # 0
    BY <1>6 DEF Return, LogLine, Panic, Recover, RecoverHeader, client, Send
  <2>4. \A w \in Writers : pc[w] = "store" => pc'[w] = "store"
    <3>1. CASE Return BY <3>1 DEF Return, Writers
    <3>2. CASE LogLine \/ Panic \/ Recover \/ RecoverHeader
      BY <3>2 DEF LogLine, Panic, Recover, RecoverHeader
    <3> QED BY <1>6, <3>1, <3>2
  <2> QED BY <1>3, <2>1, <2>2, <2>3, <2>4
<1>7. CASE Finish
  <2>1. ~reported => \A w \in Writers : pc[w] # "store"
    BY <1>7 DEF Finish, TraceInv, Writers
  <2>2. Decisive' = Decisive BY <1>7 DEF Finish, past, Decisive
  <2>3. wire # 0 => wire' # 0 BY <1>7 DEF Finish, Send
  <2> QED BY <1>3, <1>7, <2>1, <2>2, <2>3 DEF Finish, counter, logs
<1>8. CASE UNCHANGED vars
  <2>1. Decisive' = Decisive BY <1>8 DEF vars, past, Decisive
  <2> QED BY <1>3, <1>8, <2>1 DEF vars, counter, client, logs
<1> QED BY <1>1, <1>2, <1>4, <1>5, <1>6, <1>7, <1>8 DEF Next, Chain, Wrapper
LEMMA InFlightStep ==
    TypeOK /\ CallInv /\ TraceInv /\ Sources /\ InFlight /\ [Next]_vars => InFlight'
<1> SUFFICES ASSUME TypeOK, CallInv, TraceInv, Sources, InFlight, [Next]_vars
             PROVE  InFlight'
  OBVIOUS
<1>0. \A w \in Writers : pc[w] \in InCall =>
         /\ call[w].code \in Nat \ {0}
         /\ call[w].op = "body" => call[w].code = 200
  BY CallTyped
<1>h. \A h \in Decisive : h.by \in Writers /\ h.code \in Nat \ {0}
  BY DecisiveTypes, CodeTypes
<1> USE MainApart DEF TypeOK, WriterType, Goto, InCall
<1>1. ASSUME NEW w \in Writers, NEW k \in Calls \cup {Header(503), Header(204)},
             Enter(w, k)
      PROVE  InFlight'
  <2>1. /\ wire' = wire /\ reported' = reported /\ pc[w] = "run"
        /\ pc' = [pc EXCEPT ![w] = AfterFlag(k)] /\ call' = [call EXCEPT ![w] = k]
    BY <1>1 DEF Enter, logs, client
  <2>2. AfterFlag(k) \in InCall
    BY <1>1 DEF Enter, AfterFlag, Calls, Header, Body, Flush
  <2>3. PICK r : Decisive' = Decisive \cup {r} /\ r.by = w /\ r.code = k.code
    BY <1>1, EnterDecides
  <2>4. \A v \in Writers : pc'[v] \in InCall =>
           \E h \in Decisive' : h.by = v /\ h.code = call'[v].code
    BY <2>1, <2>3 DEF InFlight
  <2>5. \A h \in Decisive : h.by = w /\ wire = 0 => Informational(h.code)
    BY <2>1 DEF InFlight
  <2>6. wire = 0 => \A h \in Decisive' :
           Informational(h.code) \/ (pc'[h.by] \in InCall /\ call'[h.by].code = h.code)
    <3> SUFFICES ASSUME wire = 0, NEW h \in Decisive'
                 PROVE  Informational(h.code) \/ (pc'[h.by] \in InCall /\ call'[h.by].code = h.code)
      OBVIOUS
    <3>1. CASE h \in Decisive /\ h.by = w BY <2>5, <3>1 DEF Informational
    <3>2. CASE h \in Decisive /\ h.by # w
      <4>1. Informational(h.code) \/ (pc[h.by] \in InCall /\ call[h.by].code = h.code)
        BY <3>2 DEF InFlight
      <4>2. pc'[h.by] = pc[h.by] /\ call'[h.by] = call[h.by] BY <1>h, <2>1, <3>2
      <4> QED BY <4>1, <4>2
    <3>3. CASE h = r
      <4>1. pc'[w] \in InCall /\ call'[w] = k BY <2>1, <2>2
      <4> QED BY <2>3, <3>3, <4>1
    <3> QED BY <2>3, <3>1, <3>2, <3>3
  <2>7. wire # 0 /\ ~reported /\ pc'[Main] # "ended" => \E h \in Decisive' : h.code = wire
    BY <2>1, <2>3 DEF InFlight
  <2> QED BY <2>1, <2>4, <2>6, <2>7 DEF InFlight
<1>2. ASSUME NEW w \in Writers, StoreStatus(w) PROVE InFlight'
  <2>1. Decisive' = Decisive BY <1>2 DEF StoreStatus, past, Decisive
  <2> QED BY <1>2, <1>h, <2>1 DEF StoreStatus, InFlight, client, logs
<1>3. ASSUME NEW w \in Writers, PassHeader(w) PROVE InFlight'
  <2>1. Decisive' = Decisive BY <1>3 DEF PassHeader, past, Decisive
  <2>2. PICK g \in Decisive : g.by = w /\ g.code = call[w].code
    BY <1>3 DEF PassHeader, InFlight
  <2>3. wire' # 0 => wire' = wire \/ wire' = g.code
    BY <1>3, <2>2 DEF PassHeader, Send
  <2>4. wire' = 0 => wire = 0 /\ Informational(g.code)
    BY <1>3, <1>h, <2>2 DEF PassHeader, Send
  <2>5. \A v \in Writers : /\ pc'[v] \in InCall => pc[v] \in InCall
                           /\ v # w => pc'[v] = pc[v]
    BY <1>3 DEF PassHeader
  <2>7. wire' = 0 => \A h \in Decisive' :
           Informational(h.code) \/ (pc'[h.by] \in InCall /\ call'[h.by].code = h.code)
    <3> SUFFICES ASSUME wire' = 0, NEW h \in Decisive
                 PROVE  Informational(h.code) \/ (pc'[h.by] \in InCall /\ call'[h.by].code = h.code)
      BY <2>1
    <3>1. CASE h.by = w
      <4>1. Informational(h.code) \/ call[h.by].code = h.code BY <2>4 DEF InFlight
      <4>2. wire = 0 /\ Informational(g.code) BY <2>4
      <4>3. h.code = g.code => Informational(h.code) BY <4>2
      <4>4. call[h.by].code = g.code BY <2>2, <3>1
      <4> QED BY <4>1, <4>3, <4>4
    <3>2. CASE h.by # w BY <1>3, <1>h, <2>4, <2>5, <3>2 DEF PassHeader, InFlight
    <3> QED BY <3>1, <3>2
  <2>8. wire' # 0 /\ ~reported' /\ pc'[Main] # "ended" => \E h \in Decisive' : h.code = wire'
    <3>1. pc'[Main] # "ended" => pc[Main] # "ended" BY <1>3 DEF PassHeader
    <3>2. reported' = reported BY <1>3 DEF PassHeader, logs
    <3> QED BY <2>1, <2>2, <2>3, <3>1, <3>2 DEF InFlight
  <2>9. \A v \in Writers : pc'[v] \in InCall =>
           \E h \in Decisive' : h.by = v /\ h.code = call'[v].code
    BY <1>3, <2>1, <2>5 DEF PassHeader, InFlight
  <2> QED BY <2>7, <2>8, <2>9 DEF InFlight
<1>4. ASSUME NEW w \in Writers, PassBody(w) PROVE InFlight'
  <2>1. Decisive' = Decisive BY <1>4 DEF PassBody, past, Decisive
  <2>2. pc[w] = "body" /\ call[w].code = 200 BY <1>0, <1>4 DEF PassBody, CallInv
  <2>3. PICK g \in Decisive : g.code = 200 BY <2>2 DEF InFlight
  <2>4. wire' # 0 /\ (wire' = wire \/ wire' = 200)
    BY <1>4, FinalIsSent DEF PassBody, Send
  <2>5. pc'[Main] # "ended" => pc[Main] # "ended" BY <1>4 DEF PassBody
  <2>6. \A v \in Writers : pc'[v] \in InCall => pc[v] \in InCall BY <1>4 DEF PassBody
  <2> QED BY <1>4, <2>1, <2>3, <2>4, <2>5, <2>6 DEF PassBody, InFlight, logs
<1>5. ASSUME NEW w \in Writers, CountBytes(w) PROVE InFlight'
  <2>1. Decisive' = Decisive BY <1>5 DEF CountBytes, past, Decisive
  <2>2. /\ pc[w] = "count" /\ pc' = [pc EXCEPT ![w] = "run"]
        /\ UNCHANGED <<call, wire, reported>>
    BY <1>5 DEF CountBytes, client, logs
  <2> QED BY <1>h, <2>1, <2>2 DEF InFlight
<1>6. ASSUME NEW w \in Writers, PassFlush(w) PROVE InFlight'
  <2>1. wire' # 0
    <3>1. wire' = Send(wire, 200) BY <1>6 DEF PassFlush
    <3>2. Send(wire, 200) # 0 BY FinalIsSent
    <3> QED BY <3>1, <3>2
  <2>2. Decisive \subseteq Decisive' BY DecisiveGrows
  <2>3. ~reported /\ pc[Main] # "ended" => \E h \in Decisive' : h.code = wire'
    <3>1. CASE wire # 0 BY <1>6, <2>2, <3>1 DEF PassFlush, Send, InFlight
    <3>2. CASE wire = 0
      <4>1. \E r \in Decisive' : r.code = 200 BY <1>6, <3>2, FlushDecides
      <4>2. wire' = 200 BY <1>6, <2>1, <3>2 DEF PassFlush, Send
      <4> QED BY <4>1, <4>2
    <3> QED BY <3>1, <3>2
  <2>4. UNCHANGED <<pc, call, reported>> BY <1>6 DEF PassFlush, logs
  <2> QED BY <2>1, <2>2, <2>3, <2>4 DEF InFlight
<1>7. ASSUME Decisive' = Decisive, call' = call, wire' = wire \/ (wire' # 0 /\ reported'),
             reported => reported', pc[Main] # "ended",
             \A v \in Writers : pc'[v] \in InCall => pc[v] \in InCall,
             \A v \in Writers : pc[v] \in InCall => pc'[v] \in InCall
      PROVE  InFlight'
  BY <1>h, <1>7 DEF InFlight
<1>8. CASE Return \/ LogLine \/ Panic \/ Recover \/ RecoverHeader
  <2>1. Decisive' = Decisive
    BY <1>8 DEF Return, LogLine, Panic, Recover, RecoverHeader, past, Decisive
  <2>2. call' = call /\ (reported => reported') /\ pc[Main] # "ended"
    BY <1>8 DEF Return, LogLine, Panic, Recover, RecoverHeader, logs
  <2>3. wire' = wire \/ (wire' # 0 /\ reported')
    BY <1>8, FinalIsSent
       DEF Return, LogLine, Panic, Recover, RecoverHeader, client, logs, TraceInv
  <2>4. \A v \in Writers : pc'[v] \in InCall <=> pc[v] \in InCall
    <3>1. CASE Return BY <3>1 DEF Return, Writers
    <3>2. CASE LogLine \/ Panic \/ Recover \/ RecoverHeader
      BY <3>2 DEF LogLine, Panic, Recover, RecoverHeader
    <3> QED BY <1>8, <3>1, <3>2
  <2> QED BY <1>7, <2>1, <2>2, <2>3, <2>4
<1>9. CASE Finish
  <2>1. wire' # 0 BY <1>9, FinalIsSent DEF Finish
  <2>2. pc'[Main] = "ended" /\ \A v \in Writers : pc'[v] \notin InCall
    BY <1>9 DEF Finish
  <2> QED BY <2>1, <2>2 DEF InFlight
<1>10. CASE UNCHANGED vars
  <2>1. Decisive' = Decisive BY <1>10 DEF vars, past, Decisive
  <2> QED BY <1>10, <2>1 DEF vars, client, logs, InFlight
<1> QED
  BY <1>1, <1>2, <1>3, <1>4, <1>5, <1>6, <1>8, <1>9, <1>10 DEF Next, Chain, Wrapper
-----------------------------------------------------------------------------
(***************************************************************************)
(* The theorems.                                                           *)
(***************************************************************************)

\* What is logged is what the wrapper holds, and does not change any more.
LineInv ==
    /\ line # NoLine => line.status = status
    /\ pc[Main] = "ended" /\ line # NoLine /\ (Plain \/ Agreed) => line.status = wire

LEMMA LineStep ==
    /\ TypeOK /\ CallInv /\ TraceInv /\ WireInv
    /\ PlainInv /\ Sources /\ InFlight /\ LineInv
    /\ [Next]_vars
    => LineInv'
<1> SUFFICES ASSUME TypeOK, CallInv, TraceInv, WireInv, PlainInv, Sources, InFlight,
                    LineInv, [Next]_vars
             PROVE  LineInv'
  OBVIOUS
<1> USE MainApart DEF TypeOK, WriterType, Goto
<1>1. ASSUME NEW w \in Writers, Wrapper(w) PROVE LineInv'
  BY <1>1, WriterActive DEF LineInv
<1>2. CASE Return \/ Panic \/ Recover \/ RecoverHeader
  BY <1>2 DEF Return, Panic, Recover, RecoverHeader, LineInv, logs, counter
<1>3. CASE LogLine
  <2>1. AccessLine.status = status BY DEF AccessLine
  <2> QED BY <1>3, <2>1 DEF LogLine, LineInv, counter
<1>4. CASE Finish /\ line = NoLine BY <1>4 DEF Finish, LineInv, logs
<1>5. CASE Finish /\ line # NoLine
  <2>1. ~reported /\ pc[Main] = "finish" BY <1>5 DEF Finish, TraceInv
  <2>2. \A w \in Writers : pc[w] \notin InCall
    BY <1>5, <2>1 DEF TraceInv, Writers, InCall
  <2>3. UNCHANGED <<line, status, history>> /\ wire' = Send(wire, 200)
    BY <1>5 DEF Finish, logs, counter, past
  <2>4. ASSUME Plain PROVE status = wire'
    <3>1. wire = asked BY <2>1, <2>4 DEF WireInv, Ahead, Plain
    <3>2. Kept /\ pc[Main] # "store" BY <2>1, <2>4 DEF PlainInv
    <3>3. wrote \in BOOLEAN BY DEF ResponseType
    <3>4. CASE wrote
      <4>1. status = asked /\ asked # 0 BY <3>2, <3>4 DEF Kept
      <4> QED BY <2>3, <3>1, <4>1 DEF Send
    <3>5. CASE ~wrote
      <4>1. status = 200 /\ wire = 0 BY <3>1, <3>2, <3>5 DEF Kept
      <4> QED BY <2>3, <4>1 DEF Send, Informational
    <3> QED BY <3>4, <3>5
  <2>5. ASSUME Agreed PROVE status = wire'
    <3>1. \A w \in Writers : pc[w] # "store" BY <2>2 DEF InCall
    <3>2. wire = 0 => Decisive = {}
      BY <2>2, <2>5, DecisiveTypes DEF InFlight, Agreed
    <3>3. wire # 0 => \E h \in Decisive : h.code = wire BY <2>1 DEF InFlight
    <3>4. wrote => \E h \in Decisive : h.code = status BY <2>1, <3>1 DEF Sources
    <3>5. wrote \in BOOLEAN BY DEF ResponseType
    <3>6. CASE wire = 0
      <4>1. status = 200 BY <3>2, <3>4, <3>5, <3>6 DEF Sources
      <4> QED BY <2>3, <3>6, <4>1 DEF Send, Informational
    <3>7. CASE wire # 0
      <4>1. PICK h \in Decisive : h.code = wire BY <3>3, <3>7
      <4>2. CASE wrote
        <5>1. PICK g \in Decisive : g.code = status BY <3>4, <4>2
        <5>2. g.code = h.code BY <2>5 DEF Agreed
        <5> QED BY <2>3, <3>7, <4>1, <5>1, <5>2 DEF Send
      <4>3. CASE ~wrote
        <5>1. status = 200 /\ wire = 200 BY <4>1, <4>3 DEF Sources
        <5> QED BY <2>3, <5>1 DEF Send
      <4> QED BY <3>5, <4>2, <4>3
    <3> QED BY <3>6, <3>7
  <2>6. Plain' => Plain BY <2>3 DEF Plain, SoleWriter
  <2>7. Agreed' => Agreed BY <2>3 DEF Agreed, Decisive
  <2> QED BY <2>3, <2>4, <2>5, <2>6, <2>7 DEF LineInv
<1>6. CASE UNCHANGED vars
  BY <1>6
     DEF vars, LineInv, Plain, SoleWriter, Agreed, Decisive, logs, counter, client, past
<1> QED BY <1>1, <1>2, <1>3, <1>4, <1>5, <1>6 DEF Next, Chain

IInv ==
    /\ TypeOK /\ CallInv /\ TraceInv /\ BytesInv /\ WireInv
    /\ PlainInv /\ Sources /\ InFlight /\ LineInv

LEMMA InvInit == Init => IInv
<1> SUFFICES ASSUME Init PROVE IInv OBVIOUS
<1> USE MainApart DEF Init, NewWriter
<1>1. TypeOK /\ CallInv BY TypeInit
<1>2. TraceInv BY DEF TraceInv
<1>3. BytesInv
  <2>1. Uncounted = {} BY DEF Uncounted
  <2> QED BY <2>1, FS_EmptySet DEF BytesInv
<1>4. WireInv BY DEF WireInv, Ahead, InCall
<1>5. PlainInv /\ LineInv BY DEF PlainInv, Kept, LineInv
<1>6. Sources /\ InFlight BY DEF Sources, InFlight, Decisive, InCall
<1> QED BY <1>1, <1>2, <1>3, <1>4, <1>5, <1>6 DEF IInv

LEMMA InvStep == IInv /\ [Next]_vars => IInv'
BY TypeStep, CallStep, TraceStep, BytesStep, WireStep, PlainStep, SourcesStep, InFlightStep,
   LineStep DEF IInv

LEMMA Inductive == Spec => []IInv
BY InvInit, InvStep, PTL DEF Spec

\* Every variable holds a value of its type (response_writer.go:15).
THEOREM TypeCorrect == Spec => []TypeOK
<1>1. IInv => TypeOK BY DEF IInv
<1> QED BY <1>1, Inductive, PTL

\* The wrapper is transparent to a handler that writes from one goroutine
\* (response_writer.go:29).
THEOREM WireUnchangedHolds == Spec => []WireUnchanged
<1>1. IInv => WireUnchanged BY DEF IInv, WireInv, Ahead, WireUnchanged
<1> QED BY <1>1, Inductive, PTL

\* The access log's bytes are those accepted, and its status the one sent, for one
\* plain writer or for any number that agree (response_writer.go:8).
THEOREM LineIsTrueHolds == Spec => []LineIsTrue
<1>1. IInv => LineIsTrue
  <2> SUFFICES ASSUME IInv, line # NoLine PROVE line.bytes = sent
    BY DEF LineIsTrue, IInv, LineInv
  <2>1. Uncounted = {} /\ line.bytes = bytes /\ sent = bytes + Cardinality(Uncounted)
    BY DEF IInv, BytesInv
  <2>2. bytes \in Nat BY DEF IInv, TypeOK, ResponseType
  <2> QED BY <2>1, <2>2, FS_EmptySet
<1> QED BY <1>1, Inductive, PTL

\* A request leaves one trace, and a panic a 500 where nothing was sent before
\* (middleware.go:45).
THEOREM PanicReportedHolds == Spec => []PanicReported
<1>1. IInv => PanicReported
  BY DEF IInv, TraceInv, WireInv, Ahead, PanicReported
<1> QED BY <1>1, Inductive, PTL
=============================================================================
