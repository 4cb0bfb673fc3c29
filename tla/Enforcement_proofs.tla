------------------------- MODULE Enforcement_proofs -------------------------
(***************************************************************************)
(* Proofs about KeyEntries and Enforcement, for any files, keys, tools,    *)
(* requests and clocks.                                                    *)
(***************************************************************************)
EXTENDS Enforcement, FiniteSetTheorems, TLAPS

-----------------------------------------------------------------------------
(***************************************************************************)
(* Key files.                                                              *)
(***************************************************************************)
LEMMA EntriesTyped ==
    ASSUME NEW keys \in Seq(RawKey), NEW now \in Int
    PROVE  Entries(keys, now) \subseteq KeyEntry
<1> SUFFICES ASSUME NEW i \in DOMAIN keys, Validate(keys[i], now)
             PROVE  Entry(keys[i]) \in KeyEntry
  BY DEF Entries
<1>1. keys[i] \in RawKey OBVIOUS
<1> QED BY <1>1 DEF Entry, KeyEntry, RawKey, Validate, CheckTools, NoExpiry

\* Two members make a count of more than one.
LEMMA TwoCount ==
    ASSUME NEW S, IsFiniteSet(S), NEW i \in S, NEW j \in S, i # j
    PROVE  Cardinality(S) > 1
<1>1. /\ IsFiniteSet({i}) /\ Cardinality({i}) = 1
  BY FS_Singleton
<1>2. Cardinality({i} \cup {j}) = 2
  BY <1>1, FS_AddElement, i # j
<1>3. {i} \cup {j} \subseteq S OBVIOUS
<1>4. Cardinality({i} \cup {j}) <= Cardinality(S)
  BY <1>3, FS_Subset
<1>5. Cardinality(S) \in Nat BY FS_CardinalityType
<1> QED BY <1>2, <1>4, <1>5

\* Whoever is no duplicate shares neither its name nor its hash.
LEMMA NoDuplicateAlone ==
    ASSUME NEW keys \in Seq(RawKey), NEW i \in DOMAIN keys,
           keys[i].sha256 \in Digests, ~Duplicate(keys, keys[i])
    PROVE  Alone(keys, i)
<1> DEFINE N == {j \in DOMAIN keys : keys[j].name = keys[i].name}
           H == {j \in DOMAIN keys : keys[j].sha256 = keys[i].sha256}
<1>1. IsFiniteSet(DOMAIN keys)
  <2>1. DOMAIN keys = 1 .. Len(keys) /\ Len(keys) \in Nat OBVIOUS
  <2> QED BY <2>1, FS_Interval
<1>2. IsFiniteSet(N) /\ IsFiniteSet(H) BY <1>1, FS_Subset
<1>3. ~(Cardinality(N) > 1) BY DEF Duplicate, NameCount
<1>4. ~(Cardinality(H) > 1)
  BY EntryAssumption DEF Duplicate, HashCount
<1>5. ASSUME NEW j \in DOMAIN keys \ {i}, keys[j].name = keys[i].name PROVE FALSE
  <2>1. i \in N /\ j \in N /\ i # j BY <1>5
  <2> HIDE DEF N
  <2> QED BY <2>1, <1>2, <1>3, TwoCount
<1>6. ASSUME NEW j \in DOMAIN keys \ {i}, keys[j].sha256 = keys[i].sha256 PROVE FALSE
  <2>1. i \in H /\ j \in H /\ i # j BY <1>6
  <2> HIDE DEF H
  <2> QED BY <2>1, <1>2, <1>4, TwoCount
<1> QED BY <1>5, <1>6 DEF Alone

\* An entry that loads says what the file grants, at any later reading of the
\* clock too.  The other entries do not matter, whatever is wrong with them.
THEOREM EntriesGrant ==
    ASSUME NEW keys \in Seq(RawKey), NEW at \in Int, NEW now \in Int,
           NEW e \in Entries(keys, at), NEW tool
    PROVE  Grants(keys, now, e.digest, tool) <=> tool \in e.tools /\ now < e.expires
<1>1. PICK i \in DOMAIN keys : /\ e = Entry(keys[i])
                               /\ ~Duplicate(keys, keys[i]) /\ Validate(keys[i], at)
  BY DEF Entries
<1>2. /\ e.digest = keys[i].sha256 /\ e.tools = keys[i].tools
      /\ e.expires = keys[i].expires
  BY <1>1 DEF Entry
<1>3. keys[i].sha256 \in Digests /\ keys[i].tools \subseteq Tools
  BY <1>1 DEF Validate, CheckTools
<1>4. Alone(keys, i) BY <1>1, <1>3, NoDuplicateAlone
<1>5. Validate(keys[i], now) <=> now < keys[i].expires BY <1>1 DEF Validate
<1>6. ASSUME tool \in e.tools, now < e.expires PROVE Grants(keys, now, e.digest, tool)
  BY <1>2, <1>3, <1>4, <1>5, <1>6 DEF Grants
<1>7. ASSUME Grants(keys, now, e.digest, tool) PROVE tool \in e.tools /\ now < e.expires
  <2>1. PICK k \in DOMAIN keys : /\ keys[k].sha256 = e.digest
                                 /\ tool \in keys[k].tools /\ Validate(keys[k], now)
    BY <1>7 DEF Grants
  <2>2. k = i BY <2>1, <1>2, <1>4 DEF Alone
  <2> QED BY <2>1, <2>2, <1>2, <1>5
<1> QED BY <1>6, <1>7

\* What loads is in force at its time.
LEMMA EntriesInForce ==
    ASSUME NEW keys, NEW at, NEW e \in Entries(keys, at)
    PROVE  at < e.expires
BY DEF Entries, Entry, Validate

-----------------------------------------------------------------------------
(***************************************************************************)
(* The inductive invariant.                                                *)
(***************************************************************************)

\* The snapshot holds keys of its version only.
StoreInv ==
    /\ snap.ver \in 0 .. Len(files)
    /\ \A e \in snap.keys : snap.ver > 0 /\ e \in Entries(files[snap.ver], snap.at)

\* A key found by request r is its token's, and recent enough.
BoundTo(h, r) ==
    /\ h \in Holdings
    /\ h.ver \in 1 .. Len(files)
    /\ h.entry \in Entries(files[h.ver], h.at)
    /\ h.entry.digest = ask[r].token
    /\ h.ver >= since[r]

Verified(info, r) ==
    /\ info \in KeyInfo
    /\ BoundTo(info.key, r)
    /\ info.checked < info.key.entry.expires

BindInv == \A r \in Requests :
    /\ since[r] <= snap.ver
    /\ pc[r] = "expiry" => BoundTo(held[r], r)
    /\ extra[r].who = "key" => Verified(extra[r], r)

\* Who has an identity where, and that nothing arrives during the set-up.
PlaceInv == \A r \in Requests :
    /\ pc[r] \in {"idle", "loopback", "verify", "expiry"} => extra[r] = Nobody
    /\ pc[r] = "admit" => extra[r].who = "key"
    /\ pc[r] # "idle" => wiring.serving

\* The filter's verdict and the context, from the moment they are there.
AnswerInv == \A r \in Requests :
    /\ pc[r] = "running" => ToolFilter(extra[r], ask[r].tool)
    /\ pc[r] = "denied" /\ ask[r].method = "tools/call" => ~ToolFilter(extra[r], ask[r].tool)
    /\ pc[r] = "list" => listed[r] = Tools
    /\ pc[r] = "answered" => listed[r] = {t \in Tools : ToolFilter(extra[r], t)}
    /\ pc[r] \in {"filter", "list", "running", "answered", "handled"} /\ wiring.guard
         => ctx[r] = extra[r]

IInv == TypeOK /\ StoreInv /\ BindInv /\ PlaceInv /\ AnswerInv

-----------------------------------------------------------------------------
LEMMA IInvInit == Init => IInv
<1> SUFFICES ASSUME Init PROVE IInv OBVIOUS
<1>1. files \in Seq(Files) /\ Len(files) = 1
  <2>1. PICK f \in Files : files = <<f>> BY DEF Init
  <2> QED BY <2>1
<1>2. StoreType BY <1>1 DEF Init, StoreType
<1>3. ServerType BY DEF Init, ServerType, Identities
<1>4. RequestType BY DEF Init, RequestType, Identities
<1>5. StoreInv BY <1>1 DEF Init, StoreInv
<1>6. BindInv BY DEF Init, BindInv, Nobody
<1>7. PlaceInv /\ AnswerInv BY DEF Init, PlaceInv, AnswerInv
<1> QED BY <1>2, <1>3, <1>4, <1>5, <1>6, <1>7 DEF IInv, TypeOK

\* Every version is a sequence of raw entries.
LEMMA VersionTyped ==
    ASSUME StoreType, NEW v \in 1 .. Len(files)
    PROVE  files[v] \in Seq(RawKey)
<1>1. files[v] \in Files BY DEF StoreType
<1> QED BY <1>1, EnforcementAssumption

LEMMA TypeFile == TypeOK /\ StoreInv /\ File => TypeOK'
<1> SUFFICES ASSUME TypeOK, StoreInv, File PROVE TypeOK' OBVIOUS
<1> USE DEF TypeOK
<1>1. /\ (server' = server /\ locals' = locals) => (ServerType /\ RequestType)'
  BY DEF server, locals, ServerType, RequestType
<1>2. CASE Publish BY <1>1, <1>2 DEF Publish, StoreType, server, locals
<1>3. CASE Tick BY <1>1, <1>3, EnforcementAssumption DEF Tick, StoreType, server, locals
<1>4. CASE Load
  <2>1. PICK v \in snap.ver .. Len(files) :
           /\ v > 0
           /\ snap' = [keys |-> Entries(files[v], clock), ver |-> v, at |-> clock]
    BY <1>4 DEF Load
  <2>2. snap.ver \in Nat /\ v \in Nat /\ v \in 1 .. Len(files) /\ clock \in Nat
    BY <2>1 DEF StoreType, StoreInv
  <2>3. Entries(files[v], clock) \subseteq KeyEntry
    BY <2>2, VersionTyped, EntriesTyped
  <2>4. snap' \in [keys : SUBSET KeyEntry, ver : Nat, at : Nat]
    BY <2>1, <2>2, <2>3
  <2> QED BY <1>1, <1>4, <2>4 DEF Load, StoreType, server, locals
<1>5. CASE DenyAll BY <1>1, <1>5 DEF DenyAll, StoreType, server, locals
<1> QED BY <1>2, <1>3, <1>4, <1>5 DEF File

LEMMA TypeWire == TypeOK /\ Wire => TypeOK'
<1> SUFFICES ASSUME TypeOK, Wire PROVE TypeOK' OBVIOUS
<1>1. UNCHANGED <<store, session, locals>>
  BY DEF Wire, EnableRESTBridge, BearerAuth, Install, LoopbackBypass, Serve, Setup
<1>2. wiring' \in [auth : {"none", "keyfile"}, guard : BOOLEAN, bridge : BOOLEAN,
                   loopback : {"checked", "nobody", "identity"}, serving : BOOLEAN]
  BY DEF TypeOK, ServerType, Wire, EnableRESTBridge, BearerAuth, Install,
         LoopbackBypass, Serve
<1> QED BY <1>1, <1>2 DEF TypeOK, StoreType, ServerType, RequestType, store, locals

LEMMA TypeAuthenticate ==
    ASSUME TypeOK, StoreInv, BindInv, PlaceInv, NEW r \in Requests, Authenticate(r)
    PROVE  TypeOK'
<1> USE DEF TypeOK, Goto, store, server, locals
<1>1. store' = store => StoreType' BY DEF StoreType
<1>2. CASE Arrive(r)
  BY <1>1, <1>2 DEF Arrive, RequestType, ServerType, StoreType
<1>3. CASE LookUp(r)
  <2>1. ASSUME NEW e \in snap.keys PROVE Holding(e, snap.ver, snap.at) \in Holdings
    BY DEF Holding, Holdings, StoreType
  <2>2. held' \in [Requests -> Holdings \cup {NoHold}]
    BY <1>3, <2>1 DEF LookUp, Reject, RequestType
  <2> QED BY <1>1, <1>3, <2>2 DEF LookUp, Reject, RequestType, ServerType
<1>4. CASE CheckExpiry(r)
  <2>1. held[r] \in Holdings BY <1>4 DEF CheckExpiry, BindInv, BoundTo
  <2>2. held[r].entry.expires \in Int BY <2>1 DEF Holdings, KeyEntry
  <2>3. clock \in Nat /\ clock + MaxTokenTTL \in Int BY EnforcementAssumption DEF StoreType
  <2>4. MinTime(held[r].entry.expires, clock + MaxTokenTTL) \in Int
    BY <2>2, <2>3 DEF MinTime
  <2>5. TokenInfo(held[r]) \in Identities
    BY <2>1, <2>3, <2>4 DEF TokenInfo, Identities, KeyInfo
  <2>6. extra' \in [Requests -> Identities]
    BY <1>4, <2>5 DEF CheckExpiry, Reject, RequestType
  <2> QED BY <1>1, <1>4, <2>6 DEF CheckExpiry, Reject, RequestType, ServerType
<1>5. CASE Admit(r)
  <2>1. Carried(r, extra[r]) \in Identities /\ extra[r] \in Identities
    BY DEF Carried, RequestType, Identities
  <2>2. extra' \in [Requests -> Identities]
    BY <1>5, <2>1 DEF Admit, Reject, RequestType
  <2>3. session' \in Identities
    BY <1>5, <2>1 DEF Admit, ServerType
  <2> QED BY <1>1, <1>5, <2>2, <2>3 DEF Admit, Reject, RequestType, ServerType
<1>6. CASE LoopbackChain(r)
  <2>1. Carried(r, Foreign) \in Identities /\ Nobody \in Identities
    BY DEF Carried, Identities
  <2>2. extra' \in [Requests -> Identities]
    BY <1>6, <2>1 DEF LoopbackChain, RequestType
  <2> QED BY <1>1, <1>6, <2>2 DEF LoopbackChain, RequestType, ServerType
<1> QED BY <1>2, <1>3, <1>4, <1>5, <1>6 DEF Authenticate

LEMMA TypeReceive ==
    ASSUME TypeOK, NEW r \in Requests, Receive(r)
    PROVE  TypeOK'
<1> USE DEF TypeOK, Goto, store, server, locals
<1>1. (store' = store /\ server' = server) => (StoreType /\ ServerType)'
  BY DEF StoreType, ServerType
<1>2. CASE Middleware(r)
  <2>1. ctx' \in [Requests -> Identities]
    BY <1>2 DEF Middleware, TokenInfoFromRequest, RequestType
  <2> QED BY <1>1, <1>2, <2>1 DEF Middleware, RequestType
<1>3. CASE FilterToolCall(r) BY <1>1, <1>3 DEF FilterToolCall, RequestType
<1>4. CASE ListTools(r) BY <1>1, <1>4 DEF ListTools, RequestType
<1>5. CASE FilterToolList(r) BY <1>1, <1>5 DEF FilterToolList, RequestType
<1>6. CASE PassOn(r) BY <1>1, <1>6 DEF PassOn, RequestType
<1>7. CASE Finish(r)
  <2>1. Nobody \in Identities BY DEF Identities
  <2> QED BY <1>1, <1>7, <2>1 DEF Finish, RequestType
<1> QED BY <1>2, <1>3, <1>4, <1>5, <1>6, <1>7 DEF Receive

LEMMA TypeStep == IInv /\ [Next]_vars => TypeOK'
<1> SUFFICES ASSUME IInv, [Next]_vars PROVE TypeOK' OBVIOUS
<1>1. CASE File BY <1>1, TypeFile DEF IInv
<1>2. CASE Wire BY <1>2, TypeWire DEF IInv
<1>3. CASE \E r \in Requests : Authenticate(r) BY <1>3, TypeAuthenticate DEF IInv
<1>4. CASE \E r \in Requests : Receive(r) BY <1>4, TypeReceive DEF IInv
<1>5. CASE UNCHANGED vars
  BY <1>5 DEF IInv, TypeOK, StoreType, ServerType, RequestType, vars, store, server, locals
<1> QED BY <1>1, <1>2, <1>3, <1>4, <1>5 DEF Next

-----------------------------------------------------------------------------
\* Requests leave the store alone, and versions stay what they are.
LEMMA StoreKept == Wire \/ (\E r \in Requests : Authenticate(r) \/ Receive(r))
                     => UNCHANGED store
BY DEF Wire, EnableRESTBridge, BearerAuth, Install, LoopbackBypass, Serve, Setup,
       Authenticate, Arrive, LookUp, CheckExpiry, Admit, LoopbackChain,
       Receive, Middleware, FilterToolCall, ListTools, FilterToolList, PassOn, Finish

LEMMA VersionsKept ==
    ASSUME TypeOK, TypeOK', StoreInv, [Next]_vars
    PROVE  /\ Len(files) <= Len(files')
           /\ \A v \in 1 .. Len(files) : files'[v] = files[v]
           /\ snap.ver <= snap'.ver
<1> USE DEF TypeOK, StoreType
<1>1. CASE Publish BY <1>1 DEF Publish
<1>2. CASE Load
  <2>1. PICK v \in snap.ver .. Len(files) : snap'.ver = v BY <1>2 DEF Load
  <2> QED BY <1>2, <2>1 DEF Load, StoreInv
<1>3. CASE DenyAll BY <1>3 DEF DenyAll
<1>4. CASE Tick BY <1>4 DEF Tick
<1>5. CASE UNCHANGED store BY <1>5 DEF store
<1> QED BY <1>1, <1>2, <1>3, <1>4, <1>5, StoreKept DEF Next, File, vars

LEMMA StoreStep == IInv /\ TypeOK' /\ [Next]_vars => StoreInv'
<1> SUFFICES ASSUME IInv, TypeOK', [Next]_vars PROVE StoreInv' OBVIOUS
<1> USE DEF IInv, TypeOK, StoreType, StoreInv
<1>1. CASE Publish
  <2>1. /\ Len(files) <= Len(files') /\ snap' = snap
        /\ \A v \in 1 .. Len(files) : files'[v] = files[v]
    BY <1>1, VersionsKept DEF Publish
  <2>2. ASSUME NEW e \in snap.keys PROVE e \in Entries(files'[snap.ver], snap.at)
    <3>1. snap.ver \in 1 .. Len(files) OBVIOUS
    <3> QED BY <2>1, <3>1
  <2> QED BY <2>1, <2>2
<1>2. CASE Load
  <2>1. PICK v \in snap.ver .. Len(files) :
           /\ v > 0
           /\ snap' = [keys |-> Entries(files[v], clock), ver |-> v, at |-> clock]
    BY <1>2 DEF Load
  <2> QED BY <1>2, <2>1 DEF Load
<1>3. CASE DenyAll BY <1>3 DEF DenyAll
<1>4. CASE Tick BY <1>4 DEF Tick
<1>5. CASE UNCHANGED store BY <1>5 DEF store
<1> QED BY <1>1, <1>2, <1>3, <1>4, <1>5, StoreKept DEF Next, File, vars

\* What is bound stays bound while the request asks the same.
LEMMA BoundKept ==
    ASSUME IInv, TypeOK', [Next]_vars, NEW r \in Requests, NEW h, BoundTo(h, r),
           ask'[r] = ask[r], since'[r] = since[r]
    PROVE  BoundTo(h, r)'
<1>1. /\ Len(files) <= Len(files')
      /\ \A v \in 1 .. Len(files) : files'[v] = files[v]
  BY VersionsKept DEF IInv
<1>2. Len(files) \in Nat /\ Len(files') \in Nat BY DEF IInv, TypeOK, StoreType
<1>3. files'[h.ver] = files[h.ver] /\ h.ver \in 1 .. Len(files')
  BY <1>1, <1>2 DEF BoundTo
<1> QED BY <1>3 DEF BoundTo

\* What the step of one request leaves of another.
LEMMA OthersKept ==
    ASSUME TypeOK, NEW r \in Requests, Authenticate(r) \/ Receive(r),
           NEW q \in Requests, q # r
    PROVE  /\ pc'[q] = pc[q] /\ ask'[q] = ask[q] /\ since'[q] = since[q]
           /\ held'[q] = held[q] /\ extra'[q] = extra[q]
           /\ ctx'[q] = ctx[q] /\ listed'[q] = listed[q]
BY DEF TypeOK, RequestType, Goto, Reject,
       Authenticate, Arrive, LookUp, CheckExpiry, Admit, LoopbackChain,
       Receive, Middleware, FilterToolCall, ListTools, FilterToolList, PassOn, Finish

\* The part of BindInv about a request.
Bound(q) ==
    /\ since[q] <= snap.ver
    /\ pc[q] = "expiry" => BoundTo(held[q], q)
    /\ extra[q].who = "key" => Verified(extra[q], q)

\* Nothing the others do touches it.
LEMMA BoundIfIdle ==
    ASSUME IInv, TypeOK', [Next]_vars, NEW q \in Requests,
           pc'[q] = pc[q], ask'[q] = ask[q], since'[q] = since[q],
           held'[q] = held[q], extra'[q] = extra[q]
    PROVE  Bound(q)'
<1>1. Bound(q) BY DEF IInv, BindInv, Bound
<1>2. snap.ver <= snap'.ver /\ snap.ver \in Nat /\ snap'.ver \in Nat /\ since[q] \in Nat
  BY VersionsKept DEF IInv, TypeOK, StoreType, RequestType
<1>3. (since[q] <= snap.ver)' BY <1>1, <1>2 DEF Bound
<1>4. (pc[q] = "expiry" => BoundTo(held[q], q))' BY <1>1, BoundKept DEF Bound
<1>5. (extra[q].who = "key" => Verified(extra[q], q))'
  BY <1>1, BoundKept DEF Bound, Verified
<1> QED BY <1>3, <1>4, <1>5 DEF Bound

\* The steps of a request that change what it has.
LEMMA BoundAuthenticate ==
    ASSUME IInv, TypeOK', [Next]_vars, NEW r \in Requests, Authenticate(r)
    PROVE  Bound(r)'
<1> USE DEF Goto
<1>1. Bound(r) BY DEF IInv, BindInv, Bound
<1>2. /\ store' = store /\ snap' = snap
      /\ snap.ver \in Nat /\ since[r] \in Nat
  BY StoreKept DEF store, IInv, TypeOK, StoreType, RequestType
<1> USE DEF IInv, TypeOK, RequestType
<1>3. CASE Arrive(r)
  <2>1. extra[r] = Nobody BY <1>3 DEF Arrive, PlaceInv
  <2>2. pc'[r] # "expiry" /\ extra'[r] = Nobody /\ since'[r] = snap.ver
    BY <1>3, <2>1 DEF Arrive
  <2> QED BY <1>2, <2>2 DEF Bound, Nobody
<1>4. CASE LookUp(r)
  <2>1. /\ extra'[r] = extra[r] /\ extra[r] = Nobody
        /\ since'[r] = since[r] /\ ask'[r] = ask[r]
    BY <1>4 DEF LookUp, Reject, PlaceInv
  <2>2. ASSUME pc'[r] = "expiry" PROVE BoundTo(held[r], r)'
    <3>1. PICK e \in snap.keys : /\ e.digest = ask[r].token
                                 /\ held'[r] = Holding(e, snap.ver, snap.at)
      BY <1>4, <2>2 DEF LookUp, Reject
    <3>2. snap.ver \in 1 .. Len(files) /\ e \in Entries(files[snap.ver], snap.at)
      BY <1>2 DEF StoreInv, StoreType
    <3>3. Holding(e, snap.ver, snap.at) \in Holdings
      BY DEF Holding, Holdings, StoreType
    <3>4. BoundTo(held'[r], r)
      BY <1>1, <3>1, <3>2, <3>3 DEF BoundTo, Holding, Bound
    <3> QED BY <3>4, <2>1, <1>2 DEF BoundTo, store
  <2> QED BY <1>1, <1>2, <2>1, <2>2 DEF Bound, Nobody
<1>5. CASE CheckExpiry(r)
  <2>1. since'[r] = since[r] /\ ask'[r] = ask[r] /\ pc'[r] # "expiry"
    BY <1>5 DEF CheckExpiry, Reject
  <2>2. CASE clock < held[r].entry.expires
    <3>1. extra'[r] = TokenInfo(held[r]) BY <1>5, <2>2 DEF CheckExpiry
    <3>2. BoundTo(held[r], r) BY <1>1, <1>5 DEF Bound, CheckExpiry
    <3>4. /\ extra'[r].key = held[r] /\ extra'[r].checked = clock
          /\ extra'[r].who = "key"
      BY <3>1 DEF TokenInfo
    <3>5. extra'[r] \in Identities BY DEF RequestType
    <3>6. extra'[r] \in KeyInfo BY <3>4, <3>5 DEF Identities, Nobody, Foreign
    <3>7. BoundTo(extra[r].key, r)' BY <1>2, <2>1, <3>2, <3>4 DEF BoundTo, store
    <3>8. Verified(extra[r], r)' BY <2>2, <3>4, <3>6, <3>7 DEF Verified
    <3> QED BY <1>1, <1>2, <2>1, <3>8 DEF Bound
  <2>3. CASE ~(clock < held[r].entry.expires)
    <3>1. extra'[r] = Nobody BY <1>5, <2>3 DEF CheckExpiry, Reject, PlaceInv
    <3> QED BY <1>1, <1>2, <2>1, <3>1 DEF Bound, Nobody
  <2> QED BY <2>2, <2>3
<1>6. CASE Admit(r)
  <2>1. since'[r] = since[r] /\ ask'[r] = ask[r] /\ pc'[r] # "expiry"
    BY <1>6 DEF Admit, Reject
  <2>2. extra'[r] = extra[r] \/ extra'[r] = Nobody BY <1>6 DEF Admit, Reject, Carried
  <2>3. CASE extra'[r] = Nobody BY <1>1, <1>2, <2>1, <2>3 DEF Bound, Nobody
  <2>4. CASE extra'[r] = extra[r]
    <3>1. (extra[r].who = "key" => Verified(extra[r], r))'
      BY <1>1, <1>2, <2>1, <2>4 DEF Bound, Verified, BoundTo, store
    <3> QED BY <1>1, <1>2, <2>1, <3>1 DEF Bound
  <2> QED BY <2>2, <2>3, <2>4
<1>7. CASE LoopbackChain(r)
  <2>1. since'[r] = since[r] /\ pc'[r] # "expiry"
    BY <1>7 DEF LoopbackChain
  <2>2. extra'[r] \in {Nobody, Foreign} BY <1>7 DEF LoopbackChain, Carried, PlaceInv
  <2> QED BY <1>1, <1>2, <2>1, <2>2 DEF Bound, Nobody, Foreign
<1> QED BY <1>3, <1>4, <1>5, <1>6, <1>7 DEF Authenticate

LEMMA BoundReceive ==
    ASSUME IInv, TypeOK', [Next]_vars, NEW r \in Requests, Receive(r)
    PROVE  Bound(r)'
<1> USE DEF Goto, IInv, TypeOK, RequestType
<1>1. store' = store /\ snap' = snap /\ snap.ver \in Nat
  BY StoreKept DEF store, StoreType
<1>2. CASE Finish(r)
  <2>1. since'[r] = 0 /\ pc'[r] = "idle" /\ extra'[r] = Nobody
    BY <1>2 DEF Finish
  <2> QED BY <1>1, <2>1 DEF Bound, Nobody
<1>3. CASE ~Finish(r)
  <2>1. /\ since'[r] = since[r] /\ ask'[r] = ask[r] /\ extra'[r] = extra[r]
        /\ pc'[r] # "expiry"
    BY <1>3 DEF Receive, Middleware, FilterToolCall, ListTools, FilterToolList, PassOn
  <2>2. Bound(r) BY DEF BindInv, Bound
  <2>3. (extra[r].who = "key" => Verified(extra[r], r))'
    BY <1>1, <2>1, <2>2 DEF Bound, Verified, BoundTo, store
  <2> QED BY <1>1, <2>1, <2>2, <2>3 DEF Bound
<1> QED BY <1>2, <1>3

LEMMA BindStep == IInv /\ TypeOK' /\ [Next]_vars => BindInv'
<1> SUFFICES ASSUME IInv, TypeOK', [Next]_vars, NEW q \in Requests PROVE Bound(q)'
  BY DEF BindInv, Bound
<1>1. CASE File \/ Wire \/ UNCHANGED vars
  <2>1. UNCHANGED locals
    BY <1>1 DEF File, Publish, Tick, Load, DenyAll, vars,
                Wire, EnableRESTBridge, BearerAuth, Install, LoopbackBypass, Serve, Setup
  <2> QED BY <2>1, BoundIfIdle DEF locals
<1>2. ASSUME NEW r \in Requests, Authenticate(r) \/ Receive(r) PROVE Bound(q)'
  <2>1. CASE q = r BY <1>2, <2>1, BoundAuthenticate, BoundReceive
  <2>2. CASE q # r BY <1>2, <2>2, OthersKept, BoundIfIdle DEF IInv
  <2> QED BY <2>1, <2>2
<1> QED BY <1>1, <1>2 DEF Next

-----------------------------------------------------------------------------
LEMMA PlaceStep == IInv /\ TypeOK' /\ [Next]_vars => PlaceInv'
<1> SUFFICES ASSUME IInv, TypeOK', [Next]_vars PROVE PlaceInv' OBVIOUS
<1>1. PlaceInv BY DEF IInv
<1>2. CASE File \/ UNCHANGED vars
  <2>1. UNCHANGED <<pc, extra, wiring>>
    BY <1>2 DEF File, Publish, Tick, Load, DenyAll, vars, locals, server
  <2> QED BY <1>1, <2>1 DEF PlaceInv
<1>3. CASE Wire
  <2>1. UNCHANGED <<pc, extra>> /\ ~wiring.serving
    BY <1>3 DEF Wire, EnableRESTBridge, BearerAuth, Install, LoopbackBypass, Serve,
                Setup, locals
  <2> QED BY <1>1, <2>1 DEF PlaceInv
<1>4. ASSUME NEW r \in Requests, Authenticate(r) \/ Receive(r) PROVE PlaceInv'
  <2>1. wiring' = wiring
    BY <1>4 DEF Authenticate, Arrive, LookUp, CheckExpiry, Admit, LoopbackChain, Receive,
                Middleware, FilterToolCall, ListTools, FilterToolList, PassOn, Finish, server
  <2>2. ASSUME NEW q \in Requests, q # r PROVE pc'[q] = pc[q] /\ extra'[q] = extra[q]
    BY <1>4, <2>2, OthersKept DEF IInv
  <2> USE DEF IInv, TypeOK, RequestType, Goto
  <2>3. wiring.serving
    BY <1>1, <1>4 DEF PlaceInv, Authenticate, Arrive, LookUp, CheckExpiry, Admit,
         LoopbackChain, Receive, Middleware, FilterToolCall, ListTools, FilterToolList,
         PassOn, Finish
  <2>4. CASE Receive(r)
    <3>1. \/ pc'[r] = "idle" /\ extra'[r] = Nobody
          \/ pc'[r] \in {"filter", "denied", "running", "list", "answered", "handled"}
      BY <2>4 DEF Receive, Middleware, FilterToolCall, ListTools, FilterToolList, PassOn,
                  Finish
    <3> QED BY <1>1, <2>1, <2>2, <2>3, <3>1 DEF PlaceInv
  <2>5. CASE Authenticate(r)
    <3>1. /\ pc'[r] \in {"loopback", "verify", "expiry"} => extra'[r] = Nobody
          /\ pc'[r] = "admit" => extra'[r].who = "key"
          /\ pc'[r] # "idle"
      BY <1>1, <2>5 DEF PlaceInv, Authenticate, Arrive, LookUp, CheckExpiry, Admit,
           LoopbackChain, Reject, TokenInfo
    <3> QED BY <1>1, <2>1, <2>2, <2>3, <3>1 DEF PlaceInv
  <2> QED BY <1>4, <2>4, <2>5
<1> QED BY <1>2, <1>3, <1>4 DEF Next

\* The part of AnswerInv about a request.
Answered(q) ==
    /\ pc[q] = "running" => ToolFilter(extra[q], ask[q].tool)
    /\ pc[q] = "denied" /\ ask[q].method = "tools/call" => ~ToolFilter(extra[q], ask[q].tool)
    /\ pc[q] = "list" => listed[q] = Tools
    /\ pc[q] = "answered" => listed[q] = {t \in Tools : ToolFilter(extra[q], t)}
    /\ pc[q] \in {"filter", "list", "running", "answered", "handled"} /\ wiring.guard
         => ctx[q] = extra[q]

LEMMA AnswerStep == IInv /\ TypeOK' /\ [Next]_vars => AnswerInv'
<1> SUFFICES ASSUME IInv, TypeOK', [Next]_vars, NEW q \in Requests PROVE Answered(q)'
  BY DEF AnswerInv, Answered
<1>1. Answered(q) BY DEF IInv, AnswerInv, Answered
<1>2. CASE File \/ UNCHANGED vars
  <2>1. UNCHANGED <<pc, ask, extra, ctx, listed, wiring>>
    BY <1>2 DEF File, Publish, Tick, Load, DenyAll, vars, locals, server
  <2> QED BY <1>1, <2>1 DEF Answered, ToolFilter
<1>3. CASE Wire
  <2>1. UNCHANGED pc /\ ~wiring.serving
    BY <1>3 DEF Wire, EnableRESTBridge, BearerAuth, Install, LoopbackBypass, Serve,
                Setup, locals
  <2>2. pc'[q] = "idle" BY <2>1 DEF IInv, PlaceInv
  <2> QED BY <2>2 DEF Answered
<1>4. ASSUME NEW r \in Requests, Authenticate(r) \/ Receive(r) PROVE Answered(q)'
  <2>1. wiring' = wiring
    BY <1>4 DEF Authenticate, Arrive, LookUp, CheckExpiry, Admit, LoopbackChain, Receive,
                Middleware, FilterToolCall, ListTools, FilterToolList, PassOn, Finish, server
  <2>2. CASE q # r
    <3>1. /\ pc'[q] = pc[q] /\ ask'[q] = ask[q] /\ extra'[q] = extra[q]
          /\ ctx'[q] = ctx[q] /\ listed'[q] = listed[q]
      BY <1>4, <2>2, OthersKept DEF IInv
    <3> QED BY <1>1, <2>1, <3>1 DEF Answered, ToolFilter
  <2>3. CASE q = r /\ Authenticate(r)
    <3>1. pc'[q] \in {"loopback", "verify", "expiry", "admit", "guard", "rejected"}
      BY <2>3 DEF IInv, TypeOK, RequestType, Goto, Authenticate, Arrive, LookUp,
           CheckExpiry, Admit, LoopbackChain, Reject
    <3> QED BY <3>1 DEF Answered
  <2>4. CASE q = r /\ Receive(r)
    <3> USE DEF IInv, TypeOK, RequestType, Goto
    <3>1. CASE Middleware(r)
      BY <1>1, <2>1, <2>4, <3>1 DEF Middleware, Answered, TokenInfoFromRequest, ScopedMethod
    <3>2. CASE FilterToolCall(r)
      <4>1. /\ extra'[q] = extra[q] /\ ask'[q] = ask[q] /\ ctx'[q] = ctx[q]
            /\ pc[q] = "filter"
        BY <2>4, <3>2 DEF FilterToolCall
      <4>2. CASE ToolFilter(extra[q], ask[q].tool)
        <5>1. pc'[q] = "running" BY <2>4, <3>2, <4>2 DEF FilterToolCall, TokenInfoFromRequest
        <5> QED BY <1>1, <2>1, <4>1, <4>2, <5>1 DEF Answered, ToolFilter
      <4>3. CASE ~ToolFilter(extra[q], ask[q].tool)
        <5>1. pc'[q] = "denied" BY <2>4, <3>2, <4>3 DEF FilterToolCall, TokenInfoFromRequest
        <5> QED BY <1>1, <2>1, <4>1, <4>3, <5>1 DEF Answered, ToolFilter
      <4> QED BY <4>2, <4>3
    <3>3. CASE ListTools(r) BY <1>1, <2>1, <2>4, <3>3 DEF ListTools, Answered
    <3>4. CASE FilterToolList(r)
      <4>1. /\ extra'[q] = extra[q] /\ ctx'[q] = ctx[q] /\ pc[q] = "list"
            /\ pc'[q] = "answered" /\ listed[q] = Tools
            /\ listed'[q] = {t \in listed[q] : ToolFilter(extra[q], t)}
        BY <1>1, <2>4, <3>4 DEF FilterToolList, Answered, TokenInfoFromRequest
      <4> QED BY <1>1, <2>1, <4>1 DEF Answered, ToolFilter
    <3>5. CASE PassOn(r) BY <1>1, <2>1, <2>4, <3>5 DEF PassOn, Answered
    <3>6. CASE Finish(r)
      <4>1. pc'[q] = "idle" BY <2>4, <3>6 DEF Finish
      <4> QED BY <4>1 DEF Answered
    <3> QED BY <2>4, <3>1, <3>2, <3>3, <3>4, <3>5, <3>6 DEF Receive
  <2> QED BY <1>4, <2>2, <2>3, <2>4
<1> QED BY <1>2, <1>3, <1>4 DEF Next

LEMMA IInvStep == IInv /\ [Next]_vars => IInv'
<1> SUFFICES ASSUME IInv, [Next]_vars PROVE IInv' OBVIOUS
<1>1. TypeOK' BY TypeStep
<1>2. StoreInv' BY <1>1, StoreStep
<1>3. BindInv' BY <1>1, BindStep
<1>4. PlaceInv' BY <1>1, PlaceStep
<1>5. AnswerInv' BY <1>1, AnswerStep
<1> QED BY <1>1, <1>2, <1>3, <1>4, <1>5 DEF IInv

LEMMA IInvAlways == Spec => []IInv
BY IInvInit, IInvStep, PTL DEF Spec

-----------------------------------------------------------------------------
(***************************************************************************)
(* The results.                                                            *)
(***************************************************************************)

\* Type correctness; in particular, nothing loads that names a tool which is
\* not registered.
THEOREM TypeCorrect == Spec => []TypeOK
<1>1. IInv => TypeOK BY DEF IInv
<1> QED BY <1>1, IInvAlways, PTL

\* For an identity that was verified, the filter's verdict is the file's.
LEMMA FilterGrants ==
    ASSUME IInv, NEW r \in Requests, NEW t
    PROVE  ToolFilter(extra[r], t) <=> Granted(r, t)
<1>1. CASE extra[r].who # "key" BY <1>1 DEF ToolFilter, Granted
<1>2. CASE extra[r].who = "key"
  <2> DEFINE key == extra[r].key
             f == files[key.ver]
  <2>1. Verified(extra[r], r) BY <1>2 DEF IInv, BindInv
  <2>2. /\ key \in Holdings /\ key.ver \in 1 .. Len(files)
        /\ key.entry \in Entries(f, key.at) /\ key.entry.digest = ask[r].token
        /\ extra[r].checked < key.entry.expires
    BY <2>1 DEF Verified, BoundTo
  <2>3. f \in Seq(RawKey) BY <2>2, VersionTyped DEF IInv, TypeOK
  <2>4. key.at \in Int /\ extra[r].checked \in Int
    BY <2>1, <2>2 DEF Holdings, Verified, KeyInfo
  <2>5. key.at < key.entry.expires BY <2>2, EntriesInForce
  <2>6. key.entry.tools \subseteq Tools BY <2>2 DEF Holdings, KeyEntry
  <2>7. ToolFilter(extra[r], t) <=> t \in key.entry.tools
    BY <1>2, <2>6, EntryAssumption DEF ToolFilter
  <2> HIDE DEF f, key
  <2>8. Grants(f, key.at, ask[r].token, t) <=> t \in key.entry.tools
    BY <2>2, <2>3, <2>4, <2>5, EntriesGrant
  <2>9. Grants(f, extra[r].checked, ask[r].token, t) <=> t \in key.entry.tools
    BY <2>2, <2>3, <2>4, EntriesGrant
  <2> USE DEF f, key
  <2> QED BY <1>2, <2>7, <2>8, <2>9 DEF Granted
<1> QED BY <1>1, <1>2

\* Tools run and are listed exactly for the tokens to which one version of the
\* file grants them: entries say what the file grants (EntriesGrant), the
\* identity is bound to an entry (BindInv), and the verdict is taken from it
\* (AnswerInv).
THEOREM GrantedExactlyHolds == Spec => []GrantedExactly
<1>1. ASSUME IInv PROVE GrantedExactly
  <2>1. ASSUME NEW r \in Requests
        PROVE  /\ pc[r] = "running" => Granted(r, ask[r].tool)
               /\ pc[r] = "answered" => listed[r] = {t \in Tools : Granted(r, t)}
               /\ pc[r] = "denied" /\ ask[r].method = "tools/call"
                    => ~Granted(r, ask[r].tool)
    <3>1. Answered(r) BY <1>1 DEF IInv, AnswerInv, Answered
    <3>2. \A t : ToolFilter(extra[r], t) <=> Granted(r, t) BY <1>1, FilterGrants
    <3> QED BY <3>1, <3>2 DEF Answered
  <2> QED BY <2>1 DEF GrantedExactly
<1> QED BY <1>1, IInvAlways, PTL

\* The identity is the current request's, and as new as the request.
THEOREM OwnIdentityHolds == Spec => []OwnIdentity
<1>1. ASSUME IInv PROVE OwnIdentity
  BY <1>1 DEF IInv, BindInv, Verified, BoundTo, AnswerInv, OwnIdentity
<1> QED BY <1>1, IInvAlways, PTL
=============================================================================
