----------------------------- MODULE Enforcement -----------------------------
(***************************************************************************)
(* What a token may do on a server that uses a key file: the consumer's    *)
(* wiring (keyfile.Store.Install), the way of a request from the bearer    *)
(* check (applyBearerAuth, verify) through the receiving middlewares       *)
(* (Store.Middleware, toolFilterMiddleware) to a tool, and edits and       *)
(* reloads of the key file at any moment in between.                       *)
(*                                                                         *)
(* Of the reload only KeyAuthority's promise is used: keys of a version no *)
(* older than the one in force, or none.  External: the SDK's bearer check *)
(* and the identity it keeps with a stateful session; the REST bridge's    *)
(* own checks, which only refuse more (ToolsCache has them).               *)
(***************************************************************************)
EXTENDS KeyEntries

CONSTANTS
    Requests,     \* goroutines that serve requests
    Files,        \* contents of the key file, as raw entries; <<>> stands also
                  \* for a file that is missing or refused as a whole
    Asks,         \* what a client may ask for
    MaxTokenTTL,  \* maxTokenTTL
    AllowNonTool, \* Options.AllowNonToolMethods
    MaxClock,     \* bound: readings of the wall clock
    MaxVersion    \* bound: versions of the file

Malformed == "malformed"   \* a token wellFormed refuses; others are their digests
Doors     == {"mcp", "rest"}
Methods   == {"tools/list", "tools/call", "ping", "resources/read"}

ASSUME EnforcementAssumption ==
    /\ MaxTokenTTL \in Nat /\ MaxClock \in Nat /\ MaxVersion \in Nat
    /\ AllowNonTool \in BOOLEAN
    /\ Malformed \notin Digests
    /\ Files \subseteq Seq(RawKey)
    /\ Asks \subseteq [door : Doors, local : BOOLEAN, token : Digests \cup {Malformed},
                       method : Methods, tool : Tools \cup {Wildcard, Stranger}]

VARIABLES
    files,    \* versions of the key file, the current one last
    clock,    \* the wall clock
    snap,     \* s.snap, with the version it was read from and when
    wiring,   \* the consumer's Config
    session,  \* the identity the SDK keeps with the stateful session
    pc,       \* where each request is
    ask,      \* what it asks for
    since,    \* ghost: the version in force when it came
    held,     \* verify's local e
    extra,    \* req.Extra.TokenInfo
    ctx,      \* the identity Store.Middleware left in the context
    listed    \* the tools of a tools/list result

store  == <<files, clock, snap>>
server == <<wiring, session>>
locals == <<pc, ask, since, held, extra, ctx, listed>>
vars   == <<store, server, locals>>

(***************************************************************************)
(* Identities: a TokenInfo with a copy of the key's tools and attrs, the   *)
(* consumer's own, or nil.  ver, at and checked are ghosts: the version    *)
(* and the reading of the clock with which the key was loaded, and the     *)
(* reading verify compared its expiry with.                                *)
(***************************************************************************)
Nobody  == [who |-> "nobody"]
Foreign == [who |-> "foreign"]
Holding(e, v, t) == [entry |-> e, ver |-> v, at |-> t]
NoHold  == [entry |-> "none"]

MinTime(a, b) == IF a < b THEN a ELSE b
TokenInfo(h) == [who |-> "key", key |-> h, checked |-> clock,
                 expiration |-> MinTime(h.entry.expires, clock + MaxTokenTTL)]

\* ToolFilter: no snapshot of tools, no tool; allow: "*" is no name.
ToolFilter(info, tool) ==
    /\ info.who = "key"
    /\ tool # Wildcard
    /\ tool \in info.key.entry.tools

ScopedMethod(m) == m \in {"tools/list", "tools/call", "ping"}

-----------------------------------------------------------------------------
NoAsk == [door |-> "none", local |-> FALSE, token |-> Malformed,
          method |-> "ping", tool |-> Stranger]

Init ==
    /\ files \in {<<f>> : f \in Files}
    /\ clock = 0
    /\ snap = [keys |-> {}, ver |-> 0, at |-> 0]
    /\ wiring = [auth |-> "none", guard |-> FALSE, bridge |-> FALSE,
                 loopback |-> "checked", serving |-> FALSE]
    /\ session = Nobody
    /\ pc = [r \in Requests |-> "idle"]
    /\ ask = [r \in Requests |-> NoAsk]
    /\ since = [r \in Requests |-> 0]
    /\ held = [r \in Requests |-> NoHold]
    /\ extra = [r \in Requests |-> Nobody]
    /\ ctx = [r \in Requests |-> Nobody]
    /\ listed = [r \in Requests |-> {}]

Goto(r, place) == pc' = [pc EXCEPT ![r] = place]

-----------------------------------------------------------------------------
(***************************************************************************)
(* The store and its file.                                                 *)
(***************************************************************************)
Publish ==
    /\ Len(files) < MaxVersion
    /\ \E f \in Files : files' = Append(files, f)
    /\ UNCHANGED <<clock, snap, server, locals>>

\* A wall clock moves both ways.
Tick ==
    /\ clock' \in 0 .. MaxClock
    /\ UNCHANGED <<files, snap, server, locals>>

Load ==
    /\ \E v \in snap.ver .. Len(files) : v > 0
          /\ snap' = [keys |-> Entries(files[v], clock), ver |-> v, at |-> clock]
    /\ UNCHANGED <<files, clock, server, locals>>

DenyAll ==
    /\ snap' = [snap EXCEPT !.keys = {}]
    /\ UNCHANGED <<files, clock, server, locals>>

-----------------------------------------------------------------------------
(***************************************************************************)
(* The consumer writes its Config.  With BearerAuth the guard is left to   *)
(* it, and Install does all or nothing.                                    *)
(***************************************************************************)
Setup == ~wiring.serving /\ UNCHANGED <<store, session, locals>>

EnableRESTBridge == Setup /\ wiring' = [wiring EXCEPT !.bridge = TRUE]

BearerAuth ==
    /\ Setup
    /\ \E guard \in {wiring.guard, TRUE} :
          wiring' = [wiring EXCEPT !.auth = "keyfile", !.loopback = "checked", !.guard = guard]

\* Install refuses what it finds set and then changes nothing.
Install ==
    /\ Setup
    /\ wiring.auth = "none" /\ ~wiring.bridge
    /\ wiring' = [wiring EXCEPT !.auth = "keyfile", !.guard = TRUE]

\* BearerAuth.LoopbackBypass, with or without LoopbackIdentity.
LoopbackBypass ==
    /\ Setup
    /\ wiring.auth = "keyfile"
    /\ \E identity \in {"nobody", "identity"} :
          wiring' = [wiring EXCEPT !.loopback = identity]

Serve == /\ Setup
         /\ wiring.auth = "keyfile"
         /\ wiring' = [wiring EXCEPT !.serving = TRUE]

-----------------------------------------------------------------------------
(***************************************************************************)
(* Authentication.                                                         *)
(***************************************************************************)
Bypasses(a) == a.local /\ wiring.loopback # "checked"

Arrive(r) ==
    /\ wiring.serving
    /\ pc[r] = "idle"
    /\ \E a \in Asks :
          /\ a.door = "rest" => wiring.bridge
          /\ ask' = [ask EXCEPT ![r] = a]
          /\ Goto(r, IF Bypasses(a) THEN "loopback" ELSE "verify")
    /\ since' = [since EXCEPT ![r] = snap.ver]
    /\ UNCHANGED <<store, server, held, extra, ctx, listed>>

\* verify: a malformed token is not looked up.
Reject(r) == Goto(r, "rejected") /\ UNCHANGED <<held, extra>>

LookUp(r) ==
    /\ pc[r] = "verify"
    /\ \/ /\ \E e \in snap.keys :
                /\ e.digest = ask[r].token
                /\ held' = [held EXCEPT ![r] = Holding(e, snap.ver, snap.at)]
          /\ Goto(r, "expiry")
          /\ UNCHANGED extra
       \/ /\ \A e \in snap.keys : e.digest # ask[r].token
          /\ Reject(r)
    /\ UNCHANGED <<store, server, ask, since, ctx, listed>>

\* What of the identity goes into req.Extra: the bridge's session has none.
Carried(r, info) == IF ask[r].door = "rest" THEN Nobody ELSE info

CheckExpiry(r) ==
    /\ pc[r] = "expiry"
    /\ IF clock < held[r].entry.expires
         THEN /\ extra' = [extra EXCEPT ![r] = TokenInfo(held[r])]
              /\ Goto(r, "admit")
              /\ UNCHANGED held
         ELSE Reject(r)
    /\ UNCHANGED <<store, server, ask, since, ctx, listed>>

\* RequireBearerToken checks the expiration once more; the first request of a
\* stateful session leaves its identity there.
Admit(r) ==
    /\ pc[r] = "admit"
    /\ \/ /\ clock <= extra[r].expiration
          /\ session' = IF session = Nobody THEN extra[r] ELSE session
          /\ extra' = [extra EXCEPT ![r] = Carried(r, @)]
          /\ Goto(r, "guard")
          /\ UNCHANGED held
       \/ /\ clock > extra[r].expiration
          /\ Reject(r)
          /\ UNCHANGED session
    /\ UNCHANGED <<store, wiring, ask, since, ctx, listed>>

\* loopbackChain: nil without LoopbackIdentity, else what the consumer returns;
\* an error, nil and an expired identity are rejected.
LoopbackChain(r) ==
    /\ pc[r] = "loopback"
    /\ \/ /\ wiring.loopback = "nobody"
          /\ extra' = [extra EXCEPT ![r] = Nobody]
          /\ Goto(r, "guard")
       \/ /\ wiring.loopback = "identity"
          /\ extra' = [extra EXCEPT ![r] = Carried(r, Foreign)]
          /\ Goto(r, "guard")
       \/ wiring.loopback = "identity" /\ Goto(r, "rejected") /\ UNCHANGED extra
    /\ UNCHANGED <<store, server, ask, since, held, ctx, listed>>

-----------------------------------------------------------------------------
(***************************************************************************)
(* The receiving middlewares, outermost first.                             *)
(***************************************************************************)

\* Mutant of TokenInfoFromRequest: the identity kept with the session.
TokenInfoOfSession(r) == IF extra[r] = Nobody THEN Nobody ELSE session

TokenInfoFromRequest(r) == extra[r]

\* Store.Middleware, where the consumer installed it.
Middleware(r) ==
    /\ pc[r] = "guard"
    /\ IF wiring.guard
         THEN /\ Goto(r, IF AllowNonTool \/ ScopedMethod(ask[r].method)
                           THEN "filter" ELSE "denied")
              /\ ctx' = [ctx EXCEPT ![r] = TokenInfoFromRequest(r)]
         ELSE Goto(r, "filter") /\ UNCHANGED ctx
    /\ UNCHANGED <<store, server, ask, since, held, extra, listed>>

\* toolFilterMiddleware: a call is decided before it goes on, a list is
\* filtered when it comes back.
FilterToolCall(r) ==
    /\ pc[r] = "filter" /\ ask[r].method = "tools/call"
    /\ Goto(r, IF ToolFilter(TokenInfoFromRequest(r), ask[r].tool)
                 THEN "running" ELSE "denied")
    /\ UNCHANGED <<store, server, ask, since, held, extra, ctx, listed>>

ListTools(r) ==
    /\ pc[r] = "filter" /\ ask[r].method = "tools/list"
    /\ listed' = [listed EXCEPT ![r] = Tools]
    /\ Goto(r, "list")
    /\ UNCHANGED <<store, server, ask, since, held, extra, ctx>>

FilterToolList(r) ==
    /\ pc[r] = "list"
    /\ listed' = [listed EXCEPT ![r] =
                    {t \in @ : ToolFilter(TokenInfoFromRequest(r), t)}]
    /\ Goto(r, "answered")
    /\ UNCHANGED <<store, server, ask, since, held, extra, ctx>>

PassOn(r) ==
    /\ pc[r] = "filter" /\ ask[r].method \notin {"tools/list", "tools/call"}
    /\ Goto(r, "handled")
    /\ UNCHANGED <<store, server, ask, since, held, extra, ctx, listed>>

\* The answer is out and the request forgotten.
Finish(r) ==
    /\ pc[r] \in {"rejected", "denied", "running", "answered", "handled"}
    /\ Goto(r, "idle")
    /\ ask' = [ask EXCEPT ![r] = NoAsk]
    /\ since' = [since EXCEPT ![r] = 0]
    /\ held' = [held EXCEPT ![r] = NoHold]
    /\ extra' = [extra EXCEPT ![r] = Nobody]
    /\ ctx' = [ctx EXCEPT ![r] = Nobody]
    /\ listed' = [listed EXCEPT ![r] = {}]
    /\ UNCHANGED <<store, server>>

File == Publish \/ Tick \/ Load \/ DenyAll
Wire == EnableRESTBridge \/ BearerAuth \/ Install \/ LoopbackBypass \/ Serve
Authenticate(r) == Arrive(r) \/ LookUp(r) \/ CheckExpiry(r) \/ Admit(r) \/ LoopbackChain(r)
Receive(r) == Middleware(r) \/ FilterToolCall(r) \/ ListTools(r) \/ FilterToolList(r)
                \/ PassOn(r) \/ Finish(r)

Next == File \/ Wire \/ \E r \in Requests : Authenticate(r) \/ Receive(r)

Spec == Init /\ [][Next]_vars
-----------------------------------------------------------------------------
(***************************************************************************)
(* Type invariant.                                                         *)
(***************************************************************************)
Holdings   == [entry : KeyEntry, ver : Nat, at : Nat]
KeyInfo    == [who : {"key"}, key : Holdings, checked : Nat, expiration : Int]
Identities == {Nobody, Foreign} \cup KeyInfo

StoreType ==
    /\ files \in Seq(Files)
    /\ clock \in Nat
    /\ snap \in [keys : SUBSET KeyEntry, ver : Nat, at : Nat]
ServerType ==
    /\ wiring \in [auth : {"none", "keyfile"}, guard : BOOLEAN, bridge : BOOLEAN,
                   loopback : {"checked", "nobody", "identity"}, serving : BOOLEAN]
    /\ session \in Identities
RequestType ==
    /\ pc \in [Requests -> {"idle", "loopback", "verify", "expiry", "admit", "guard", "filter",
                            "list", "running", "answered", "handled", "denied", "rejected"}]
    /\ ask \in [Requests -> Asks \cup {NoAsk}]
    /\ since \in [Requests -> Nat]
    /\ held \in [Requests -> Holdings \cup {NoHold}]
    /\ extra \in [Requests -> Identities]
    /\ ctx \in [Requests -> Identities]
    /\ listed \in [Requests -> SUBSET Tools]

\* Every variable holds a value of its type; what has been loaded names
\* registered tools only.
TypeOK == StoreType /\ ServerType /\ RequestType

-----------------------------------------------------------------------------
(***************************************************************************)
(* Safety.                                                                 *)
(***************************************************************************)

\* The file grants the tool to the token of r: the version r was verified
\* against did when it was loaded, and still when its expiry was compared.
Granted(r, tool) ==
    /\ extra[r].who = "key"
    /\ LET key == extra[r].key IN
         /\ Grants(files[key.ver], key.at, ask[r].token, tool)
         /\ Grants(files[key.ver], extra[r].checked, ask[r].token, tool)

\* Enforcement (keyfile/doc.go): a tool runs, and is listed, exactly for the
\* tokens that one version of the key file grants it, to which a request binds
\* when it is verified and which no reload changes afterwards.  Ambiguous,
\* invalid, vetoed and expired entries grant nothing and take nothing from the
\* others; requests without identity, by the bridge or from loopback, get none.
GrantedExactly ==
    \A r \in Requests :
        /\ pc[r] = "running" => Granted(r, ask[r].tool)
        /\ pc[r] = "answered" => listed[r] = {t \in Tools : Granted(r, t)}
        /\ pc[r] = "denied" /\ ask[r].method = "tools/call" => ~Granted(r, ask[r].tool)

\* Both ways to read the attrs give the current request's identity
\* (keyfile/doc.go, keyfile.go:353): it belongs to the token presented now and
\* to a version no older than the one in force when the request came, also in
\* a session that was opened under an older one.
OwnIdentity ==
    \A r \in Requests :
        pc[r] \in {"running", "answered", "handled"} =>
            /\ extra[r].who = "key" => /\ extra[r].key.ver >= since[r]
                                      /\ extra[r].key.entry.digest = ask[r].token
            /\ wiring.guard => ctx[r] = extra[r]
=============================================================================
