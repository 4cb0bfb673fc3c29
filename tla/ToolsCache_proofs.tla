-------------------------- MODULE ToolsCache_proofs -------------------------
(***************************************************************************)
(* Proofs about ToolsCache, for any handlers, tools, callers, filters and  *)
(* TTL.                                                                    *)
(***************************************************************************)
EXTENDS ToolsCache, TLAPS

-----------------------------------------------------------------------------
(***************************************************************************)
(* The inductive invariant.                                                *)
(***************************************************************************)

\* The mutex is held exactly by the one that refreshes, and the cache stays too
\* old as long as it does.
MutexInv(r) ==
    /\ Refreshing(r) <=> cacheMu = r
    /\ Refreshing(r) => Expired

\* The pages that have been fetched are right about what did not change.
FetchInv(r) ==
    IF Refreshing(r)
      THEN /\ \A t \in fetch[r].listed : t <= fetch[r].cursor
           /\ \A t \in Tools \ during[r] :
                pc[r] = "fetched" \/ t <= fetch[r].cursor =>
                    (t \in fetch[r].listed <=> t \in Visible)
      ELSE fetch[r] = Fresh /\ during[r] = {}

\* So is the cache, and the map and the list are of one refresh.
CacheInv ==
    ~cachedErr =>
        /\ cachedByName = cachedTools
        /\ \A t \in Tools \ changed : t \in cachedTools <=> t \in Visible

\* Between getTool's two locks the map is right about the name that is looked
\* up, and stays so: a refresh that another request has begun meanwhile was
\* begun after the one this request has seen.
LookupInv(r) ==
    pc[r] = "lookup" =>
        /\ \A t \in steady[r] : t \in cachedByName <=> t \in Visible
        /\ \A q \in Requests : Refreshing(q) => steady[r] \cap during[q] = {}

\* A request has no answer before it is answered.
Pending(r) ==
    /\ pc[r] # "answered" => answer[r] = {} /\ outcome[r] = "none"
    /\ pc[r] \notin {"lookup", "answered"} => steady[r] = {}

RequestInv ==
    \A r \in Requests : MutexInv(r) /\ FetchInv(r) /\ LookupInv(r) /\ Pending(r)

IInv == TypeOK /\ RequestInv /\ CacheInv /\ ServedAccurately /\ OnlyPermitted

-----------------------------------------------------------------------------
(***************************************************************************)
(* Type correctness.                                                       *)
(***************************************************************************)
LEMMA TypeInit == Init => TypeOK
<1> SUFFICES ASSUME Init PROVE TypeOK OBVIOUS
<1> USE CallerAssumption DEF Init
<1>1. CacheType BY DEF CacheType
<1>2. RequestType BY DEF RequestType, Places
<1>3. FetchType
  <2>1. Fresh \in [cursor : Tools \cup {0}, listed : SUBSET Tools] BY DEF Fresh
  <2> QED BY <2>1 DEF FetchType
<1> QED BY <1>1, <1>2, <1>3 DEF TypeOK

LEMMA Subsets ==
    ASSUME TypeOK, NEW r \in Requests
    PROVE  /\ ask[r].about \subseteq Tools
           /\ toolPermitted(r) \subseteq Tools
           /\ toolPermitted(r) \subseteq Permits[ask[r].caller]
           /\ Visible \subseteq Tools
<1>1. ask[r] \in Asks \cup {Idle} BY DEF TypeOK, RequestType
<1>2. ask[r].caller \in Callers /\ ask[r].about \subseteq Tools
  BY <1>1, AskAssumption, CallerAssumption DEF Idle
<1> QED BY <1>2, CallerAssumption DEF toolPermitted, Visible, TypeOK, CacheType

LEMMA ReplyType ==
    ASSUME RequestType, NEW r \in Requests, NEW result \in {"served", "failed"},
           NEW tools \in SUBSET Tools, Reply(r, result, tools), steady' \in [Requests -> SUBSET Tools]
    PROVE  RequestType'
BY DEF Reply, RequestType, Places

LEMMA ReturnType ==
    ASSUME TypeOK, NEW r \in Requests, NEW tools \in SUBSET Tools, NEW err \in BOOLEAN,
           NEW since \in SUBSET Tools, Return(r, tools, err, since)
    PROVE  RequestType'
<1>1. steady' \in [Requests -> SUBSET Tools]
  BY Subsets DEF Return, TypeOK, RequestType
<1>2. CASE Reply(r, "failed", {}) BY <1>1, <1>2, ReplyType DEF TypeOK
<1>3. CASE Reply(r, "served", tools \cap toolPermitted(r))
  BY <1>1, <1>3, ReplyType DEF TypeOK
<1>4. CASE pc' = [pc EXCEPT ![r] = "lookup"] /\ UNCHANGED <<ask, answer, outcome>>
  BY <1>1, <1>4 DEF TypeOK, RequestType, Places
<1> QED BY <1>2, <1>3, <1>4 DEF Return

LEMMA InstallType ==
    ASSUME TypeOK, NEW r \in Requests, NEW tools \in SUBSET Tools, NEW err \in BOOLEAN,
           err => tools = {}, Install(r, tools, err)
    PROVE  TypeOK'
<1> USE TTLAssumption DEF Install, Fill
<1>1. CacheType' BY DEF TypeOK, CacheType, FetchType
<1>2. RequestType'
  <2>1. during[r] \in SUBSET Tools BY DEF TypeOK, FetchType
  <2> QED BY <2>1, ReturnType
<1>3. FetchType'
  <2>1. Fresh \in [cursor : Tools \cup {0}, listed : SUBSET Tools] BY DEF Fresh
  <2> QED BY <2>1 DEF TypeOK, FetchType
<1> QED BY <1>1, <1>2, <1>3 DEF TypeOK

LEMMA PageType == ASSUME TypeOK, NEW r \in Requests, Page(r) PROVE TypeOK'
<1>1. CacheType' BY DEF Page, TypeOK, CacheType, cacheVars
<1>2. RequestType' BY DEF Page, TypeOK, RequestType, Places
<1>3. FetchType'
  <2>1. CASE UNCHANGED fetch BY <2>1 DEF Page, TypeOK, FetchType
  <2>2. ASSUME NEW last \in After(fetch[r].cursor),
               fetch' = [fetch EXCEPT ![r] =
                 [cursor |-> last,
                  listed |-> @.listed \cup {t \in After(@.cursor) \cap Visible : t <= last}]]
        PROVE  FetchType'
    BY <2>2, Subsets DEF Page, TypeOK, FetchType, CacheType, After
  <2> QED BY <2>1, <2>2 DEF Page
<1> QED BY <1>1, <1>2, <1>3 DEF TypeOK

LEMMA TypeStep == TypeOK /\ [Next]_vars => TypeOK'
<1> SUFFICES ASSUME TypeOK, [Next]_vars PROVE TypeOK' OBVIOUS
<1> USE TTLAssumption DEF cacheVars, requestVars, fetchVars
<1> USE DEF TypeOK, CacheType, FetchType
<1>1. ASSUME NEW r \in Requests, Arrive(r) PROVE TypeOK'
  BY <1>1 DEF Arrive, RequestType, Places
<1>2. ASSUME NEW r \in Requests, CallTool(r) PROVE TypeOK'
  BY <1>2, Subsets, ReplyType DEF CallTool, RequestType
<1>3. ASSUME NEW r \in Requests, Hit(r) PROVE TypeOK'
  BY <1>3, ReturnType DEF Hit
<1>4. ASSUME NEW r \in Requests, Miss(r) PROVE TypeOK'
  BY <1>4 DEF Miss, RequestType, Places
<1>5. ASSUME NEW r \in Requests, Page(r) PROVE TypeOK' BY <1>5, PageType
<1>6. ASSUME NEW r \in Requests, Refreshed(r) PROVE TypeOK'
  <2>1. fetch[r].listed \in SUBSET Tools OBVIOUS
  <2> QED BY <1>6, <2>1, InstallType DEF Refreshed
<1>7. ASSUME NEW r \in Requests, RefreshFails(r) PROVE TypeOK'
  BY <1>7, InstallType DEF RefreshFails
<1>8. ASSUME NEW r \in Requests, Lookup(r) PROVE TypeOK'
  BY <1>8, Subsets, ReplyType DEF Lookup, RequestType
<1>9. ASSUME NEW r \in Requests, Finish(r) PROVE TypeOK'
  BY <1>9 DEF Finish, RequestType, Places
<1>10. ASSUME NEW t \in Tools, ChangeTool(t) PROVE TypeOK'
  BY <1>10 DEF ChangeTool, RequestType
<1>11. CASE Tick BY <1>11 DEF Tick, RequestType, Zero
<1>12. CASE UNCHANGED vars BY <1>12 DEF vars, RequestType
<1> QED
  BY <1>1, <1>2, <1>3, <1>4, <1>5, <1>6, <1>7, <1>8, <1>9, <1>10, <1>11, <1>12
  DEF Next, RequestStep, GetTools, Fetching

-----------------------------------------------------------------------------
(***************************************************************************)
(* The invariant, action by action.                                        *)
(***************************************************************************)
Rest == RequestInv /\ CacheInv /\ ServedAccurately /\ OnlyPermitted

LEMMA RestInit == Init => Rest
BY NoneAssumption
DEF Init, Rest, RequestInv, MutexInv, FetchInv, LookupInv, Pending, CacheInv,
    ServedAccurately, OnlyPermitted, Refreshing

\* A refresh begins with nothing fetched and nothing that has changed.
LEMMA MissStep == ASSUME IInv, NEW r \in Requests, Miss(r) PROVE Rest'
<1> USE DEF Miss, IInv, TypeOK, RequestType, cacheVars, fetchVars
<1>1. \A q \in Requests : ~Refreshing(q)
  BY NoneAssumption DEF RequestInv, MutexInv
<1>2. \A q \in Requests : pc'[q] = IF q = r THEN "page" ELSE pc[q] OBVIOUS
<1>3. \A q \in Requests : MutexInv(q)'
  BY <1>1, <1>2 DEF MutexInv, Refreshing, Expired
<1>4. \A q \in Requests : FetchInv(q)'
  <2>1. \A q \in Requests : fetch[q] = Fresh /\ during[q] = {}
    BY <1>1 DEF RequestInv, FetchInv
  <2>2. \A t \in Tools : ~(t <= 0) BY ToolAssumption
  <2>3. fetch'[r].cursor = 0 /\ fetch'[r].listed = {} BY <2>1 DEF Fresh
  <2>4. FetchInv(r)' BY <1>2, <2>2, <2>3 DEF FetchInv, Refreshing
  <2>5. ASSUME NEW q \in Requests, q # r PROVE FetchInv(q)'
    BY <1>1, <1>2, <2>1, <2>5 DEF FetchInv, Refreshing
  <2> QED BY <2>4, <2>5
<1>5. \A q \in Requests : LookupInv(q)'
  <2>1. \A q \in Requests : during[q] = {} BY <1>1 DEF RequestInv, FetchInv
  <2> QED BY <1>2, <2>1 DEF RequestInv, LookupInv, Visible
<1>6. \A q \in Requests : Pending(q)' BY <1>2 DEF RequestInv, Pending
<1>7. CacheInv' BY DEF CacheInv, Visible
<1>8. ServedAccurately' BY DEF ServedAccurately, Visible, toolPermitted
<1>9. OnlyPermitted' BY DEF OnlyPermitted
<1> QED BY <1>3, <1>4, <1>5, <1>6, <1>7, <1>8, <1>9 DEF Rest, RequestInv

\* A page holds every tool up to its last one.
LEMMA PageStep == ASSUME IInv, NEW r \in Requests, Page(r) PROVE Rest'
<1> USE DEF Page, IInv, TypeOK, RequestType, cacheVars
<1>1. \A q \in Requests : q # r => pc'[q] = pc[q] /\ fetch'[q] = fetch[q]
  BY DEF FetchType
<1>2. pc'[r] \in {"page", "fetched"} /\ Refreshing(r) /\ Refreshing(r)'
  BY DEF Refreshing
<1>3. \A q \in Requests : Refreshing(q)' <=> Refreshing(q) BY <1>1, <1>2 DEF Refreshing
<1>4. \A q \in Requests : MutexInv(q)' BY <1>3 DEF RequestInv, MutexInv, Expired
<1>5. FetchInv(r)'
  <2>1. FetchInv(r) BY DEF RequestInv
  <2>2. fetch[r].cursor \in Nat /\ Tools \subseteq Nat /\ fetch[r].listed \subseteq Tools
    <3>1. fetch[r] \in [cursor : Tools \cup {0}, listed : SUBSET Tools] BY DEF FetchType
    <3>2. fetch[r].cursor \in Tools \cup {0} /\ fetch[r].listed \subseteq Tools BY <3>1
    <3>3. Tools \subseteq Nat BY ToolAssumption
    <3>4. fetch[r].cursor \in Nat
      <4>1. CASE fetch[r].cursor = 0 BY <4>1
      <4>2. CASE fetch[r].cursor \in Tools BY <3>3, <4>2
      <4> QED BY <3>2, <4>1, <4>2
    <3> QED BY <3>2, <3>3, <3>4
  <2>3. CASE After(fetch[r].cursor) = {} /\ UNCHANGED fetch /\ pc'[r] = "fetched"
    <3>1. \A t \in registered : t <= fetch[r].cursor
      BY <2>2, <2>3 DEF After, CacheType
    <3>2. \A t \in Tools \ during[r] : t \in fetch[r].listed <=> t \in Visible
      BY <1>2, <2>1, <2>2, <3>1 DEF FetchInv, Visible
    <3> QED BY <1>2, <2>1, <2>3, <3>2 DEF FetchInv, Visible
  <2>4. ASSUME NEW last \in After(fetch[r].cursor),
               fetch'[r] = [cursor |-> last,
                            listed |-> fetch[r].listed \cup
                              {t \in After(fetch[r].cursor) \cap Visible : t <= last}],
               pc'[r] = IF After(last) = {} THEN "fetched" ELSE "page"
        PROVE  FetchInv(r)'
    <3>1. last \in Nat /\ last > fetch[r].cursor BY <2>2 DEF After, CacheType
    <3>2. ASSUME NEW t \in fetch'[r].listed PROVE t <= last
      <4>1. CASE t \in fetch[r].listed
        <5>1. t <= fetch[r].cursor /\ t \in Nat BY <1>2, <2>1, <2>2, <4>1 DEF FetchInv
        <5> QED BY <2>2, <3>1, <5>1
      <4>2. CASE t \notin fetch[r].listed BY <2>4, <3>2, <4>2
      <4> QED BY <4>1, <4>2
    <3>3. \A t \in Tools \ during[r] :
             t <= last => (t \in fetch'[r].listed <=> t \in Visible)
      BY <1>2, <2>1, <2>2, <2>4, <3>1 DEF FetchInv, After, Visible
    <3>4. pc'[r] = "fetched" => \A t \in registered : t <= last
      BY <2>2, <2>4, <3>1 DEF After, CacheType
    <3>5. pc'[r] = "fetched" =>
             \A t \in Tools \ during[r] : t \in fetch'[r].listed <=> t \in Visible
      BY <3>2, <3>3, <3>4 DEF Visible
    <3> QED BY <1>2, <2>4, <3>2, <3>3, <3>5 DEF FetchInv, Visible
  <2> QED BY <2>3, <2>4 DEF FetchType
<1>6. \A q \in Requests : q # r => FetchInv(q)'
  BY <1>1, <1>3 DEF RequestInv, FetchInv, Visible
<1>7. \A q \in Requests : LookupInv(q)'
  BY <1>1, <1>2, <1>3 DEF RequestInv, LookupInv, Visible
<1>8. \A q \in Requests : Pending(q)' BY <1>1, <1>2 DEF RequestInv, Pending, Refreshing
<1>9. CacheInv' BY DEF CacheInv, Visible
<1>10. ServedAccurately' BY DEF ServedAccurately, Visible, toolPermitted
<1>11. OnlyPermitted' BY DEF OnlyPermitted
<1> QED BY <1>4, <1>5, <1>6, <1>7, <1>8, <1>9, <1>10, <1>11 DEF Rest, RequestInv

\* What getTools returns is right about everything that is steady.
LEMMA ReturnStep ==
    ASSUME IInv, NEW r \in Requests, pc[r] \in {"list", "page", "fetched"},
           NEW tools \in SUBSET Tools, NEW err \in BOOLEAN, NEW since \in SUBSET Tools,
           ~err => \A t \in Tools \ since : t \in tools <=> t \in Visible,
           Return(r, tools, err, since), registered' = registered
    PROVE  ServedAccurately' /\ OnlyPermitted' /\ \A q \in Requests : Pending(q)'
<1> USE DEF Return, IInv, TypeOK, RequestType
<1>1. ask' = ask BY DEF Reply
<1>2. \A q \in Requests : toolPermitted(q)' = toolPermitted(q) /\ Visible' = Visible
  BY <1>1 DEF toolPermitted, Visible
<1>3. \A q \in Requests : q # r => /\ pc'[q] = pc[q] /\ answer'[q] = answer[q]
                                   /\ outcome'[q] = outcome[q] /\ steady'[q] = steady[q]
  BY DEF Reply
<1>4. answer[r] = {} /\ outcome[r] = "none" /\ steady[r] = {}
  BY DEF RequestInv, Pending
<1>5. \/ pc'[r] = "answered" /\ outcome'[r] = "failed" /\ answer'[r] = {}
      \/ /\ ~err /\ pc'[r] = "answered" /\ outcome'[r] = "served"
         /\ answer'[r] = tools \cap toolPermitted(r)
         /\ steady'[r] = ask[r].about \ since
      \/ pc'[r] = "lookup" /\ answer'[r] = {} /\ outcome'[r] = "none"
  <2>1. CASE err BY <2>1 DEF Reply
  <2>2. CASE ~err /\ ask[r].op = "list" BY <2>2 DEF Reply
  <2>3. CASE ~err /\ ask[r].op = "get" BY <1>4, <2>3
  <2> QED BY <2>1, <2>2, <2>3
<1>6. ServedAccurately'
  <2>1. ASSUME outcome'[r] = "served"
        PROVE  answer'[r] \cap steady'[r] = Visible \cap toolPermitted(r) \cap steady'[r]
    <3>1. steady'[r] \subseteq Tools \ since BY <1>5, <2>1, Subsets
    <3> QED BY <1>5, <2>1, <3>1
  <2> QED BY <1>2, <1>3, <2>1 DEF ServedAccurately
<1>7. OnlyPermitted' BY <1>1, <1>3, <1>5, Subsets DEF OnlyPermitted
<1>8. \A q \in Requests : Pending(q)' BY <1>3, <1>5 DEF RequestInv, Pending
<1> QED BY <1>6, <1>7, <1>8

LEMMA HitStep == ASSUME IInv, NEW r \in Requests, Hit(r) PROVE Rest'
<1> USE DEF Hit, IInv, cacheVars, fetchVars
<1>1. ServedAccurately' /\ OnlyPermitted' /\ \A q \in Requests : Pending(q)'
  BY ReturnStep DEF CacheInv, TypeOK, CacheType
<1>2. ask' = ask BY DEF Return, Reply
<1>3. \A q \in Requests : ~Refreshing(q)
  BY NoneAssumption DEF RequestInv, MutexInv
<1>4. pc'[r] \in {"answered", "lookup"} /\ \A q \in Requests : q # r => pc'[q] = pc[q]
  BY DEF Return, Reply, TypeOK, RequestType
<1>5. \A q \in Requests : ~Refreshing(q)' BY <1>3, <1>4 DEF Refreshing
<1>6. \A q \in Requests : MutexInv(q)' BY <1>3, <1>5 DEF RequestInv, MutexInv
<1>7. \A q \in Requests : FetchInv(q)' BY <1>3, <1>5 DEF RequestInv, FetchInv
<1>8. LookupInv(r)'
  <2>1. ASSUME pc'[r] = "lookup" PROVE ~cachedErr /\ steady'[r] \subseteq Tools \ changed
    BY <2>1, Subsets DEF Return, Reply, TypeOK, RequestType
  <2> QED BY <1>5, <2>1 DEF LookupInv, CacheInv, Visible
<1>9. ASSUME NEW q \in Requests, q # r PROVE LookupInv(q)'
  <2>1. steady'[q] = steady[q] BY <1>9 DEF Return, TypeOK, RequestType
  <2> QED BY <1>4, <1>5, <1>9, <2>1 DEF RequestInv, LookupInv, Visible
<1>10. CacheInv' BY DEF CacheInv, Visible
<1> QED BY <1>1, <1>6, <1>7, <1>8, <1>9, <1>10 DEF Rest, RequestInv

\* A refresh ends: nobody else has one, and whoever is between getTool's locks
\* finds in a new map what it would have found in the old one.
LEMMA InstallStep ==
    ASSUME IInv, NEW r \in Requests, Refreshing(r), NEW tools \in SUBSET Tools,
           NEW err \in BOOLEAN,
           ~err => \A t \in Tools \ during[r] : t \in tools <=> t \in Visible,
           Install(r, tools, err)
    PROVE  Rest'
<1> USE DEF Install, Fill, IInv
<1>1. pc[r] \in {"page", "fetched"} /\ during[r] \in SUBSET Tools
  BY DEF Refreshing, TypeOK, FetchType
<1>2. ServedAccurately' /\ OnlyPermitted' /\ \A q \in Requests : Pending(q)'
  BY <1>1, ReturnStep
<1>3. \A q \in Requests : q # r => ~Refreshing(q) BY DEF RequestInv, MutexInv
<1>4. pc'[r] \in {"answered", "lookup"} /\ \A q \in Requests : q # r => pc'[q] = pc[q]
  BY DEF Return, Reply, TypeOK, RequestType
<1>5. \A q \in Requests : ~Refreshing(q)' BY <1>3, <1>4 DEF Refreshing
<1>6. \A q \in Requests : MutexInv(q)' BY <1>5, NoneAssumption DEF MutexInv
<1>7. \A q \in Requests : FetchInv(q)'
  <2>1. fetch'[r] = Fresh /\ during'[r] = {} BY DEF TypeOK, FetchType
  <2>2. \A q \in Requests : q # r => fetch'[q] = Fresh /\ during'[q] = {}
    BY <1>3 DEF RequestInv, FetchInv, TypeOK, FetchType
  <2> QED BY <1>5, <2>1, <2>2 DEF FetchInv, Fresh
<1>8. CacheInv' BY DEF CacheInv, Visible
<1>9. LookupInv(r)'
  <2>1. ASSUME pc'[r] = "lookup" PROVE ~err /\ steady'[r] \subseteq Tools \ during[r]
    BY <2>1, Subsets DEF Return, Reply, TypeOK, RequestType
  <2> QED BY <1>5, <2>1 DEF LookupInv, Visible
<1>10. ASSUME NEW q \in Requests, q # r PROVE LookupInv(q)'
  <2>1. steady'[q] = steady[q] /\ steady[q] \subseteq Tools
    BY <1>10 DEF Return, TypeOK, RequestType
  <2>2. ASSUME pc[q] = "lookup" PROVE \A t \in steady[q] : t \in cachedByName' <=> t \in Visible
    <3>1. steady[q] \cap during[r] = {} BY <2>2 DEF RequestInv, LookupInv
    <3>2. CASE err BY <2>2, <3>2 DEF RequestInv, LookupInv
    <3>3. CASE ~err BY <2>1, <3>1, <3>3
    <3> QED BY <3>2, <3>3
  <2> QED BY <1>4, <1>5, <1>10, <2>1, <2>2 DEF LookupInv, Visible
<1> QED BY <1>2, <1>6, <1>7, <1>8, <1>9, <1>10 DEF Rest, RequestInv

LEMMA RefreshStep ==
    ASSUME IInv, NEW r \in Requests, Refreshed(r) \/ RefreshFails(r) PROVE Rest'
<1>1. CASE Refreshed(r)
  <2>1. Refreshing(r) /\ fetch[r].listed \in SUBSET Tools
    BY <1>1 DEF Refreshed, Refreshing, IInv, TypeOK, FetchType
  <2>2. \A t \in Tools \ during[r] : t \in fetch[r].listed <=> t \in Visible
    BY <1>1, <2>1 DEF Refreshed, IInv, RequestInv, FetchInv
  <2> QED BY <1>1, <2>1, <2>2, InstallStep DEF Refreshed
<1>2. CASE RefreshFails(r)
  BY <1>2, InstallStep DEF RefreshFails, Refreshing
<1> QED BY <1>1, <1>2

LEMMA LookupStep == ASSUME IInv, NEW r \in Requests, Lookup(r) PROVE Rest'
<1> USE DEF Lookup, Reply, IInv, TypeOK, RequestType, cacheVars, fetchVars
<1>1. \A q \in Requests : pc'[q] = IF q = r THEN "answered" ELSE pc[q] OBVIOUS
<1>2. \A q \in Requests : Refreshing(q)' <=> Refreshing(q) BY <1>1 DEF Refreshing
<1>3. \A q \in Requests : MutexInv(q)' BY <1>2 DEF RequestInv, MutexInv, Expired
<1>4. \A q \in Requests : FetchInv(q)'
  BY <1>1, <1>2 DEF RequestInv, FetchInv, Refreshing, Visible
<1>5. \A q \in Requests : LookupInv(q)' BY <1>1, <1>2 DEF RequestInv, LookupInv, Visible
<1>6. \A q \in Requests : Pending(q)' BY <1>1 DEF RequestInv, Pending
<1>7. CacheInv' BY DEF CacheInv, Visible
<1>8. ServedAccurately'
  <2>1. cachedByName \cap steady[r] = Visible \cap steady[r]
    BY DEF RequestInv, LookupInv
  <2>2. answer'[r] \cap steady[r] = Visible \cap toolPermitted(r) \cap steady[r]
    BY <2>1
  <2>3. \A q \in Requests : q # r => answer'[q] = answer[q] /\ outcome'[q] = outcome[q]
    OBVIOUS
  <2>4. \A q \in Requests : toolPermitted(q)' = toolPermitted(q) /\ Visible' = Visible
    BY DEF toolPermitted, Visible
  <2> QED BY <2>2, <2>3, <2>4 DEF ServedAccurately
<1>9. OnlyPermitted' BY Subsets DEF OnlyPermitted
<1> QED BY <1>3, <1>4, <1>5, <1>6, <1>7, <1>8, <1>9 DEF Rest, RequestInv

\* What holds of the requests and the cache in a step of one request that
\* leaves the refreshes, the cache and the other requests alone.
LEMMA OwnStep ==
    ASSUME IInv, NEW r \in Requests, ~Refreshing(r), pc[r] # "lookup",
           UNCHANGED <<registered, cacheMu, cacheVars, fetchVars>>,
           \A q \in Requests : q # r => /\ pc'[q] = pc[q] /\ ask'[q] = ask[q]
                                        /\ answer'[q] = answer[q]
                                        /\ outcome'[q] = outcome[q]
                                        /\ steady'[q] = steady[q],
           pc'[r] \in {"idle", "call", "list", "answered"}, Pending(r)',
           steady'[r] = {}, answer'[r] \subseteq Permits[ask'[r].caller]
    PROVE  Rest'
<1> USE DEF IInv, cacheVars, fetchVars
<1>1. \A q \in Requests : Refreshing(q)' <=> Refreshing(q) BY DEF Refreshing
<1>2. \A q \in Requests : MutexInv(q)' BY <1>1 DEF RequestInv, MutexInv, Expired
<1>3. \A q \in Requests : FetchInv(q)'
  BY <1>1 DEF RequestInv, FetchInv, Refreshing, Visible
<1>4. \A q \in Requests : LookupInv(q)' BY <1>1 DEF RequestInv, LookupInv, Visible
<1>5. \A q \in Requests : Pending(q)' BY DEF RequestInv, Pending
<1>6. CacheInv' BY DEF CacheInv, Visible
<1>7. ServedAccurately'
  <2>1. \A q \in Requests : q # r => toolPermitted(q)' = toolPermitted(q)
    BY DEF toolPermitted
  <2> QED BY <2>1 DEF ServedAccurately, Visible
<1>8. OnlyPermitted' BY DEF OnlyPermitted
<1> QED BY <1>2, <1>3, <1>4, <1>5, <1>6, <1>7, <1>8 DEF Rest, RequestInv

LEMMA ArriveStep == ASSUME IInv, NEW r \in Requests, Arrive(r) PROVE Rest'
<1> USE DEF Arrive, IInv, TypeOK, RequestType
<1>1. ~Refreshing(r) /\ pc[r] # "lookup" /\ pc[r] # "answered" BY DEF Refreshing
<1>2. answer[r] = {} /\ outcome[r] = "none" /\ steady[r] = {}
  BY <1>1 DEF RequestInv, Pending
<1>3. pc'[r] \in {"call", "list"} OBVIOUS
<1>4. \A q \in Requests : q # r => pc'[q] = pc[q] /\ ask'[q] = ask[q] OBVIOUS
<1>5. Pending(r)' BY <1>2, <1>3 DEF Pending
<1> QED BY <1>1, <1>2, <1>3, <1>4, <1>5, OwnStep

LEMMA CallStep == ASSUME IInv, NEW r \in Requests, CallTool(r) PROVE Rest'
<1> USE DEF CallTool, Reply, IInv, TypeOK, RequestType
<1>1. ~Refreshing(r) /\ pc[r] # "lookup" BY DEF Refreshing
<1>2. steady'[r] = {} BY DEF RequestInv, Pending
<1>3. pc'[r] = "answered" OBVIOUS
<1>4. \A q \in Requests : q # r => /\ pc'[q] = pc[q] /\ ask'[q] = ask[q]
                                   /\ answer'[q] = answer[q] /\ outcome'[q] = outcome[q]
                                   /\ steady'[q] = steady[q]
  OBVIOUS
<1>5. answer'[r] \subseteq Permits[ask'[r].caller] BY Subsets
<1>6. Pending(r)' BY <1>3 DEF Pending
<1> QED BY <1>1, <1>2, <1>3, <1>4, <1>5, <1>6, OwnStep

LEMMA FinishStep == ASSUME IInv, NEW r \in Requests, Finish(r) PROVE Rest'
<1> USE DEF Finish, IInv, TypeOK, RequestType
<1>1. ~Refreshing(r) /\ pc[r] # "lookup" BY DEF Refreshing
<1>2. pc'[r] = "idle" /\ answer'[r] = {} /\ outcome'[r] = "none" /\ steady'[r] = {}
  OBVIOUS
<1>3. \A q \in Requests : q # r => /\ pc'[q] = pc[q] /\ ask'[q] = ask[q]
                                   /\ answer'[q] = answer[q] /\ outcome'[q] = outcome[q]
                                   /\ steady'[q] = steady[q]
  OBVIOUS
<1>4. Pending(r)' BY <1>2 DEF Pending
<1> QED BY <1>1, <1>2, <1>3, <1>4, OwnStep

\* Whatever a tool's coming or going makes wrong, it also takes out of what is
\* claimed.
LEMMA ChangeStep == ASSUME IInv, NEW t \in Tools, ChangeTool(t) PROVE Rest'
<1> USE DEF ChangeTool, IInv, TypeOK, RequestType, FetchType
<1>1. \A u \in Tools : u # t => (u \in Visible' <=> u \in Visible)
  BY DEF Visible, CacheType
<1>2. \A q \in Requests : Refreshing(q)' <=> Refreshing(q) BY DEF Refreshing
<1>3. \A q \in Requests :
        /\ Refreshing(q) => during'[q] = during[q] \cup {t}
        /\ ~Refreshing(q) => during'[q] = {}
        /\ steady'[q] = steady[q] \ {t}
  OBVIOUS
<1>4. \A q \in Requests : MutexInv(q)' BY <1>2 DEF RequestInv, MutexInv, Expired
<1>5. ASSUME NEW q \in Requests PROVE FetchInv(q)'
  <2>1. FetchInv(q) BY DEF RequestInv
  <2>2. CASE Refreshing(q) BY <1>1, <1>2, <1>3, <2>1, <2>2 DEF FetchInv
  <2>3. CASE ~Refreshing(q) BY <1>2, <1>3, <2>1, <2>3 DEF FetchInv, Fresh
  <2> QED BY <2>2, <2>3
<1>6. ASSUME NEW q \in Requests PROVE LookupInv(q)'
  <2>1. LookupInv(q) BY DEF RequestInv
  <2>2. \A u \in steady'[q] : u \in Tools /\ u # t /\ u \in steady[q] BY <1>3
  <2>3. ASSUME pc[q] = "lookup", NEW p \in Requests, Refreshing(p)
        PROVE  steady'[q] \cap during'[p] = {}
    BY <1>3, <2>1, <2>3 DEF LookupInv
  <2> QED BY <1>1, <1>2, <2>1, <2>2, <2>3 DEF LookupInv
<1>7. \A q \in Requests : Pending(q)' BY <1>3 DEF RequestInv, Pending
<1>8. CacheInv' BY <1>1 DEF CacheInv
<1>9. ServedAccurately'
  <2>1. ASSUME NEW q \in Requests, outcome[q] = "served"
        PROVE  answer[q] \cap steady'[q] = Visible' \cap toolPermitted(q)' \cap steady'[q]
    <3>1. answer[q] \cap steady[q] = Visible \cap toolPermitted(q) \cap steady[q]
      BY <2>1 DEF ServedAccurately
    <3>2. toolPermitted(q)' = toolPermitted(q) BY DEF toolPermitted
    <3>3. \A u \in steady'[q] : u \in steady[q] /\ (u \in Visible' <=> u \in Visible)
      BY <1>1, <1>3
    <3>4. steady'[q] \subseteq steady[q] BY <3>3
    <3> QED BY <3>1, <3>2, <3>3, <3>4
  <2> QED BY <2>1 DEF ServedAccurately
<1>10. OnlyPermitted' BY DEF OnlyPermitted
<1> QED BY <1>4, <1>5, <1>6, <1>7, <1>8, <1>9, <1>10 DEF Rest, RequestInv

\* The clock only runs forward: what is too old stays too old.
LEMMA TickStep == ASSUME IInv, Tick \/ UNCHANGED vars PROVE Rest'
<1> USE DEF IInv, vars, cacheVars, requestVars, fetchVars, Tick
<1>1. Expired => Expired' BY TTLAssumption DEF Expired, Zero
<1>2. UNCHANGED <<registered, cacheMu, cachedTools, cachedByName, cachedErr, changed,
                  requestVars, fetchVars>>
  OBVIOUS
<1>3. \A q \in Requests : MutexInv(q)' BY <1>1, <1>2 DEF RequestInv, MutexInv, Refreshing
<1>4. \A q \in Requests : FetchInv(q)'
  BY <1>2 DEF RequestInv, FetchInv, Refreshing, Visible
<1>5. \A q \in Requests : LookupInv(q)'
  BY <1>2 DEF RequestInv, LookupInv, Refreshing, Visible
<1>6. \A q \in Requests : Pending(q)' BY <1>2 DEF RequestInv, Pending
<1>7. CacheInv' BY <1>2 DEF CacheInv, Visible
<1>8. ServedAccurately' BY <1>2 DEF ServedAccurately, Visible, toolPermitted
<1>9. OnlyPermitted' BY <1>2 DEF OnlyPermitted
<1> QED BY <1>3, <1>4, <1>5, <1>6, <1>7, <1>8, <1>9 DEF Rest, RequestInv

-----------------------------------------------------------------------------
(***************************************************************************)
(* The theorems.                                                           *)
(***************************************************************************)
LEMMA IInvStep == IInv /\ [Next]_vars => IInv'
<1> SUFFICES ASSUME IInv, [Next]_vars PROVE IInv' OBVIOUS
<1>1. TypeOK' BY TypeStep DEF IInv
<1>2. Rest'
  <2>1. ASSUME NEW r \in Requests, RequestStep(r) PROVE Rest'
    BY <2>1, ArriveStep, CallStep, HitStep, MissStep, PageStep, RefreshStep, LookupStep,
       FinishStep
    DEF RequestStep, GetTools, Fetching
  <2> QED BY <2>1, ChangeStep, TickStep DEF Next
<1> QED BY <1>1, <1>2 DEF IInv, Rest

LEMMA Inductive == Spec => []IInv
<1>1. Init => IInv BY TypeInit, RestInit DEF IInv, Rest
<1> QED BY <1>1, IInvStep, PTL DEF Spec

\* Every variable keeps its type, and a cached error goes with an empty list.
THEOREM TypeCorrect == Spec => []TypeOK
<1>1. IInv => TypeOK BY DEF IInv
<1> QED BY <1>1, Inductive, PTL

\* Answers are right about every tool that has not come or gone since the
\* refresh they were served from began, whatever the sizes of the pages, the
\* changes meanwhile and the refreshes that fail (getTools, getTool).
THEOREM ServedAccuratelyHolds == Spec => []ServedAccurately
<1>1. IInv => ServedAccurately BY DEF IInv
<1> QED BY <1>1, Inductive, PTL

\* No answer shows or runs what the caller's filter hides (toolPermitted,
\* applyToolFilter).
THEOREM OnlyPermittedHolds == Spec => []OnlyPermitted
<1>1. IInv => OnlyPermitted BY DEF IInv
<1> QED BY <1>1, Inductive, PTL

\* The cache is replaced only after its TTL: requests that find it too old
\* together refresh it once (getTools).
THEOREM RefreshesApartHolds == Spec => RefreshesApart
<1>1. IInv /\ [Next]_vars =>
        [\A r \in Requests : Refreshed(r) \/ RefreshFails(r) => Expired]_vars
  BY DEF IInv, RequestInv, MutexInv, Refreshed, RefreshFails, Refreshing
<1> QED BY <1>1, Inductive, PTL DEF Spec, RefreshesApart
=============================================================================
