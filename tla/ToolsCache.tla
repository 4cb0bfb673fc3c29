----------------------------- MODULE ToolsCache -----------------------------
(***************************************************************************)
(* The REST bridge's handlers and their cache of tools/list (rest.go):     *)
(* getTools refreshes the list under cacheMu, page after page, when it is  *)
(* older than cacheTTL; getTool locks once more to look a name up; the     *)
(* caller's ToolFilter is applied to what was cached for everybody.        *)
(*                                                                         *)
(* The MCP server is external: tools come and go in it at any time, and    *)
(* its own filter middleware sees every bridged request without TokenInfo  *)
(* (rest.go:215).  A tool is its place in the server's order, which is     *)
(* what a cursor points into.  Bodies, schemas and the form of an answer   *)
(* are left out.                                                           *)
(***************************************************************************)
EXTENDS Integers

CONSTANTS
    Requests,       \* handler goroutines
    Tools,          \* tools that may be registered
    Callers,        \* what TokenInfo may hold
    Nobody,         \* the caller without TokenInfo
    Permits,        \* Permits[c]: the tools ToolFilter lets c use
    Asks,           \* requests that may come: what, from whom, about which tools
    CacheTTL,       \* cacheTTL, in ticks
    None            \* no goroutine

ASSUME ToolAssumption == Tools \subseteq Nat \ {0}
ASSUME CallerAssumption == Nobody \in Callers /\ Permits \in [Callers -> SUBSET Tools]
ASSUME AskAssumption ==
    Asks \subseteq [op : {"list"}, caller : Callers, about : {Tools}]
                  \cup [op : {"get", "call"}, caller : Callers, about : {{t} : t \in Tools}]
ASSUME TTLAssumption == CacheTTL \in Nat
ASSUME NoneAssumption == None \notin Requests

VARIABLES
    registered,     \* the server's tools
    cacheMu,        \* who holds the mutex
    cachedTools,
    cachedByName,   \* the names in the map
    cachedErr,
    cachedAge,      \* time since cachedAt, up to CacheTTL + 1
    pc,             \* where each request is
    ask,            \* what it is, who sends it, and the tools it is about
    fetch,          \* its refresh: cursor, and the tools listed so far
    answer,         \* the tools it was served
    outcome,        \* "served" or "failed"
    changed,        \* ghost: tools that came or went since the refresh that
                    \* filled the cache began
    during,         \* ghost: those since the request's own refresh began
    steady          \* ghost: the tools a request is about that have not come or
                    \* gone since the refresh its getTools returned began

cacheVars == <<cachedTools, cachedByName, cachedErr, cachedAge, changed>>
requestVars == <<pc, ask, answer, outcome, steady>>
fetchVars == <<fetch, during>>
vars == <<registered, cacheMu, cacheVars, requestVars, fetchVars>>

\* What the bridge's session is shown, and what a caller may be told.
Visible == registered \cap Permits[Nobody]
toolPermitted(r) == ask[r].about \cap Permits[ask[r].caller]

Zero == -1      \* cachedAt.IsZero()
Idle == [op |-> "none", caller |-> Nobody, about |-> {}]
Fresh == [cursor |-> 0, listed |-> {}]

Init ==
    /\ registered \in SUBSET Tools
    /\ cacheMu = None
    /\ cachedTools = {}
    /\ cachedByName = {}
    /\ cachedErr = FALSE
    /\ cachedAge = Zero
    /\ pc = [r \in Requests |-> "idle"]
    /\ ask = [r \in Requests |-> Idle]
    /\ fetch = [r \in Requests |-> Fresh]
    /\ answer = [r \in Requests |-> {}]
    /\ outcome = [r \in Requests |-> "none"]
    /\ changed = Tools
    /\ during = [r \in Requests |-> {}]
    /\ steady = [r \in Requests |-> {}]

-----------------------------------------------------------------------------
(***************************************************************************)
(* The handlers.                                                           *)
(***************************************************************************)
\* GET /tools, /openapi.json and /tools/{name}, and POST /tools/{name}.
Arrive(r) ==
    /\ pc[r] = "idle"
    /\ \E a \in Asks :
          /\ ask' = [ask EXCEPT ![r] = a]
          /\ pc' = [pc EXCEPT ![r] = IF a.op = "call" THEN "call" ELSE "list"]
    /\ UNCHANGED <<registered, cacheMu, cacheVars, fetchVars, answer, outcome, steady>>

Reply(r, result, tools) ==
    /\ pc' = [pc EXCEPT ![r] = "answered"]
    /\ outcome' = [outcome EXCEPT ![r] = result]
    /\ answer' = [answer EXCEPT ![r] = tools]
    /\ UNCHANGED ask

\* Mutant of CallTool: the filter is left to the server's middleware.
CallUnchecked(r) ==
    /\ pc[r] = "call"
    /\ \/ Reply(r, "served", ask[r].about \cap Visible)
       \/ Reply(r, "failed", {})
    /\ UNCHANGED <<registered, cacheMu, cacheVars, fetchVars, steady>>

\* handleCallTool; the session may fail, or the request's own context end.
CallTool(r) ==
    /\ pc[r] = "call"
    /\ \/ Reply(r, "served", toolPermitted(r) \cap Visible)
       \/ Reply(r, "failed", {})
    /\ UNCHANGED <<registered, cacheMu, cacheVars, fetchVars, steady>>

\* getTools returns: handleGetTool goes on to the map.
Return(r, tools, err, since) ==
    \/ err /\ Reply(r, "failed", {}) /\ UNCHANGED steady
    \/ /\ ~err
       /\ steady' = [steady EXCEPT ![r] = ask[r].about \ since]
       /\ \/ ask[r].op = "list" /\ Reply(r, "served", tools \cap toolPermitted(r))
          \/ /\ ask[r].op = "get"
             /\ pc' = [pc EXCEPT ![r] = "lookup"]
             /\ UNCHANGED <<ask, answer, outcome>>

\* The request is over; its ghosts go with it.
Finish(r) ==
    /\ pc[r] = "answered"
    /\ pc' = [pc EXCEPT ![r] = "idle"]
    /\ ask' = [ask EXCEPT ![r] = Idle]
    /\ answer' = [answer EXCEPT ![r] = {}]
    /\ outcome' = [outcome EXCEPT ![r] = "none"]
    /\ steady' = [steady EXCEPT ![r] = {}]
    /\ UNCHANGED <<registered, cacheMu, cacheVars, fetchVars>>

-----------------------------------------------------------------------------
(***************************************************************************)
(* getTools, listAllTools and getTool.                                     *)
(***************************************************************************)

\* Mutant of Expired: the list is fetched once and for all.
ExpiredOnce == cachedAge = Zero

Expired == cachedAge = Zero \/ cachedAge > CacheTTL

\* The cache is still good: its content is returned, the error as well.
Hit(r) ==
    /\ pc[r] = "list"
    /\ cacheMu = None
    /\ ~Expired
    /\ Return(r, cachedTools, cachedErr, changed)
    /\ UNCHANGED <<registered, cacheMu, cacheVars, fetchVars>>

\* Mutant of Miss: the mutex is not held while the list is fetched.
MissUnlocked(r) ==
    /\ pc[r] = "list"
    /\ cacheMu = None
    /\ Expired
    /\ pc' = [pc EXCEPT ![r] = "page"]
    /\ UNCHANGED <<registered, cacheMu, cacheVars, fetchVars, ask, answer, outcome,
                   steady>>

\* The list is fetched with the mutex held.
Miss(r) ==
    /\ pc[r] = "list"
    /\ cacheMu = None
    /\ Expired
    /\ cacheMu' = r
    /\ pc' = [pc EXCEPT ![r] = "page"]
    /\ UNCHANGED <<registered, cacheVars, fetchVars, ask, answer, outcome, steady>>

\* The server answers with a page of any size: the registered tools after the
\* cursor up to some last one, and a cursor when there are more.
After(cursor) == {t \in registered : t > cursor}

Page(r) ==
    /\ pc[r] = "page"
    /\ \/ \E last \in After(fetch[r].cursor) :
            /\ fetch' = [fetch EXCEPT ![r] =
                   [cursor |-> last,
                    listed |-> @.listed \cup {t \in After(@.cursor) \cap Visible : t <= last}]]
            /\ pc' = [pc EXCEPT ![r] = IF After(last) = {} THEN "fetched" ELSE "page"]
       \/ /\ After(fetch[r].cursor) = {}
          /\ pc' = [pc EXCEPT ![r] = "fetched"]
          /\ UNCHANGED fetch
    /\ UNCHANGED <<registered, cacheMu, cacheVars, ask, answer, outcome, steady, during>>

Fill(r, tools, err, names, holder) ==
    /\ cachedTools' = tools
    /\ cachedErr' = err
    /\ cachedByName' = names
    /\ cachedAge' = 0
    /\ changed' = during[r]
    /\ cacheMu' = holder
    /\ fetch' = [fetch EXCEPT ![r] = Fresh]
    /\ during' = [during EXCEPT ![r] = {}]
    /\ Return(r, tools, err, during[r])
    /\ UNCHANGED registered

\* Mutants of Install: the map is replaced although the refresh failed; the
\* mutex is kept when it did; the list is kept when it did.
InstallNames(r, tools, err) == Fill(r, tools, err, tools, None)
InstallLocked(r, tools, err) ==
    Fill(r, tools, err, IF err THEN cachedByName ELSE tools, IF err THEN r ELSE None)
InstallOverOld(r, tools, err) ==
    Fill(r, IF err THEN cachedTools ELSE tools, err,
         IF err THEN cachedByName ELSE tools, None)

\* The end of a refresh, whatever came of it: cachedAt is taken now.
Install(r, tools, err) ==
    Fill(r, tools, err, IF err THEN cachedByName ELSE tools, None)

Refreshed(r) == pc[r] = "fetched" /\ Install(r, fetch[r].listed, FALSE)

\* ListTools fails: the session has, or the client whose request this is has
\* gone, since its context is the one the pages are fetched with.
RefreshFails(r) == pc[r] = "page" /\ Install(r, {}, TRUE)

\* getTool's second critical section, and toolPermitted.
Lookup(r) ==
    /\ pc[r] = "lookup"
    /\ cacheMu = None
    /\ Reply(r, "served", cachedByName \cap toolPermitted(r))
    /\ UNCHANGED <<registered, cacheMu, cacheVars, fetchVars, steady>>

-----------------------------------------------------------------------------
(***************************************************************************)
(* The server and the clock.                                               *)
(***************************************************************************)
Refreshing(r) == pc[r] \in {"page", "fetched"}

\* AddTool or RemoveTools.
ChangeTool(t) ==
    /\ registered' = IF t \in registered THEN registered \ {t} ELSE registered \cup {t}
    /\ changed' = changed \cup {t}
    /\ during' = [r \in Requests |-> IF Refreshing(r) THEN during[r] \cup {t} ELSE {}]
    /\ steady' = [r \in Requests |-> steady[r] \ {t}]
    /\ UNCHANGED <<cacheMu, cachedTools, cachedByName, cachedErr, cachedAge, pc, ask,
                   answer, outcome, fetch>>

Tick ==
    /\ cachedAge \in 0 .. CacheTTL
    /\ cachedAge' = cachedAge + 1
    /\ UNCHANGED <<registered, cacheMu, cachedTools, cachedByName, cachedErr, changed,
                   requestVars, fetchVars>>

-----------------------------------------------------------------------------
GetTools(r) == Hit(r) \/ Miss(r)
Fetching(r) == Page(r) \/ Refreshed(r) \/ RefreshFails(r)
RequestStep(r) ==
    Arrive(r) \/ CallTool(r) \/ GetTools(r) \/ Fetching(r) \/ Lookup(r) \/ Finish(r)

Next ==
    \/ \E r \in Requests : RequestStep(r)
    \/ \E t \in Tools : ChangeTool(t)
    \/ Tick

Spec == Init /\ [][Next]_vars

(***************************************************************************)
(* Fairness: handlers go on, time passes, and a waiter gets the mutex in   *)
(* the end, which sync.Mutex sees to by handing it over.  No request need  *)
(* arrive, and no refresh need succeed.                                    *)
(***************************************************************************)
Fairness ==
    /\ WF_vars(Tick)
    /\ \A r \in Requests :
          /\ WF_vars(CallTool(r) \/ Fetching(r) \/ Finish(r))
          /\ SF_vars(GetTools(r))
          /\ SF_vars(Lookup(r))

FairSpec == Spec /\ Fairness

-----------------------------------------------------------------------------
(***************************************************************************)
(* Type invariant.                                                         *)
(***************************************************************************)

CacheType ==
    /\ registered \subseteq Tools
    /\ cacheMu \in Requests \cup {None}
    /\ cachedTools \subseteq Tools /\ cachedByName \subseteq Tools
    /\ cachedErr \in BOOLEAN /\ (cachedErr => cachedTools = {})
    /\ cachedAge \in 0 .. CacheTTL + 1 \cup {Zero}
    /\ changed \subseteq Tools

Places == {"idle", "call", "list", "page", "fetched", "lookup", "answered"}
RequestType ==
    /\ pc \in [Requests -> Places]
    /\ ask \in [Requests -> Asks \cup {Idle}]
    /\ answer \in [Requests -> SUBSET Tools]
    /\ outcome \in [Requests -> {"none", "served", "failed"}]
    /\ steady \in [Requests -> SUBSET Tools]

FetchType ==
    /\ fetch \in [Requests -> [cursor : Tools \cup {0}, listed : SUBSET Tools]]
    /\ during \in [Requests -> SUBSET Tools]

\* Every variable holds a value of its type; an error goes with an empty list.
TypeOK == CacheType /\ RequestType /\ FetchType

-----------------------------------------------------------------------------
(***************************************************************************)
(* Properties.                                                             *)
(***************************************************************************)

\* A list, and a name found or not found, are right about every tool that has
\* not come or gone since the refresh they were served from began: pages that
\* are fetched while other tools change lose and invent nothing, and another
\* request's failed refresh between getTool's two locks does not turn a tool
\* that is there into a 404 (rest.go:298-325).
ServedAccurately ==
    \A r \in Requests : outcome[r] = "served" =>
        answer[r] \cap steady[r] = Visible \cap toolPermitted(r) \cap steady[r]

\* No answer shows or runs a tool that its caller's filter hides, whoever's
\* request filled the cache (rest.go:155, 199, 220).
OnlyPermitted ==
    \A r \in Requests : answer[r] \subseteq Permits[ask[r].caller]

\* Requests that find the cache too old together refresh it once: the cache is
\* only replaced when it has been kept for its TTL (rest.go:281).
RefreshesApart ==
    [][\A r \in Requests :
          Refreshed(r) \/ RefreshFails(r) => Expired]_vars

\* A request that waits for the list is answered, also when refreshes fail.
EveryRequestAnswered ==
    \A r \in Requests : pc[r] = "list" ~> pc[r] = "answered"

ListServed(r) == ask[r].op = "list" /\ outcome[r] = "served"

\* A tool that is registered for good is in the cached list for good, as long as
\* lists go on being served (rest.go:275).
BecomesVisible ==
    \A t \in Permits[Nobody] :
        <>[](t \in registered) /\ []<>(\E r \in Requests : ListServed(r))
            => <>[](t \in cachedTools \/ cachedErr)
=============================================================================
