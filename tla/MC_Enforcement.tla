---------------------------- MODULE MC_Enforcement ----------------------------
(***************************************************************************)
(* Values for the constants of Enforcement: a key that is edited, doubled  *)
(* and revoked, beside lines that would grant d2 or d3 a tool but for one  *)
(* mistake each.                                                           *)
(***************************************************************************)
EXTENDS Enforcement

CONSTANTS d1, d2, d3, read, write

MCVerdict ==
    [na \in Names \X AttrMaps |-> CASE na[2] = "vetoed" -> "veto"
                                    [] na[2] = "fatal" -> "panic"
                                    [] OTHER -> "accept"]

Line(n, h, e, ts, a) == [name |-> n, sha256 |-> h, expires |-> e, tools |-> ts, attrs |-> a]
Good   == Line("alice", d1, 2, {read}, "plain")
Edited == Line("alice", d1, 2, {write}, "other")
Bob    == Line("bob", d2, 1, {read, write}, "plain")

MCFiles == {<<>>, <<Edited>>, <<Good, Bob>>,
            <<Good, Line("alice", NoHash, 2, {read}, "plain")>>,
            <<Line("carol", d1, 0, {read}, "plain"), Good>>,
            <<Line("Bad Name", d2, 2, {read}, "plain"), Line("bob", d3, NoExpiry, {read}, "plain")>>,
            <<Line("bob", d2, 2, {read}, "shapeless"), Line("env-bob", d3, 2, {read}, "plain")>>,
            <<Line("bob", d2, 2, {read, Wildcard}, "plain"), Line("carol", d3, 2, {read}, "vetoed")>>,
            <<Good, Line("bob", d2, 2, {read}, "fatal"), Line("carol", d3, 2, {read, Stranger}, "plain")>>}

Ask(door, local, token, method, tool) ==
    [door |-> door, local |-> local, token |-> token, method |-> method, tool |-> tool]
MCAsks == {Ask("mcp", FALSE, d1, "tools/call", read),
           Ask("mcp", TRUE, d1, "tools/list", read),
           Ask("rest", FALSE, d1, "tools/call", read),
           Ask("mcp", FALSE, d2, "tools/list", read),
           Ask("mcp", FALSE, d3, "tools/call", read),
           Ask("mcp", FALSE, d2, "resources/read", read),
           Ask("mcp", FALSE, Malformed, "tools/call", Wildcard)}
=============================================================================
