--------------------------- MODULE MC_ToolsCache ----------------------------
(***************************************************************************)
(* Values of ToolsCache for TLC.                                           *)
(***************************************************************************)
EXTENDS ToolsCache, TLC

CONSTANT Key

MCTools == 1 .. 2
MCPermits == Nobody :> {1, 2} @@ Key :> {2}
Ask(op, caller, about) == [op |-> op, caller |-> caller, about |-> about]
MCAsks == {Ask("list", Key, MCTools), Ask("get", Nobody, {1}), Ask("call", Key, {1})}
=============================================================================
