---------------------------- MODULE MC_AccessLog -----------------------------
(***************************************************************************)
(* Values for the constants of AccessLog: every path of the chain, and the *)
(* application's handler behind each setting of Recovery.                  *)
(***************************************************************************)
EXTENDS AccessLog

Setting(recovers, health, cors) ==
    [recovers |-> recovers, health |-> health, cors |-> cors]
MCConfigs == {Setting(TRUE, TRUE, "listed"), Setting(TRUE, TRUE, "wildcard"),
              Setting(FALSE, FALSE, "off")}

Ask(method, origin, path, id) ==
    [method |-> method, origin |-> origin, path |-> path, id |-> id]
MCRequests == {Ask("GET", "none", "app", "malformed"),
               Ask("OPTIONS", "unlisted", "app", "valid"),
               Ask("GET", "none", "health", "valid"),
               Ask("GET", "listed", "ready", "absent")}
=============================================================================
