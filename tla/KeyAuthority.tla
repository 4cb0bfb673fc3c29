---------------------------- MODULE KeyAuthority ----------------------------
(***************************************************************************)
(* What a key store promises about a key file that others edit, with no    *)
(* word about how it reloads: the keys that authenticate are always some   *)
(* of the keys of one published version, the store moves between versions  *)
(* only forwards, and it may drop to no keys at all at any moment.  So a   *)
(* key revoked by the version in force never authenticates again unless a  *)
(* later version brings it back (keyfile/doc.go, Reload).                  *)
(***************************************************************************)
EXTENDS Integers, Sequences

CONSTANTS
    Keys,       \* key digests
    Contents    \* the states a version can be in; a version's keys are .keys

VARIABLES
    files,      \* published versions, the current one last
    installed,  \* the version in force, 0 before the first load
    live        \* the keys that authenticate

vars == <<files, installed, live>>

KeysOf(v) == IF v = 0 THEN {} ELSE files[v].keys

Init ==
    /\ files \in {<<f>> : f \in Contents}
    /\ installed = 0
    /\ live = {}

Publish ==
    /\ \E f \in Contents : files' = Append(files, f)
    /\ UNCHANGED <<installed, live>>

\* A load never goes back, and grants nothing its version does not hold.
Install ==
    /\ \E v \in installed .. Len(files) :
          installed' = v /\ live' \subseteq KeysOf(v)
    /\ UNCHANGED files

Deny ==
    /\ live' = {}
    /\ UNCHANGED <<files, installed>>

Next == Publish \/ Install \/ Deny

Spec == Init /\ [][Next]_vars
=============================================================================
