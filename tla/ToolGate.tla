------------------------------ MODULE ToolGate ------------------------------
(***************************************************************************)
(* What the concurrency limit promises a caller, with no word about        *)
(* semaphores, deadlines or goroutines: at most Max calls are admitted and *)
(* unanswered, an admitted call keeps its place until it is done, and a    *)
(* call is refused only while Max others are in place (hooks.go:91).  A    *)
(* place is never lost: a call that is done makes room for another.        *)
(***************************************************************************)
EXTENDS Integers, FiniteSets

CONSTANTS
    Calls,
    Max         \* 0 for no limit

VARIABLE status     \* of each call: "new", "admitted", "refused" or "done"

Admitted == {c \in Calls : status[c] = "admitted"}
Full == Max > 0 /\ Cardinality(Admitted) >= Max

Move(c, from, to) == status[c] = from /\ status' = [status EXCEPT ![c] = to]

Init == status = [c \in Calls |-> "new"]

Admit(c)  == ~Full /\ Move(c, "new", "admitted")
Refuse(c) == Full /\ Move(c, "new", "refused")
Finish(c) == Move(c, "admitted", "done")

\* A call another middleware answers before it reaches the limit.
Divert(c) == Move(c, "new", "done")

Next == \E c \in Calls : Admit(c) \/ Refuse(c) \/ Finish(c) \/ Divert(c)

Spec == Init /\ [][Next]_status
=============================================================================
