----------------------------- MODULE AtomicMove -----------------------------
(***************************************************************************)
(* What document-lifecycle-journal.ts promises of a move: one step takes   *)
(* the documents from their endpoint to the next, or nothing happens, and  *)
(* one move is settled before another begins.                              *)
(***************************************************************************)
EXTENDS Naturals

VARIABLES endpoint,   \* where the documents are
          state       \* "settled", "moving" or "settling"

vars == <<endpoint, state>>

Init == endpoint = 0 /\ state = "settled"

Begin ==
    /\ state = "settled"
    /\ state' = "moving"
    /\ UNCHANGED endpoint

Commit ==
    /\ state = "moving"
    /\ endpoint' = endpoint + 1
    /\ state' = "settling"

Abort ==
    /\ state = "moving"
    /\ state' = "settling"
    /\ UNCHANGED endpoint

Finish ==
    /\ state = "settling"
    /\ state' = "settled"
    /\ UNCHANGED endpoint

Next == Begin \/ Commit \/ Abort \/ Finish

Spec == Init /\ [][Next]_vars
=============================================================================
