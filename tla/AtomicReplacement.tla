------------------------- MODULE AtomicReplacement --------------------------
(***************************************************************************)
(* What a workspace replacement promises: the workspace's content changes   *)
(* only by its users' edits and, at one instant per attempt, by becoming    *)
(* a job's whole tree.  A crash, a failed step, a rollback and a recovery are *)
(* no steps at all.  Trees are [src, rev]: the job a tree came from (Own    *)
(* for the workspace's own first content) and the edits made to it since.   *)
(***************************************************************************)
EXTENDS Naturals

CONSTANTS Job, Own

VARIABLES
    content,    \* the tree the workspace consists of
    replaced    \* the jobs whose tree has become the content

vars == <<content, replaced>>

Init == content = [src |-> Own, rev |-> 0] /\ replaced = {}

Edit == content' = [content EXCEPT !.rev = @ + 1] /\ UNCHANGED replaced

Replace(j) ==
    /\ content' = [src |-> j, rev |-> 0]
    /\ replaced' = replaced \cup {j}

Next == Edit \/ \E j \in Job : Replace(j)

Spec == Init /\ [][Next]_vars
=============================================================================
