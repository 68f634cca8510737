-------------------------- MODULE MCThreadDelivery --------------------------
(* ThreadDelivery on small sets of messages, participants and handlers. *)
EXTENDS ThreadDelivery, TLC

CONSTANTS a, b, l1, l2, l3, w1, w2, s1, s2

OneMessage == {1}
TwoMessages == {1, 2}
SymmetryOfPools == Permutations(Lease) \cup Permutations(Worker)
                     \cup Permutations(Scanner)
=============================================================================
