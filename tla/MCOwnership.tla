----------------------------- MODULE MCOwnership -----------------------------
(* Instances of Ownership for TLC: the processes of a kind make the same    *)
(* calls, so they may be permuted.                                          *)
EXTENDS Ownership, TLC

CONSTANTS Workers, Services

Everything == [p \in Procs |-> IF p \in Workers THEN {"advance"}
                               ELSE IF p \in Services THEN Calls \ {"advance"}
                               ELSE Calls]

Symmetry == Permutations(Workers) \cup Permutations(Services)
            \cup Permutations(Tasks) \cup Permutations(Agents)

=============================================================================
