--------------------------- MODULE MCIntentJournal ---------------------------
(* A journal and two paths a successor may be created at; two operations of *)
(* one task and one of another, so that a task is staged again and a        *)
(* journal fills up.                                                        *)
EXTENDS IntentJournal, TLC

CONSTANTS j1, j2, j3, o1, o2, o3, t1, t2, p1, p2

MCTaskOf == o1 :> t1 @@ o2 :> t1 @@ o3 :> t2
MCProcesses == {p1, p2}
Symmetry == Permutations({j2, j3}) \cup Permutations({o1, o2}) \cup Permutations(MCProcesses)

=============================================================================
