-------------------------- MODULE MCPilotSuccession --------------------------
(* Instances of PilotSuccession small enough for TLC.  Directories, calls  *)
(* and pilots are interchangeable, and no property is a liveness property. *)
EXTENDS PilotSuccession, TLC

Symmetry ==
    Permutations(Journals) \cup Permutations(Bundles)
        \cup Permutations(Procs) \cup Permutations(Pilots)

=============================================================================
