----------------------------- MODULE MCOutbound -----------------------------
(* Outbound.tla with interchangeable operators, and one operation of each  *)
(* family for one task, those of one journal withdrawn before.  A row that *)
(* resembles an effect is there from the start.                            *)
EXTENDS Outbound, TLC

CONSTANTS issue, pull, creation, field, link, association, comment, Noise, Copy, p1, p2

Symmetry == Permutations(Operators)

MCTaskOf == [o \in Operations |-> "task"]
MCFamilyOf == [o \in Operations |->
    CASE o = issue -> "issue" [] o = pull -> "pull" [] o = creation -> "creation"
      [] o = field -> "field" [] o = link -> "link" [] o = association -> "association"
      [] OTHER -> "comment"]
MCFresh == {s \in {{issue, pull}, {creation}, {field}, {link}, {association}, {comment}} :
              s \subseteq Operations}
MCBefore == {<<Copy>>}
=============================================================================
