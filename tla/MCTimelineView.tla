---------------------------- MODULE MCTimelineView ----------------------------
EXTENDS TimelineView, TLC

(* Artifacts and symmetry for checking TimelineView with TLC. *)

(* A web page with its content, and one that was too large to be inlined. *)
MCPayloads == {[form |-> "web", content |-> c, truncated |-> FALSE, diff |-> TRUE] : c \in Contents}
                 \cup {[form |-> "web", content |-> None, truncated |-> TRUE, diff |-> TRUE]}

(* Sessions and contents are only compared. *)
MCSymmetry == Permutations(Sessions) \cup Permutations(Contents)
=============================================================================
