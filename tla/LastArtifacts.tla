---------------------------- MODULE LastArtifacts ----------------------------
(***************************************************************************)
(* What the preview sandbox promises of its store: it has the artifacts    *)
(* that were put last, as many as MaxArtifacts, in the order in which they *)
(* were put.                                                               *)
(***************************************************************************)
EXTENDS Naturals, Sequences

CONSTANTS
    Contents,       \* what can be put: a media type and some bytes
    MaxArtifacts    \* maxArtifacts

VARIABLES
    kept,       \* the artifacts
    total       \* how many were put

(* The last n elements of a sequence, or all of them. *)
LastOf(s, n) == IF Len(s) <= n THEN s ELSE SubSeq(s, Len(s) - n + 1, Len(s))

Init == kept = << >> /\ total = 0

Put(c) ==
    /\ kept' = LastOf(Append(kept, c), MaxArtifacts)
    /\ total' = total + 1

Next == \E c \in Contents : Put(c)

Spec == Init /\ [][Next]_<<kept, total>>
=============================================================================
