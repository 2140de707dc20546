------------------------------ MODULE LossyFeed ------------------------------
(***************************************************************************)
(* What the Hub of internal/bridge promises to one browser connection: a   *)
(* live feed.  A reader that joins is owed nothing published before it     *)
(* joined; from then on it gets some of the values published, each at most *)
(* once and in the order of publication, until it leaves.  Values are      *)
(* numbered by the order in which they were published.                     *)
(***************************************************************************)
EXTENDS Naturals, Sequences

CONSTANTS
    Readers,        \* the browser connections
    MaxPublished    \* bound: how many values are ever published

VARIABLES
    published,      \* number of values published so far
    reading,        \* the readers that are joined
    last,           \* reader -> the last value it got, or its join point
    got             \* reader -> everything it got

vars == <<published, reading, last, got>>

Init ==
    /\ published = 0
    /\ reading = {}
    /\ last = [r \in Readers |-> 0]
    /\ got = [r \in Readers |-> <<>>]

Publish ==
    /\ published < MaxPublished
    /\ published' = published + 1
    /\ UNCHANGED <<reading, last, got>>

(* A reader joins at the end of the feed. *)
Join(r) ==
    /\ r \notin reading
    /\ reading' = reading \cup {r}
    /\ last' = [last EXCEPT ![r] = published]
    /\ UNCHANGED <<published, got>>

(* Values may be skipped, never repeated, never reordered. *)
Deliver(r) ==
    /\ r \in reading
    /\ \E v \in (last[r] + 1)..published :
          /\ last' = [last EXCEPT ![r] = v]
          /\ got' = [got EXCEPT ![r] = Append(@, v)]
    /\ UNCHANGED <<published, reading>>

Leave(r) ==
    /\ r \in reading
    /\ reading' = reading \ {r}
    /\ UNCHANGED <<published, last, got>>

Next ==
    \/ Publish
    \/ \E r \in Readers : Join(r) \/ Deliver(r) \/ Leave(r)

Spec == Init /\ [][Next]_vars
=============================================================================
