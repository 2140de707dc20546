----------------------------- MODULE PreviewStore -----------------------------
(***************************************************************************)
(* The store of the preview sandbox, internal/preview/preview.go: what an  *)
(* artifact of a session needs to be shown in a frame of its own.  Its     *)
(* methods hold the mutex from end to end, so each is one step.            *)
(*                                                                         *)
(* mustID draws 16 random bytes.  A number that was not used yet stands    *)
(* for them.                                                               *)
(***************************************************************************)
EXTENDS Naturals, Sequences

CONSTANTS
    Contents,       \* what can be put: a media type and some bytes
    MaxArtifacts    \* maxArtifacts

ASSUME StoreAssumption == MaxArtifacts \in Nat \ {0}

VARIABLES
    items,      \* id -> content
    order,      \* the ids in the order in which they were put
    puts        \* how many ids mustID has given out

storeVars == <<items, order, puts>>

StoreInit ==
    /\ items = [id \in {} |-> {}]
    /\ order = << >>
    /\ puts = 0

(* Mutant of Evicted: the room is made for one more, as if before put. *)
EvictedEarly(ids) ==
    IF Len(ids) < MaxArtifacts THEN ids
    ELSE SubSeq(ids, Len(ids) - MaxArtifacts + 2, Len(ids))

(* Mutant of Evicted: it is the newest that go. *)
EvictedNewest(ids) == IF Len(ids) <= MaxArtifacts THEN ids ELSE SubSeq(ids, 1, MaxArtifacts)

(* The loop of put: the oldest ids go until max are left. *)
Evicted(ids) ==
    IF Len(ids) <= MaxArtifacts THEN ids
    ELSE SubSeq(ids, Len(ids) - MaxArtifacts + 1, Len(ids))

(* Mutant of Remaining: the artifact stays when its id goes. *)
RemainingAll(all, ids) == all

(* What is left of the items when these are the ids. *)
Remaining(all, ids) == [id \in {ids[i] : i \in 1..Len(ids)} |-> all[id]]

(* put *)
Put(c) ==
    LET id == puts + 1
        all == [k \in DOMAIN items \cup {id} |-> IF k = id THEN c ELSE items[k]]
    IN  /\ puts' = id
        /\ order' = Evicted(Append(order, id))
        /\ items' = Remaining(all, order')

(* get, for serveArtifact: it is there or the answer is a 404. *)
Get(id) == id \in DOMAIN items

StoreNext == \E c \in Contents : Put(c)

StoreSpec == StoreInit /\ [][StoreNext]_storeVars

(* The two parts of the store never come apart, though each put changes    *)
(* both and may throw out an artifact: there are items for the ids of      *)
(* order and for no others.  These are the last ids that were given out,   *)
(* oldest first, and no more than maxArtifacts, so a long session cannot   *)
(* grow the store without bound.                                           *)
StoreOK ==
    /\ puts \in Nat
    /\ order \in Seq(1..puts)
    /\ \A i \in 1..Len(order) : order[i] = puts - Len(order) + i
    /\ Len(order) = IF puts <= MaxArtifacts THEN puts ELSE MaxArtifacts
    /\ items \in [{order[i] : i \in 1..Len(order)} -> Contents]

(* The store implements LastArtifacts: get serves what was put under an    *)
(* id, and serves it as long as fewer than maxArtifacts were put since.    *)
Last == INSTANCE LastArtifacts
            WITH kept <- [i \in 1..Len(order) |-> items[order[i]]], total <- puts
StoreRefines == Last!Spec
=============================================================================
