-------------------------- MODULE TimelineViewProofs --------------------------
(***************************************************************************)
(* Theorems about TimelineView, for any sessions and artifacts, any        *)
(* capacity of the hub channel and any number of blocks, turns, clicks and *)
(* lost connections.                                                       *)
(*                                                                         *)
(* Beside the types and the store of the previews IInv says: what is in    *)
(* the panel and in the channel is of the present turn or an earlier one,  *)
(* and of the former there is what was rendered (TurnsOK); a clear frame   *)
(* in the channel is after the blocks of the earlier turns and before      *)
(* those of the present one, and unless it was missed there is one after   *)
(* each block of an earlier turn (ClearOK); no block is in two places      *)
(* (Parts); and the frame of a preview points to what the session wrote    *)
(* (PreviewsOK).                                                           *)
(***************************************************************************)
EXTENDS TimelineView, SequenceTheorems, FiniteSetTheorems, TLAPS

(* The store by itself, for any contents and any maxArtifacts. *)

(* What is left of a sequence of ids, and the artifacts with them, is the  *)
(* same for both specifications: its last elements.                        *)
LEMMA EvictedIsLast ==
    ASSUME NEW S, NEW s \in Seq(S)
    PROVE  /\ Last!LastOf(s, MaxArtifacts) = Evicted(s)
           /\ Evicted(s) \in Seq(S)
           /\ Len(Evicted(s)) = IF Len(s) <= MaxArtifacts THEN Len(s) ELSE MaxArtifacts
           /\ \A i \in 1..Len(Evicted(s)) : Evicted(s)[i] = s[Len(s) - Len(Evicted(s)) + i]
<1>1. Last!LastOf(s, MaxArtifacts) = Evicted(s)
  BY DEF Last!LastOf, Evicted
<1>2. CASE Len(s) <= MaxArtifacts
  BY <1>1, <1>2 DEF Evicted
<1>3. CASE ~(Len(s) <= MaxArtifacts)
  BY <1>1, <1>3, StoreAssumption DEF Evicted
<1> QED
  BY <1>2, <1>3

(* A new id is put behind ids that are all older. *)
LEMMA PutKeepsOK ==
    ASSUME StoreOK, NEW c \in Contents, Put(c)
    PROVE  /\ StoreOK'
           /\ order' = Evicted(Append(order, puts + 1))
           /\ items' \in [{order'[i] : i \in 1..Len(order')} -> Contents]
           /\ \A id \in DOMAIN items' : items'[id] = IF id = puts + 1 THEN c ELSE items[id]
<1> DEFINE id == puts + 1
           all == [k \in DOMAIN items \cup {id} |-> IF k = id THEN c ELSE items[k]]
           longer == Append(order, id)
           n == Len(order)
<1>1. /\ puts \in Nat /\ order \in Seq(1..puts) /\ n \in Nat
      /\ \A i \in 1..n : order[i] = puts - n + i
      /\ n = IF puts <= MaxArtifacts THEN puts ELSE MaxArtifacts
      /\ items \in [{order[i] : i \in 1..n} -> Contents]
  BY DEF StoreOK
<1>2. puts' = id /\ order' = Evicted(longer) /\ items' = Remaining(all, order')
  BY DEF Put
<1>3. /\ longer \in Seq(1..id) /\ Len(longer) = n + 1
      /\ \A i \in 1..n + 1 : longer[i] = puts - n + i
  <2>1. order \in Seq(1..id)
    BY <1>1
  <2>2. id \in 1..id
    BY <1>1
  <2>3. longer \in Seq(1..id) /\ Len(longer) = n + 1
    BY <1>1, <2>1, <2>2
  <2>4. ASSUME NEW i \in 1..n + 1
        PROVE  longer[i] = puts - n + i
    BY <1>1
  <2> QED
    BY <2>3, <2>4
<1>4. /\ order' \in Seq(1..id)
      /\ Len(order') = IF n + 1 <= MaxArtifacts THEN n + 1 ELSE MaxArtifacts
      /\ \A i \in 1..Len(order') : order'[i] = longer[n + 1 - Len(order') + i]
  <2> HIDE DEF longer
  <2>1. /\ Evicted(longer) \in Seq(1..id)
        /\ Len(Evicted(longer)) =
               IF Len(longer) <= MaxArtifacts THEN Len(longer) ELSE MaxArtifacts
        /\ \A i \in 1..Len(Evicted(longer)) :
               Evicted(longer)[i] = longer[Len(longer) - Len(Evicted(longer)) + i]
    BY <1>3, EvictedIsLast
  <2>2. Evicted(longer) = order' /\ Len(longer) = n + 1
    BY <1>2, <1>3
  <2>3. order' \in Seq(1..id)
    BY <2>1, <2>2
  <2>4. Len(order') = IF n + 1 <= MaxArtifacts THEN n + 1 ELSE MaxArtifacts
    BY <2>1, <2>2
  <2>5. ASSUME NEW i \in 1..Len(order')
        PROVE  order'[i] = longer[n + 1 - Len(order') + i]
    <3>1. i \in 1..Len(Evicted(longer))
      BY <2>2
    <3>2. Evicted(longer)[i] = longer[Len(longer) - Len(Evicted(longer)) + i]
      BY <2>1, <3>1
    <3> QED
      BY <2>2, <3>2
  <2> QED
    BY <2>3, <2>4, <2>5
<1>5. Len(order') \in 1..n + 1
  BY <1>1, <1>4, StoreAssumption
<1>6. ASSUME NEW i \in 1..Len(order')
      PROVE  order'[i] = id - Len(order') + i
  <2> HIDE DEF longer
  <2> DEFINE j == n + 1 - Len(order') + i
  <2>1. j \in 1..n + 1
    BY <1>1, <1>5
  <2>2. order'[i] = longer[j]
    BY <1>4
  <2>3. longer[j] = puts - n + j
    <3> HIDE DEF j
    <3> QED
      BY <1>3, <2>1
  <2> QED
    BY <1>1, <1>5, <2>2, <2>3
<1>7. Len(order') = IF id <= MaxArtifacts THEN id ELSE MaxArtifacts
  BY <1>1, <1>4, StoreAssumption
<1>8. ASSUME NEW i \in 1..Len(order')
      PROVE  order'[i] \in DOMAIN items \cup {id}
  <2>1. CASE i = Len(order')
    BY <1>1, <1>5, <1>6, <2>1
  <2>2. CASE i # Len(order')
    <3> DEFINE j == n + 1 - Len(order') + i
    <3>1. j \in 1..n
      BY <1>1, <1>5, <2>2
    <3>2. order'[i] = order[j]
      BY <1>1, <1>5, <1>6, <3>1
    <3> QED
      BY <1>1, <3>1, <3>2
  <2> QED
    BY <2>1, <2>2
<1>9. all \in [DOMAIN items \cup {id} -> Contents]
  BY <1>1
<1>10. items' = [k \in {order'[i] : i \in 1..Len(order')} |-> all[k]]
  BY <1>2 DEF Remaining
<1>11. /\ items' \in [{order'[i] : i \in 1..Len(order')} -> Contents]
       /\ \A k \in DOMAIN items' : items'[k] = IF k = id THEN c ELSE items[k]
  BY <1>8, <1>9, <1>10
<1>12. StoreOK'
  <2> HIDE DEF id, all, longer, n
  <2>1. puts' \in Nat /\ puts' = id
    BY <1>1, <1>2 DEF id
  <2>2. order' \in Seq(1..puts')
    BY <1>4, <2>1
  <2>3. \A i \in 1..Len(order') : order'[i] = puts' - Len(order') + i
    BY <1>6, <2>1
  <2>4. Len(order') = IF puts' <= MaxArtifacts THEN puts' ELSE MaxArtifacts
    BY <1>7, <2>1
  <2> QED
    BY <1>11, <2>1, <2>2, <2>3, <2>4 DEF StoreOK
<1> QED
  BY <1>2, <1>11, <1>12

LEMMA InitOK == StoreInit => StoreOK
<1> SUFFICES ASSUME StoreInit PROVE StoreOK
  OBVIOUS
<1>1. order = << >> /\ puts = 0 /\ Len(order) = 0 /\ order \in Seq(1..puts)
  BY DEF StoreInit
<1>2. items \in [{order[i] : i \in 1..Len(order)} -> Contents]
  <2>1. {order[i] : i \in 1..Len(order)} = {}
    BY <1>1
  <2> QED
    BY <2>1 DEF StoreInit
<1> QED
  BY <1>1, <1>2, StoreAssumption DEF StoreOK

LEMMA StepOK == StoreOK /\ [StoreNext]_storeVars => StoreOK'
<1> SUFFICES ASSUME StoreOK, [StoreNext]_storeVars PROVE StoreOK'
  OBVIOUS
<1>1. CASE StoreNext
  BY <1>1, PutKeepsOK DEF StoreNext
<1>2. CASE UNCHANGED storeVars
  BY <1>2 DEF StoreOK, storeVars
<1> QED
  BY <1>1, <1>2

(* The items and their order never come apart, and there are never more    *)
(* than maxArtifacts: what put in internal/preview/preview.go maintains.   *)
THEOREM StoreCorrect == StoreSpec => []StoreOK
<1> QED
  BY InitOK, StepOK, PTL DEF StoreSpec

(* What the store keeps, in the order of its ids: the refinement mapping.  *)
Kept == [i \in 1..Len(order) |-> items[order[i]]]

LEMMA KeptIsASeq == StoreOK => Kept \in Seq(Contents) /\ Len(Kept) = Len(order)
<1> SUFFICES ASSUME StoreOK PROVE Kept \in Seq(Contents) /\ Len(Kept) = Len(order)
  OBVIOUS
<1>1. Len(order) \in Nat
  BY DEF StoreOK
<1>2. Kept \in [1..Len(order) -> Contents]
  BY DEF StoreOK, Kept
<1> QED
  BY <1>1, <1>2

LEMMA LastInit == StoreInit => Last!Init
<1> SUFFICES ASSUME StoreInit PROVE Last!Init
  OBVIOUS
<1>1. StoreOK /\ Len(order) = 0 /\ puts = 0
  BY InitOK DEF StoreInit
<1>2. Kept \in Seq(Contents) /\ Len(Kept) = 0
  BY <1>1, KeptIsASeq
<1>3. Kept = << >>
  BY <1>2, EmptySeq
<1> QED
  BY <1>1, <1>3 DEF Last!Init, Kept

(* A put of the store is a put of the abstract one: the id that is new     *)
(* stands for what was put, the ids that stay for what they stood for.     *)
LEMMA LastPut ==
    ASSUME StoreOK, NEW c \in Contents, Put(c)
    PROVE  Last!Put(c)
<1> DEFINE longer == Append(Kept, c)
           new == Last!LastOf(longer, MaxArtifacts)
           n == Len(order)
           m == Len(order')
<1>1. /\ StoreOK' /\ puts' = puts + 1
      /\ items' \in [{order'[i] : i \in 1..m} -> Contents]
      /\ \A id \in DOMAIN items' : items'[id] = IF id = puts + 1 THEN c ELSE items[id]
  BY PutKeepsOK DEF Put
<1>2. /\ puts \in Nat /\ n \in Nat /\ m \in Nat
      /\ n = IF puts <= MaxArtifacts THEN puts ELSE MaxArtifacts
      /\ m = IF puts + 1 <= MaxArtifacts THEN puts + 1 ELSE MaxArtifacts
      /\ m \in 1..n + 1
      /\ \A i \in 1..n : order[i] = puts - n + i
      /\ \A i \in 1..m : order'[i] = puts + 1 - m + i
  BY <1>1, StoreAssumption DEF StoreOK
<1>3. Kept \in Seq(Contents) /\ Len(Kept) = n
  BY KeptIsASeq
<1>4. Kept' \in Seq(Contents) /\ Len(Kept') = m
  <2>1. Kept' = [i \in 1..m |-> items'[order'[i]]]
    BY DEF Kept
  <2>2. Kept' \in [1..m -> Contents]
    BY <1>1, <2>1
  <2> HIDE DEF m
  <2> QED
    BY <1>2, <2>2
<1>5. /\ longer \in Seq(Contents) /\ Len(longer) = n + 1
      /\ longer[n + 1] = c /\ \A i \in 1..n : longer[i] = Kept[i]
  BY <1>2, <1>3, AppendProperties
<1>6. /\ new = Evicted(longer) /\ new \in Seq(Contents)
      /\ Len(new) = IF Len(longer) <= MaxArtifacts THEN Len(longer) ELSE MaxArtifacts
      /\ \A i \in 1..Len(new) : new[i] = longer[Len(longer) - Len(new) + i]
  <2> HIDE DEF longer
  <2>1. /\ Last!LastOf(longer, MaxArtifacts) = Evicted(longer)
        /\ Evicted(longer) \in Seq(Contents)
        /\ Len(Evicted(longer)) =
               IF Len(longer) <= MaxArtifacts THEN Len(longer) ELSE MaxArtifacts
        /\ \A i \in 1..Len(Evicted(longer)) :
               Evicted(longer)[i] = longer[Len(longer) - Len(Evicted(longer)) + i]
    BY <1>5, EvictedIsLast
  <2>2. new = Evicted(longer)
    BY <2>1
  <2> HIDE DEF new
  <2> QED
    BY <2>1, <2>2
<1>7. Len(new) = m
  <2> HIDE DEF longer, new
  <2> QED
    BY <1>2, <1>5, <1>6, StoreAssumption
<1>8. ASSUME NEW i \in 1..m
      PROVE  Kept'[i] = new[i]
  <2> DEFINE j == n + 1 - m + i
  <2>1. new[i] = longer[j]
    <3> HIDE DEF longer, new
    <3>1. new[i] = longer[Len(longer) - Len(new) + i]
      BY <1>6, <1>7
    <3> QED
      BY <1>5, <1>7, <3>1
  <2>2. Kept'[i] = IF order'[i] = puts + 1 THEN c ELSE items[order'[i]]
    BY <1>1 DEF Kept
  <2>3. CASE i = m
    <3>1. order'[i] = puts + 1 - m + i
      BY <1>2
    <3> HIDE DEF n, m, longer, new
    <3>2. order'[i] = puts + 1 /\ j = n + 1
      BY <1>2, <2>3, <3>1
    <3> HIDE DEF j
    <3> QED
      BY <1>5, <2>1, <2>2, <3>2
  <2>4. CASE i # m
    <3>1. j \in 1..n /\ order'[i] # puts + 1 /\ order'[i] = order[j]
      <4>1. order'[i] = puts + 1 - m + i
        BY <1>2
      <4> HIDE DEF n, m
      <4>2. j \in 1..n
        BY <1>2, <2>4
      <4>3. order[j] = puts - n + j
        BY <1>2, <4>2
      <4> QED
        BY <1>2, <2>4, <4>1, <4>2, <4>3
    <3>2. longer[j] = items[order[j]]
      BY <1>5, <3>1 DEF Kept
    <3> QED
      BY <2>1, <2>2, <3>1, <3>2
  <2> QED
    BY <2>3, <2>4
<1>9. Kept' = new
  <2> HIDE DEF new
  <2> QED
    BY <1>4, <1>6, <1>7, <1>8, SeqEqual
<1> QED
  BY <1>1, <1>9 DEF Last!Put, Kept

LEMMA LastStep == StoreOK /\ [StoreNext]_storeVars => [Last!Next]_<<Kept, puts>>
<1> SUFFICES ASSUME StoreOK, [StoreNext]_storeVars PROVE [Last!Next]_<<Kept, puts>>
  OBVIOUS
<1>1. CASE StoreNext
  BY <1>1, LastPut DEF StoreNext, Last!Next
<1>2. CASE UNCHANGED storeVars
  BY <1>2 DEF storeVars, Kept
<1> QED
  BY <1>1, <1>2

(* Whatever is put, the store serves what was put last: put and get        *)
(* implement LastArtifacts.                                                *)
THEOREM StoreImplements == StoreSpec => StoreRefines
<1> QED
  BY StoreCorrect, LastInit, LastStep, PTL DEF StoreSpec, StoreRefines, Last!Spec, Kept

-----------------------------------------------------------------------------
(* The panel and the channel *)

Shown == {b.n : b \in BlocksIn(panel)}
Coming == {b.n : b \in BlocksIn(InChan)}
Gone == {l[1] : l \in lost}

LogOK == \A s \in Sessions : Len(log[s]) <= MaxBlocks

TurnsOK ==
    /\ turn = 0 => chan = << >>
    /\ \A b \in panel \cup InChan : b.turn <= turn
    /\ \A b \in BlocksIn(panel \cup InChan) : b.n \in 1..sent

ClearOK ==
    /\ \A i \in 1..Len(chan) : chan[i] = Clear =>
          BlocksIn(panel) = {} /\ \A j \in 1..Len(chan) : j < i => chan[j].turn # turn
    /\ ~missed /\ Clear \notin InChan => \A b \in panel : b.turn = turn
    /\ ~missed => \A i \in 1..Len(chan) : chan[i].turn \notin {0, turn} =>
          \E j \in 1..Len(chan) : i < j /\ chan[j] = Clear

Parts ==
    /\ Shown \cup Coming \cup Gone = 1..sent
    /\ Shown \cap Coming = {} /\ Shown \cap Gone = {} /\ Coming \cap Gone = {}
    /\ \A l, m \in lost : l[1] = m[1] => l = m
    /\ \A i, j \in 1..Len(chan) :
          chan[i].turn = turn /\ chan[j].turn = turn /\ chan[i].n = chan[j].n => i = j

PreviewsOK ==
    \A b \in BlocksIn(panel \cup InChan) : b.view = "frame" =>
        /\ b.id \in 1..puts
        /\ puts - b.id < MaxArtifacts => items[b.id] = log[followed][b.n].content

IInv == TypeOK /\ StoreOK /\ LogOK /\ TurnsOK /\ ClearOK /\ Parts /\ PreviewsOK
-----------------------------------------------------------------------------
(* The channel *)

Frame == Block \cup {Clear}

LEMMA AppendFrames ==
  ASSUME NEW S, NEW w \in Seq(S), NEW f \in S
  PROVE  LET v == Append(w, f)
             k == Len(w) + 1
         IN  /\ v \in Seq(S) /\ Len(w) \in Nat /\ Len(v) = k
             /\ k \in 1..Len(v) /\ v[k] = f
             /\ \A i \in 1..Len(w) : i \in 1..Len(v) /\ v[i] = w[i] /\ i < k
             /\ \A i \in 1..Len(v) : i \in 1..Len(w) \/ i = k
             /\ {v[i] : i \in 1..Len(v)} = {w[i] : i \in 1..Len(w)} \cup {f}
  <1> DEFINE v == Append(w, f)
             k == Len(w) + 1
  <1>1. /\ v \in Seq(S) /\ Len(w) \in Nat /\ Len(v) = k /\ v[k] = f
        /\ \A i \in 1..Len(w) : v[i] = w[i]
    BY AppendProperties, LenProperties
  <1> HIDE DEF v
  <1>2. /\ k \in 1..Len(v)
        /\ \A i \in 1..Len(w) : i \in 1..Len(v) /\ i < k
        /\ \A i \in 1..Len(v) : i \in 1..Len(w) \/ i = k
    BY <1>1
  <1> HIDE DEF k
  <1>3. {v[i] : i \in 1..Len(v)} = {w[i] : i \in 1..Len(w)} \cup {f}
    BY <1>1, <1>2
  <1> QED BY <1>1, <1>2, <1>3 DEF v, k

LEMMA TailFrames ==
  ASSUME NEW S, NEW w \in Seq(S), w # << >>
  PROVE  LET v == Tail(w)
         IN  /\ v \in Seq(S) /\ Len(v) \in Nat /\ Len(w) = Len(v) + 1
             /\ Head(w) = w[1] /\ 1 \in 1..Len(w) /\ w[1] \in S
             /\ \A i \in 1..Len(v) : i + 1 \in 1..Len(w) /\ v[i] = w[i + 1] /\ 1 < i + 1
             /\ \A i \in 1..Len(w) : i = 1 \/ (i - 1 \in 1..Len(v) /\ v[i - 1] = w[i])
             /\ {w[i] : i \in 1..Len(w)} = {v[i] : i \in 1..Len(v)} \cup {w[1]}
  <1> DEFINE v == Tail(w)
  <1>1. Len(w) \in Nat \ {0}
    BY EmptySeq, LenProperties
  <1>2. /\ v \in Seq(S) /\ Len(v) = Len(w) - 1 /\ Head(w) = w[1] /\ Head(w) \in S
        /\ \A i \in 1..Len(v) : v[i] = w[i + 1]
    BY HeadTailProperties
  <1> HIDE DEF v
  <1>3. /\ Len(v) \in Nat /\ Len(w) = Len(v) + 1 /\ 1 \in 1..Len(w)
        /\ \A i \in 1..Len(v) : i + 1 \in 1..Len(w) /\ 1 < i + 1
    BY <1>1, <1>2
  <1>4. \A i \in 1..Len(w) : i = 1 \/ (i - 1 \in 1..Len(v) /\ (i - 1) + 1 = i)
    BY <1>3
  <1>5. \A i \in 1..Len(w) : i = 1 \/ (i - 1 \in 1..Len(v) /\ v[i - 1] = w[i])
    BY <1>2, <1>4
  <1>6. {w[i] : i \in 1..Len(w)} = {v[i] : i \in 1..Len(v)} \cup {w[1]}
    BY <1>2, <1>3, <1>5
  <1> QED BY <1>2, <1>3, <1>5, <1>6 DEF v

(* What the types say of the frames and of the session that is followed. *)
LEMMA Types ==
  ASSUME TypeOK
  PROVE  /\ chan \in Seq(Frame) /\ InChan \subseteq Frame
         /\ \A i \in 1..Len(chan) : chan[i] \in InChan
         /\ \A b \in Block : b.turn \in 1..MaxTurns /\ b.turn # 0 /\ b # Clear
         /\ Clear.turn = 0
         /\ turn \in Nat /\ sent \in Nat /\ MaxTurns \in Nat /\ MaxBlocks \in Nat
         /\ followed # None <=> turn # 0
         /\ followed = None => sent = 0
         /\ followed # None => /\ followed \in Sessions /\ Len(log[followed]) \in Nat
                               /\ log[followed] \in Seq(Payloads \cup {Text})
                               /\ sent \in 0..Len(log[followed])
         /\ turn # 0 => Clear \notin BlocksIn(InChan) /\ BlocksIn(InChan) \subseteq Block
  <1> USE DEF TypeOK
  <1>1. chan \in Seq(Frame) /\ turn \in Nat /\ MaxTurns \in Nat /\ MaxBlocks \in Nat
    BY ViewAssumption DEF Frame
  <1>2. InChan \subseteq Frame /\ \A i \in 1..Len(chan) : chan[i] \in InChan
    BY <1>1, ElementOfSeq DEF InChan
  <1>3. \A b \in Block : b.turn \in 1..MaxTurns /\ b.turn # 0 /\ b # Clear
    <2> SUFFICES ASSUME NEW b \in Block PROVE b.turn \in 1..MaxTurns /\ b.turn # 0 /\ b # Clear
      OBVIOUS
    <2>1. b.turn \in 1..MaxTurns
      BY DEF Block
    <2>2. Clear.turn = 0 /\ b.turn # 0
      BY <1>1, <2>1 DEF Clear
    <2> QED BY <2>1, <2>2
  <1>4. Clear.turn = 0
    BY DEF Clear
  <1>5. followed # None => /\ followed \in Sessions /\ Len(log[followed]) \in Nat
                           /\ log[followed] \in Seq(Payloads \cup {Text})
                           /\ sent \in 0..Len(log[followed])
    <2>1. followed # None => followed \in Sessions /\ log[followed] \in Seq(Payloads \cup {Text})
      OBVIOUS
    <2> QED BY <2>1, LenProperties
  <1>6. sent \in Nat
    BY <1>5
  <1>7. turn # 0 => Clear \notin BlocksIn(InChan) /\ BlocksIn(InChan) \subseteq Block
    BY <1>2, <1>4 DEF BlocksIn, Frame
  <1> QED BY <1>1, <1>2, <1>3, <1>4, <1>5, <1>6, <1>7

LEMMA IInvInit == Init => IInv
  <1> SUFFICES ASSUME Init PROVE IInv
    OBVIOUS
  <1> USE DEF Init
  <1>1. /\ Len(chan) = 0 /\ chan \in Seq(Block \cup {Clear}) /\ 1..Len(chan) = {}
        /\ InChan = {}
    BY EmptySeq DEF InChan
  <1>2. \A s \in Sessions : log[s] = << >> /\ Len(log[s]) = 0
    BY EmptySeq
  <1>3. TypeOK
    <2>1. log \in [Sessions -> Seq(Payloads \cup {Text})]
      BY EmptySeq
    <2>2. 0 \in 0..MaxTurns /\ 0 \in 0..MaxClicks /\ 0 \in 0..MaxDrops /\ Len(chan) <= Cap
      BY <1>1, ViewAssumption
    <2>3. {selected, followed} \subseteq Sessions \cup {None}
      OBVIOUS
    <2> QED BY <1>1, <2>1, <2>2, <2>3 DEF TypeOK
  <1>4. StoreOK
    BY InitOK
  <1>5. LogOK
    BY <1>2, ViewAssumption DEF LogOK
  <1>6. BlocksIn(panel) = {} /\ BlocksIn(InChan) = {} /\ BlocksIn(panel \cup InChan) = {}
    BY <1>1 DEF BlocksIn
  <1>7. TurnsOK /\ ClearOK /\ PreviewsOK
    BY <1>1, <1>6 DEF TurnsOK, ClearOK, PreviewsOK
  <1>8. Shown = {} /\ Coming = {} /\ Gone = {}
    BY <1>6 DEF Shown, Coming, Gone
  <1>9. Parts
    BY <1>1, <1>8 DEF Parts
  <1> QED BY <1>3, <1>4, <1>5, <1>7, <1>9 DEF IInv
-----------------------------------------------------------------------------
(* Steps that leave what is rendered and where it is alone. *)
LEMMA MoveKeepsIInv ==
  ASSUME IInv, TypeOK', LogOK',
         UNCHANGED <<storeVars, followed, turn, sent, chan, panel, missed, lost>>,
         \A s \in Sessions : \A n \in 1..Len(log[s]) : log'[s][n] = log[s][n]
  PROVE  IInv'
  <1> USE DEF IInv
  <1>1. UNCHANGED <<InChan, BlocksIn(panel), BlocksIn(InChan), BlocksIn(panel \cup InChan)>>
    BY DEF InChan, BlocksIn
  <1>2. StoreOK'
    BY DEF StoreOK, storeVars
  <1>3. TurnsOK' /\ ClearOK'
    BY <1>1 DEF TurnsOK, ClearOK
  <1>4. Parts'
    BY <1>1 DEF Parts, Shown, Coming, Gone
  <1>5. PreviewsOK'
    <2> SUFFICES ASSUME NEW b \in BlocksIn(panel \cup InChan) PROVE log'[followed][b.n] = log[followed][b.n]
      BY <1>1 DEF PreviewsOK, storeVars
    <2>1. b.n \in 1..sent
      BY DEF TurnsOK
    <2>2. followed \in Sessions /\ b.n \in 1..Len(log[followed])
      BY <2>1, Types
    <2> QED BY <2>2
  <1> QED BY <1>2, <1>3, <1>4, <1>5

LEMMA MovesKeepIInv ==
  ASSUME IInv, Connect \/ \E s \in Sessions : Click(s) \/ Emit(s)
  PROVE  IInv'
  <1> USE DEF IInv, storeVars, followVars, viewVars, ghosts
  <1>1. CASE Connect
    <2>1. TypeOK' /\ LogOK'
      BY <1>1 DEF TypeOK, LogOK, Connect
    <2> QED BY <1>1, <2>1, MoveKeepsIInv DEF Connect
  <1>2. CASE \E s \in Sessions : Click(s)
    <2>1. TypeOK' /\ LogOK'
      BY <1>2, ViewAssumption DEF TypeOK, LogOK, Click
    <2> QED BY <1>2, <2>1, MoveKeepsIInv DEF Click
  <1>3. CASE \E s \in Sessions : Emit(s)
    <2>1. PICK s \in Sessions, a \in Payloads \cup {Text} :
             Len(log[s]) < MaxBlocks /\ log' = [log EXCEPT ![s] = Append(@, a)]
      BY <1>3 DEF Emit
    <2>2. /\ UNCHANGED <<storeVars, selected, followed, turn, sent, open, chan, panel, drops>>
          /\ UNCHANGED <<click, clicks, missed, lost>>
      BY <1>3 DEF Emit
    <2>3. log \in [Sessions -> Seq(Payloads \cup {Text})]
      BY DEF TypeOK
    <2>4. /\ Append(log[s], a) \in Seq(Payloads \cup {Text}) /\ Len(log[s]) \in Nat
          /\ Len(Append(log[s], a)) = Len(log[s]) + 1
          /\ \A n \in 1..Len(log[s]) : Append(log[s], a)[n] = log[s][n]
      BY <2>3, AppendProperties, LenProperties
    <2>5. /\ log' \in [Sessions -> Seq(Payloads \cup {Text})]
          /\ log'[s] = Append(log[s], a)
          /\ \A t \in Sessions : t # s => log'[t] = log[t]
      BY <2>1, <2>3, <2>4
    <2>6. \A t \in Sessions : \A n \in 1..Len(log[t]) : log'[t][n] = log[t][n]
      BY <2>4, <2>5
    <2>7. LogOK'
      BY <2>1, <2>4, <2>5, ViewAssumption DEF LogOK
    <2>8. followed # None => sent \in 0..Len(log'[followed])
      <3>1. followed # None => followed \in Sessions /\ sent \in 0..Len(log[followed])
        BY DEF TypeOK
      <3> QED BY <2>4, <2>5, <3>1
    <2>9. TypeOK'
      BY <2>2, <2>5, <2>8 DEF TypeOK
    <2> QED BY <2>2, <2>6, <2>7, <2>9, MoveKeepsIInv
  <1> QED BY <1>1, <1>2, <1>3
-----------------------------------------------------------------------------
(* The follower's steps *)

(* A new turn: all that there is belongs to earlier ones, and the clear    *)
(* frame is behind it, or is missed.                                       *)
LEMMA FollowKeepsIInv ==
  ASSUME IInv, NEW s \in Sessions, Follow(s)
  PROVE  IInv'
  <1> USE DEF IInv
  <1>0. log' \in [Sessions -> Seq(Payloads \cup {Text})] /\ LogOK'
    <2>1. CASE UNCHANGED log
      BY <2>1 DEF TypeOK, LogOK
    <2>2. CASE log' = [t \in Sessions |-> << >>]
      <3>1. << >> \in Seq(Payloads \cup {Text}) /\ Len(<< >>) <= MaxBlocks
        BY EmptySeq, ViewAssumption
      <3> QED BY <2>2, <3>1 DEF LogOK
    <2> QED BY <2>1, <2>2 DEF Follow
  <1>1. /\ turn < MaxTurns /\ followed' = s /\ turn' = turn + 1 /\ sent' = 0
        /\ chan' = IF Delivered THEN Append(chan, Clear) ELSE chan
        /\ lost' = {} /\ missed' = ~Delivered
        /\ UNCHANGED <<items, order, puts, selected, open, panel, drops, click, clicks>>
    BY DEF Follow, SetStream, Broadcast, storeVars
  <1>2. /\ turn \in Nat /\ turn' \in 1..MaxTurns /\ turn' # 0 /\ chan \in Seq(Frame)
        /\ s # None /\ Clear.turn = 0 /\ Clear \in Frame
    BY <1>1, Types, ViewAssumption DEF Frame
  <1>3. /\ chan' \in Seq(Frame) /\ Len(chan') <= Cap /\ (~open => chan' = << >>)
        /\ InChan' \subseteq InChan \cup {Clear}
        /\ \A i \in 1..Len(chan') : chan'[i] \in InChan'
        /\ Delivered =>
              /\ Clear \in InChan'
              /\ \A i \in 1..Len(chan') :
                    chan'[i] # Clear => \E j \in 1..Len(chan') : i < j /\ chan'[j] = Clear
    <2>1. CASE ~Delivered
      <3>1. InChan' = InChan
        BY <1>1, <2>1 DEF InChan
      <3> QED BY <1>1, <1>2, <2>1, <3>1 DEF TypeOK, InChan
    <2>2. CASE Delivered
      <3> DEFINE k == Len(chan) + 1
      <3>1. /\ chan' \in Seq(Frame) /\ Len(chan) \in Nat /\ Len(chan') = k
            /\ k \in 1..Len(chan') /\ chan'[k] = Clear
            /\ \A i \in 1..Len(chan) : i < k
            /\ \A i \in 1..Len(chan') : i \in 1..Len(chan) \/ i = k
            /\ InChan' = InChan \cup {Clear}
        BY <1>1, <1>2, <2>2, AppendFrames DEF InChan
      <3>2. Len(chan') <= Cap /\ open
        BY <2>2, <3>1, ViewAssumption DEF Delivered
      <3>3. \A i \in 1..Len(chan') : chan'[i] \in InChan'
        BY DEF InChan
      <3> HIDE DEF k
      <3> QED BY <3>1, <3>2, <3>3
    <2> QED BY <2>1, <2>2
  <1>4. /\ \A b \in panel \cup InChan : b.turn <= turn' /\ b.turn # turn'
    <2>1. \A b \in panel \cup InChan : b.turn \in Int /\ b.turn <= turn
      <3>1. \A b \in Frame : b.turn \in Int
        BY Types, <1>2 DEF Frame
      <3>2. panel \cup InChan \subseteq Frame
        BY Types DEF TypeOK, Frame
      <3> QED BY <3>1, <3>2 DEF TurnsOK
    <2> QED BY <1>1, <1>2, <2>1
  <1>5. \A b \in panel \cup InChan' : b.turn <= turn' /\ b.turn # turn'
    BY <1>2, <1>3, <1>4
  <1>6. BlocksIn(panel)' = {} /\ BlocksIn(InChan)' = {} /\ BlocksIn(panel \cup InChan)' = {}
    BY <1>1, <1>5 DEF BlocksIn
  <1>7. TypeOK'
    <2>1. /\ {selected', followed'} \subseteq Sessions \cup {None}
          /\ followed' = None <=> turn' = 0
      BY <1>1, <1>2, ViewAssumption DEF TypeOK
    <2>2. sent' \in 0..Len(log'[followed'])
      <3>1. Len(log'[s]) \in Nat
        BY <1>0, LenProperties
      <3> QED BY <1>1, <3>1
    <2>3. turn' \in 0..MaxTurns
      BY <1>2
    <2>4. chan' \in Seq(Block \cup {Clear})
      BY <1>3 DEF Frame
    <2> QED BY <1>1, <1>0, <1>3, <2>1, <2>2, <2>3, <2>4, ViewAssumption DEF TypeOK
  <1>8. StoreOK' /\ LogOK'
    BY <1>1, <1>0 DEF StoreOK
  <1>9. TurnsOK'
    BY <1>1, <1>2, <1>5, <1>6 DEF TurnsOK
  <1>10. ClearOK'
    <2>1. \A i \in 1..Len(chan') : chan'[i].turn # turn'
      BY <1>3, <1>5
    <2>2. missed' \/ Clear \in InChan'
      BY <1>1, <1>3
    <2>3. ~missed' => \A i \in 1..Len(chan') : chan'[i].turn # 0 =>
             \E j \in 1..Len(chan') : i < j /\ chan'[j] = Clear
      BY <1>1, <1>2, <1>3
    <2> QED BY <1>6, <2>1, <2>2, <2>3 DEF ClearOK
  <1>11. Parts'
    <2>1. Shown' = {} /\ Coming' = {} /\ Gone' = {} /\ 1..sent' = {}
      BY <1>1, <1>6 DEF Shown, Coming, Gone
    <2>2. \A i \in 1..Len(chan') : chan'[i].turn # turn'
      BY <1>3, <1>5
    <2> QED BY <1>1, <2>1, <2>2 DEF Parts
  <1>12. PreviewsOK'
    BY <1>6 DEF PreviewsOK
  <1> QED BY <1>7, <1>8, <1>9, <1>10, <1>11, <1>12

(* The last ids that were given out are the ones of the order. *)
LEMMA LastIds ==
  ASSUME NEW ids, NEW p \in Nat, NEW k \in 1..p, p - k < MaxArtifacts,
         Len(ids) = IF p <= MaxArtifacts THEN p ELSE MaxArtifacts,
         \A i \in 1..Len(ids) : ids[i] = p - Len(ids) + i
  PROVE  k \in {ids[i] : i \in 1..Len(ids)}
  <1> DEFINE n == Len(ids)
             i == k - p + n
  <1>1. n \in Nat /\ n <= p /\ (p <= MaxArtifacts => n = p) /\ (p > MaxArtifacts => n = MaxArtifacts)
    BY StoreAssumption
  <1>2. ids[i] = p - n + i
    <2> HIDE DEF n
    <2>1. i \in 1..n
      BY <1>1, StoreAssumption
    <2> QED BY <2>1 DEF n
  <1> HIDE DEF n
  <1>3. i \in 1..n /\ p - n + i = k
    BY <1>1, StoreAssumption
  <1> QED BY <1>2, <1>3 DEF n

(* An artifact is in the store as long as fewer than maxArtifacts were put *)
(* after it.                                                               *)
LEMMA InStore ==
  ASSUME StoreOK, NEW id \in 1..puts, puts - id < MaxArtifacts
  PROVE  id \in DOMAIN items
  <1>1. id \in {order[i] : i \in 1..Len(order)}
    BY LastIds DEF StoreOK
  <1> QED BY <1>1 DEF StoreOK

(* The block that is rendered, and the artifact that is put for it. *)
LEMMA RenderedFrame ==
  ASSUME TypeOK, StoreOK, LogOK, Render
  PROVE  \E f \in Block :
            /\ f.turn = turn /\ f.n = sent + 1
            /\ chan' = IF Delivered THEN Append(chan, f) ELSE chan
            /\ StoreOK' /\ puts' \in {puts, puts + 1}
            /\ \A id \in 1..puts : puts' - id < MaxArtifacts => items'[id] = items[id]
            /\ f.view = "frame" =>
                  /\ f.id \in 1..puts'
                  /\ items'[f.id] = log[followed][f.n].content
  <1> DEFINE n == sent + 1
             a == log[followed][n]
             put == a # Text /\ Previewable(a)
             id == IF put THEN puts + 1 ELSE 0
             view == IF a = Text THEN "text" ELSE Card(a, id)
             f == [turn |-> turn, n |-> n, id |-> id, view |-> view]
  <1>1. /\ followed # None /\ sent < Len(log[followed])
        /\ IF put THEN Put(a.content) ELSE UNCHANGED storeVars
        /\ chan' = IF Delivered THEN Append(chan, f) ELSE chan
    BY DEF Render, Broadcast
  <1>2. /\ sent \in Nat /\ followed \in Sessions /\ Len(log[followed]) \in Nat
        /\ log[followed] \in Seq(Payloads \cup {Text}) /\ MaxBlocks \in Nat
        /\ turn \in Nat /\ turn # 0 /\ turn \in 1..MaxTurns
    BY <1>1, Types DEF TypeOK
  <1>3. n \in 1..Len(log[followed]) /\ n \in 1..MaxBlocks
    BY <1>1, <1>2 DEF LogOK
  <1>4. a \in Payloads \cup {Text} /\ (put => a.content \in Contents)
    <2>1. a \in Payloads \cup {Text}
      BY <1>2, <1>3, ElementOfSeq
    <2> HIDE DEF a
    <2>2. a # Text => a \in Artifact
      BY <2>1, ViewAssumption
    <2>3. put => a.content \in Contents
      BY <2>2 DEF Artifact, Previewable
    <2> QED BY <2>1, <2>3
  <1>5. id \in Nat /\ view \in Views /\ (view = "frame" => put)
    <2>1. puts \in Nat
      BY DEF StoreOK
    <2> HIDE DEF a, put
    <2> QED BY <2>1 DEF Card, Views
  <1>6. f \in Block
    <2> HIDE DEF a, n, id, view
    <2> QED BY <1>2, <1>3, <1>5 DEF Block
  <1>7. f.turn = turn /\ f.n = n /\ f.id = id /\ f.view = view
    OBVIOUS
  <1>8. CASE put
    <2> HIDE DEF a, n
    <2>1. /\ Put(a.content) /\ a.content \in Contents /\ puts' = puts + 1 /\ puts \in Nat
      BY <1>1, <1>4, <1>8 DEF Put, StoreOK
    <2>2. /\ StoreOK'
          /\ \A k \in DOMAIN items' : items'[k] = IF k = puts + 1 THEN a.content ELSE items[k]
      BY <2>1, PutKeepsOK
    <2>3. \A k \in 1..puts' : puts' - k < MaxArtifacts => k \in DOMAIN items'
      <3>1. /\ puts' \in Nat
            /\ Len(order') = IF puts' <= MaxArtifacts THEN puts' ELSE MaxArtifacts
            /\ \A i \in 1..Len(order') : order'[i] = puts' - Len(order') + i
            /\ DOMAIN items' = {order'[i] : i \in 1..Len(order')}
        BY <2>2 DEF StoreOK
      <3> QED BY <3>1, LastIds
    <2>4. /\ puts + 1 \in 1..puts' /\ puts' - (puts + 1) < MaxArtifacts
          /\ \A k \in 1..puts : k \in 1..puts' /\ k # puts + 1
      BY <2>1, StoreAssumption
    <2>5. \A k \in 1..puts : puts' - k < MaxArtifacts => items'[k] = items[k]
      BY <2>2, <2>3, <2>4
    <2>6. items'[puts + 1] = a.content
      BY <2>2, <2>3, <2>4
    <2>7. id = puts + 1
      BY <1>8
    <2> HIDE DEF put, id, view
    <2> QED BY <1>1, <1>6, <1>7, <2>1, <2>2, <2>4, <2>5, <2>6, <2>7 DEF n, a
  <1>9. CASE ~put
    <2>1. items' = items /\ order' = order /\ puts' = puts
      BY <1>1, <1>9 DEF storeVars
    <2>2. StoreOK'
      BY <2>1 DEF StoreOK
    <2>3. view # "frame"
      BY <1>5, <1>9
    <2> HIDE DEF a, n, put, id, view
    <2> QED BY <1>1, <1>6, <1>7, <2>1, <2>2, <2>3 DEF n
  <1> QED BY <1>8, <1>9

(* An id that is not too old after another put was not too old before. *)
LEMMA OldIds ==
  ASSUME NEW p \in Nat, NEW q \in {p, p + 1}, NEW id \in 1..p
  PROVE  id \in 1..q /\ (q - id < MaxArtifacts => p - id < MaxArtifacts)
  BY StoreAssumption

(* The block is behind what is in the channel, or lost; the ids in frames  *)
(* of before stand for what they stood for, or have become too old.        *)
LEMMA RenderKeepsIInv ==
  ASSUME IInv, Render
  PROVE  IInv'
  <1> USE DEF IInv
  <1> DEFINE n == sent + 1
  <1>1. PICK f \in Block :
            /\ f.turn = turn /\ f.n = n
            /\ chan' = IF Delivered THEN Append(chan, f) ELSE chan
            /\ StoreOK' /\ puts' \in {puts, puts + 1}
            /\ \A id \in 1..puts : puts' - id < MaxArtifacts => items'[id] = items[id]
            /\ f.view = "frame" =>
                  /\ f.id \in 1..puts'
                  /\ items'[f.id] = log[followed][f.n].content
    BY RenderedFrame
  <1>2. /\ followed # None /\ sent < Len(log[followed]) /\ sent' = n
        /\ lost' = IF Delivered THEN lost ELSE lost \cup {<<n, WhyLost>>}
        /\ UNCHANGED <<log, selected, followed, turn, open, panel, drops, click, clicks, missed>>
    BY DEF Render
  <1>3. /\ sent \in Nat /\ turn \in Nat /\ turn # 0 /\ MaxBlocks \in Nat
        /\ followed \in Sessions /\ Len(log[followed]) \in Nat
        /\ chan \in Seq(Frame) /\ f \in Frame /\ f # Clear /\ Clear.turn = 0
    BY <1>2, Types DEF Frame
  <1>4. /\ n \in 1..MaxBlocks /\ n \in 0..Len(log[followed])
        /\ n \notin 1..sent /\ 1..sent' = 1..sent \cup {n}
    <2>1. n \in 1..MaxBlocks /\ n \in 0..Len(log[followed])
      BY <1>2, <1>3 DEF LogOK
    <2>2. n \notin 1..sent /\ 1..n = 1..sent \cup {n}
      BY <1>3
    <2> QED BY <1>2, <2>1, <2>2
  <1> HIDE DEF n
  <1>5. CASE ~Delivered
    <2>1. /\ chan' = chan /\ lost' = lost \cup {<<n, WhyLost>>} /\ WhyLost \in Reasons
          /\ InChan' = InChan /\ BlocksIn(panel)' = BlocksIn(panel)
          /\ BlocksIn(InChan)' = BlocksIn(InChan)
          /\ BlocksIn(panel \cup InChan)' = BlocksIn(panel \cup InChan)
      BY <1>1, <1>2, <1>5 DEF InChan, BlocksIn, WhyLost, Reasons
    <2>2. TypeOK'
      <3>1. lost' \subseteq (1..MaxBlocks) \X Reasons
        BY <1>4, <2>1 DEF TypeOK
      <3> QED BY <1>2, <1>4, <2>1, <3>1 DEF TypeOK
    <2>3. LogOK' /\ TurnsOK' /\ ClearOK'
      BY <1>2, <1>4, <2>1 DEF LogOK, TurnsOK, ClearOK
    <2>4. Parts'
      <3>1. Shown' = Shown /\ Coming' = Coming /\ Gone' = Gone \cup {n}
        <4>1. Shown' = Shown /\ Coming' = Coming
          BY <2>1 DEF Shown, Coming
        <4>2. Gone' = Gone \cup {<<n, WhyLost>>[1]}
          BY <2>1 DEF Gone
        <4> QED BY <4>1, <4>2
      <3>2. n \notin Shown /\ n \notin Coming /\ n \notin Gone
        BY <1>4 DEF Parts
      <3>3. \A l, m \in lost' : l[1] = m[1] => l = m
        <4>1. \A l \in lost : l[1] # n
          BY <3>2 DEF Gone
        <4>2. <<n, WhyLost>>[1] = n
          OBVIOUS
        <4> QED BY <2>1, <4>1, <4>2 DEF Parts
      <3> QED BY <1>2, <1>4, <2>1, <3>1, <3>2, <3>3 DEF Parts
    <2>5. PreviewsOK'
      <3> SUFFICES ASSUME NEW b \in BlocksIn(panel \cup InChan), b.view = "frame"
                   PROVE  /\ b.id \in 1..puts'
                          /\ puts' - b.id < MaxArtifacts =>
                                items'[b.id] = log[followed][b.n].content
        BY <1>2, <2>1 DEF PreviewsOK
      <3>1. /\ b.id \in 1..puts /\ puts \in Nat
            /\ puts - b.id < MaxArtifacts => items[b.id] = log[followed][b.n].content
        BY DEF PreviewsOK, StoreOK
      <3>2. b.id \in 1..puts' /\ (puts' - b.id < MaxArtifacts => puts - b.id < MaxArtifacts)
        BY <1>1, <3>1, OldIds
      <3> QED BY <1>1, <3>1, <3>2
    <2> QED BY <1>1, <2>2, <2>3, <2>4, <2>5
  <1>6. CASE Delivered
    <2> DEFINE k == Len(chan) + 1
    <2>1. /\ chan' = Append(chan, f) /\ lost' = lost /\ open /\ Len(chan) < Cap
      BY <1>1, <1>2, <1>6 DEF Delivered
    <2>2. /\ chan' \in Seq(Frame) /\ Len(chan) \in Nat /\ Len(chan') = k
          /\ k \in 1..Len(chan') /\ chan'[k] = f
          /\ \A i \in 1..Len(chan) : i \in 1..Len(chan') /\ chan'[i] = chan[i] /\ i < k
          /\ \A i \in 1..Len(chan') : i \in 1..Len(chan) \/ i = k
          /\ InChan' = InChan \cup {f}
      BY <1>3, <2>1, AppendFrames DEF InChan
    <2>3. Len(chan') <= Cap
      BY <2>1, <2>2, ViewAssumption
    <2> HIDE DEF k
    <2>4. /\ BlocksIn(panel)' = BlocksIn(panel)
          /\ BlocksIn(InChan)' = BlocksIn(InChan) \cup {f}
          /\ BlocksIn(panel \cup InChan)' = BlocksIn(panel \cup InChan) \cup {f}
      BY <1>1, <1>2, <2>2 DEF BlocksIn
    <2>5. TypeOK'
      BY <1>2, <1>4, <2>1, <2>2, <2>3 DEF TypeOK, Frame
    <2>6. LogOK' /\ TurnsOK'
      <3>1. \A b \in panel' \cup InChan' : b.turn <= turn'
        BY <1>1, <1>2, <1>3, <2>2 DEF TurnsOK
      <3>2. \A b \in BlocksIn(panel \cup InChan)' : b.n \in 1..sent'
        BY <1>1, <1>4, <2>4 DEF TurnsOK
      <3> QED BY <1>2, <1>3, <3>1, <3>2 DEF LogOK, TurnsOK
    <2>7. ClearOK'
      <3>1. \A i \in 1..Len(chan') : chan'[i] = Clear =>
               BlocksIn(panel)' = {} /\ \A j \in 1..Len(chan') : j < i => chan'[j].turn # turn'
        <4> SUFFICES ASSUME NEW i \in 1..Len(chan'), chan'[i] = Clear
                     PROVE  /\ BlocksIn(panel)' = {}
                            /\ \A j \in 1..Len(chan') : j < i => chan'[j].turn # turn'
          OBVIOUS
        <4>1. i \in 1..Len(chan) /\ chan[i] = Clear
          BY <1>3, <2>2
        <4>2. \A j \in 1..Len(chan') : j < i => j \in 1..Len(chan)
          BY <2>2, <4>1
        <4> QED BY <1>2, <2>2, <2>4, <4>1, <4>2 DEF ClearOK
      <3>2. ~missed' /\ Clear \notin InChan' => \A b \in panel' : b.turn = turn'
        BY <1>2, <2>2 DEF ClearOK
      <3>3. ~missed' => \A i \in 1..Len(chan') : chan'[i].turn \notin {0, turn'} =>
               \E j \in 1..Len(chan') : i < j /\ chan'[j] = Clear
        <4> SUFFICES ASSUME ~missed, NEW i \in 1..Len(chan'), chan'[i].turn \notin {0, turn}
                     PROVE  \E j \in 1..Len(chan') : i < j /\ chan'[j] = Clear
          BY <1>2
        <4>1. i \in 1..Len(chan) /\ chan[i].turn \notin {0, turn}
          BY <1>1, <2>2
        <4>2. PICK j \in 1..Len(chan) : i < j /\ chan[j] = Clear
          BY <4>1 DEF ClearOK
        <4> QED BY <2>2, <4>2
      <3> QED BY <3>1, <3>2, <3>3 DEF ClearOK
    <2>8. Parts'
      <3>1. Shown' = Shown /\ Coming' = Coming \cup {n} /\ Gone' = Gone
        BY <1>1, <2>1, <2>4 DEF Shown, Coming, Gone
      <3>2. n \notin Shown /\ n \notin Coming /\ n \notin Gone
        BY <1>4 DEF Parts
      <3>3. \A i \in 1..Len(chan) : chan[i].turn = turn => chan[i].n # n
        BY <3>2 DEF Coming, BlocksIn, InChan
      <3>4. ASSUME NEW i \in 1..Len(chan'), NEW j \in 1..Len(chan'),
                   chan'[i].turn = turn, chan'[j].turn = turn, chan'[i].n = chan'[j].n
            PROVE  i = j
        <4>1. CASE i \in 1..Len(chan) /\ j \in 1..Len(chan)
          BY <2>2, <3>4, <4>1 DEF Parts
        <4>2. CASE i = k /\ j \in 1..Len(chan)
          BY <1>1, <2>2, <3>3, <3>4, <4>2
        <4>3. CASE i \in 1..Len(chan) /\ j = k
          BY <1>1, <2>2, <3>3, <3>4, <4>3
        <4> QED BY <2>2, <4>1, <4>2, <4>3
      <3>5. Shown' \cup Coming' \cup Gone' = 1..sent'
        BY <1>4, <3>1 DEF Parts
      <3>6. Shown' \cap Coming' = {} /\ Shown' \cap Gone' = {} /\ Coming' \cap Gone' = {}
        BY <3>1, <3>2 DEF Parts
      <3> QED BY <1>2, <2>1, <3>4, <3>5, <3>6 DEF Parts
    <2>9. PreviewsOK'
      <3> SUFFICES ASSUME NEW b \in BlocksIn(panel \cup InChan) \cup {f}, b.view = "frame"
                   PROVE  /\ b.id \in 1..puts'
                          /\ puts' - b.id < MaxArtifacts =>
                                items'[b.id] = log[followed][b.n].content
        BY <1>2, <2>4 DEF PreviewsOK
      <3>1. CASE b = f
        BY <1>1, <3>1
      <3>2. CASE b \in BlocksIn(panel \cup InChan)
        <4>1. /\ b.id \in 1..puts /\ puts \in Nat
              /\ puts - b.id < MaxArtifacts => items[b.id] = log[followed][b.n].content
          BY <3>2 DEF PreviewsOK, StoreOK
        <4>2. b.id \in 1..puts' /\ (puts' - b.id < MaxArtifacts => puts - b.id < MaxArtifacts)
          BY <1>1, <4>1, OldIds
        <4> QED BY <1>1, <4>1, <4>2
      <3> QED BY <3>1, <3>2
    <2> QED BY <1>1, <2>5, <2>6, <2>7, <2>8, <2>9
  <1> QED BY <1>5, <1>6
-----------------------------------------------------------------------------
(* The browser's steps *)

(* They add no frame to those that are in the panel or in the channel. *)
LEMMA FewerFrames ==
  ASSUME IInv, UNCHANGED <<storeVars, log, followVars>>,
         panel' \cup InChan' \subseteq panel \cup InChan,
         turn = 0 => chan' = << >>
  PROVE  StoreOK' /\ LogOK' /\ TurnsOK' /\ PreviewsOK'
  <1> USE DEF IInv, followVars, storeVars
  <1>1. BlocksIn(panel \cup InChan)' \subseteq BlocksIn(panel \cup InChan)
    BY DEF BlocksIn
  <1>2. StoreOK' /\ LogOK'
    BY DEF StoreOK, LogOK
  <1>3. TurnsOK'
    BY <1>1 DEF TurnsOK
  <1>4. PreviewsOK'
    BY <1>1 DEF PreviewsOK
  <1> QED BY <1>2, <1>3, <1>4

(* Blocks that are lost are lost once. *)
LEMMA Loses ==
  ASSUME IInv, NEW B, BlocksIn(B) \subseteq Block, NEW why \in Reasons,
         \A b \in BlocksIn(B) : b.n \notin Gone
  PROVE  /\ Losing(B, why) \subseteq (1..MaxBlocks) \X Reasons
         /\ {l[1] : l \in Losing(B, why)} = Gone \cup {b.n : b \in BlocksIn(B)}
         /\ \A l, m \in Losing(B, why) : l[1] = m[1] => l = m
  <1> DEFINE new == {<<b.n, why>> : b \in BlocksIn(B)}
  <1>1. Losing(B, why) = lost \cup new
    BY DEF Losing
  <1>2. lost \subseteq (1..MaxBlocks) \X Reasons /\ \A l, m \in lost : l[1] = m[1] => l = m
    BY DEF IInv, TypeOK, Parts
  <1>3. \A b \in BlocksIn(B) : b.n \in 1..MaxBlocks
    BY DEF Block
  <1>4. new \subseteq (1..MaxBlocks) \X Reasons
    BY <1>3
  <1>5. {l[1] : l \in new} = {b.n : b \in BlocksIn(B)}
    <2>1. {l[1] : l \in new} \subseteq {b.n : b \in BlocksIn(B)}
      OBVIOUS
    <2>2. ASSUME NEW b \in BlocksIn(B) PROVE b.n \in {l[1] : l \in new}
      <3>1. <<b.n, why>> \in new /\ <<b.n, why>>[1] = b.n
        OBVIOUS
      <3> HIDE DEF new
      <3> QED BY <3>1
    <2> QED BY <2>1, <2>2
  <1>6. \A l \in new : l = <<l[1], why>> /\ l[1] \notin Gone
    OBVIOUS
  <1>7. \A l \in lost : l[1] \in Gone
    BY DEF Gone
  <1> HIDE DEF new
  <1>8. {l[1] : l \in lost \cup new} = Gone \cup {l[1] : l \in new}
    BY DEF Gone
  <1>9. \A l, m \in lost \cup new : l[1] = m[1] => l = m
    BY <1>2, <1>6, <1>7
  <1> QED BY <1>1, <1>2, <1>4, <1>5, <1>8, <1>9

LEMMA DropKeepsIInv ==
  ASSUME IInv, Drop
  PROVE  IInv'
  <1> USE DEF IInv
  <1>1. /\ drops < MaxDrops /\ drops' = drops + 1 /\ open' = FALSE /\ chan' = << >>
        /\ missed' = (missed \/ Clear \in InChan) /\ lost' = Losing(InChan, "dropped")
        /\ UNCHANGED <<storeVars, log, followVars, panel, click, clicks>>
    BY DEF Drop
  <1>2. /\ Len(chan') = 0 /\ 1..Len(chan') = {} /\ chan' \in Seq(Block \cup {Clear})
        /\ InChan' = {}
    BY <1>1, EmptySeq DEF InChan
  <1>3. /\ BlocksIn(panel)' = BlocksIn(panel) /\ BlocksIn(InChan)' = {}
        /\ Shown' = Shown /\ Coming' = {}
    BY <1>1, <1>2 DEF BlocksIn, Shown, Coming, followVars
  <1>4. BlocksIn(InChan) \subseteq Block
    <2>1. CASE turn = 0
      <3>1. Len(chan) = 0 /\ InChan = {}
        BY <2>1, EmptySeq DEF TurnsOK, InChan
      <3> QED BY <3>1 DEF BlocksIn
    <2>2. CASE turn # 0
      BY <2>2, Types
    <2> QED BY <2>1, <2>2
  <1>5. /\ lost' \subseteq (1..MaxBlocks) \X Reasons
        /\ Gone' = Gone \cup Coming
        /\ \A l, m \in lost' : l[1] = m[1] => l = m
    <2>1. "dropped" \in Reasons /\ \A b \in BlocksIn(InChan) : b.n \notin Gone
      BY DEF Parts, Coming, Reasons
    <2> QED BY <1>1, <1>4, <2>1, Loses DEF Gone, Coming
  <1>6. TypeOK'
    <2>1. drops' \in 0..MaxDrops /\ missed' \in BOOLEAN
      BY <1>1, ViewAssumption DEF TypeOK
    <2>2. Len(chan') <= Cap
      BY <1>2, ViewAssumption
    <2> QED BY <1>1, <1>2, <1>5, <2>1, <2>2 DEF TypeOK, followVars
  <1>7. ClearOK'
    <2>1. ~missed' => \A b \in panel' : b.turn = turn'
      BY <1>1 DEF ClearOK, followVars
    <2> QED BY <1>2, <2>1 DEF ClearOK
  <1>8. Parts'
    <2>1. sent' = sent
      BY <1>1 DEF followVars
    <2> QED BY <1>2, <1>3, <1>5, <2>1 DEF Parts
  <1>9. StoreOK' /\ LogOK' /\ TurnsOK' /\ PreviewsOK'
    BY <1>1, <1>2, FewerFrames
  <1> QED BY <1>6, <1>7, <1>8, <1>9

LEMMA SwapKeepsIInv ==
  ASSUME IInv, Swap
  PROVE  IInv'
  <1> USE DEF IInv
  <1>1. /\ click' = FALSE /\ panel' = {} /\ lost' = Losing(panel, "swapped")
        /\ UNCHANGED <<storeVars, log, followVars, open, chan, drops, clicks, missed>>
    BY DEF Swap
  <1>2. /\ InChan' = InChan /\ BlocksIn(panel)' = {} /\ BlocksIn(InChan)' = BlocksIn(InChan)
        /\ Shown' = {} /\ Coming' = Coming
    BY <1>1 DEF InChan, BlocksIn, Shown, Coming, followVars
  <1>3. /\ lost' \subseteq (1..MaxBlocks) \X Reasons
        /\ Gone' = Gone \cup Shown
        /\ \A l, m \in lost' : l[1] = m[1] => l = m
    <2>1. /\ "swapped" \in Reasons /\ BlocksIn(panel) \subseteq Block
          /\ \A b \in BlocksIn(panel) : b.n \notin Gone
      BY DEF Parts, Shown, Reasons, TypeOK, BlocksIn
    <2> QED BY <1>1, <2>1, Loses DEF Gone, Shown
  <1>4. TypeOK'
    BY <1>1, <1>3 DEF TypeOK, followVars
  <1>5. ClearOK'
    BY <1>1, <1>2 DEF ClearOK, followVars
  <1>6. Parts'
    <2>1. sent' = sent /\ turn' = turn
      BY <1>1 DEF followVars
    <2> QED BY <1>1, <1>2, <1>3, <2>1 DEF Parts
  <1>7. turn = 0 => chan' = << >>
    BY <1>1 DEF TurnsOK
  <1>8. StoreOK' /\ LogOK' /\ TurnsOK' /\ PreviewsOK'
    BY <1>1, <1>2, <1>7, FewerFrames
  <1> QED BY <1>4, <1>5, <1>6, <1>8

(* What is next in the channel moves to the panel, or empties it; of the   *)
(* present turn there is nothing in the panel then.                        *)
LEMMA ReceiveKeepsIInv ==
  ASSUME IInv, Receive
  PROVE  IInv'
  <1> USE DEF IInv
  <1> DEFINE h == chan[1]
  <1>1. /\ chan # << >> /\ chan' = Tail(chan) /\ Head(chan) = h
        /\ panel' = IF h = Clear THEN {} ELSE panel \cup {h}
        /\ UNCHANGED <<items, order, puts, log, selected, followed, turn, sent>>
        /\ UNCHANGED <<open, drops, click, clicks, missed, lost>>
    <2>1. chan # << >> /\ chan \in Seq(Frame)
      BY Types DEF Receive
    <2>2. Head(chan) = h
      BY <2>1, TailFrames
    <2> QED BY <2>1, <2>2 DEF Receive, storeVars, followVars, ghosts
  <1>2. /\ chan' \in Seq(Frame) /\ Len(chan') \in Nat /\ Len(chan) = Len(chan') + 1
        /\ 1 \in 1..Len(chan) /\ h \in Frame
        /\ \A i \in 1..Len(chan') : i + 1 \in 1..Len(chan) /\ chan'[i] = chan[i + 1] /\ 1 < i + 1
        /\ \A i \in 1..Len(chan) : i = 1 \/ (i - 1 \in 1..Len(chan') /\ chan'[i - 1] = chan[i])
        /\ InChan = InChan' \cup {h}
    <2>1. chan \in Seq(Frame) /\ chan # << >>
      BY <1>1, Types
    <2>2. /\ Tail(chan) \in Seq(Frame) /\ Len(Tail(chan)) \in Nat
          /\ Len(chan) = Len(Tail(chan)) + 1 /\ 1 \in 1..Len(chan) /\ chan[1] \in Frame
          /\ \A i \in 1..Len(Tail(chan)) :
                i + 1 \in 1..Len(chan) /\ Tail(chan)[i] = chan[i + 1] /\ 1 < i + 1
          /\ \A i \in 1..Len(chan) :
                i = 1 \/ (i - 1 \in 1..Len(Tail(chan)) /\ Tail(chan)[i - 1] = chan[i])
          /\ InChan = {Tail(chan)[i] : i \in 1..Len(Tail(chan))} \cup {chan[1]}
      BY <2>1, TailFrames DEF InChan
    <2>3. chan' = Tail(chan) /\ InChan' = {Tail(chan)[i] : i \in 1..Len(Tail(chan))}
      BY <1>1 DEF InChan
    <2> QED BY <2>2, <2>3
  <1>3. turn # 0 /\ Clear.turn = 0 /\ (h # Clear => h \in Block /\ h.turn # 0)
    BY <1>1, <1>2, Types DEF TurnsOK, Frame
  <1>4. panel' \cup InChan' \subseteq panel \cup InChan
    BY <1>1, <1>2
  <1>5. StoreOK' /\ LogOK' /\ TurnsOK' /\ PreviewsOK'
    BY <1>1, <1>3, <1>4, FewerFrames DEF storeVars, followVars
  <1>6. TypeOK'
    <2>1. panel' \subseteq Block
      BY <1>1, <1>3 DEF TypeOK
    <2>2. Len(chan') <= Cap
      BY <1>2, ViewAssumption DEF TypeOK
    <2>3. open
      BY <1>1 DEF TypeOK
    <2> QED BY <1>1, <1>2, <2>1, <2>2, <2>3 DEF TypeOK, Frame
  <1>7. \A i \in 1..Len(chan') : chan'[i] = Clear =>
           \A j \in 1..Len(chan') : j < i => chan'[j].turn # turn'
    <2> SUFFICES ASSUME NEW i \in 1..Len(chan'), chan'[i] = Clear, NEW j \in 1..Len(chan'), j < i
                 PROVE  chan'[j].turn # turn
      BY <1>1
    <2>1. i + 1 \in 1..Len(chan) /\ j + 1 \in 1..Len(chan) /\ j + 1 < i + 1 /\ chan[i + 1] = Clear
      BY <1>2
    <2>2. chan[j + 1].turn # turn
      BY <2>1 DEF ClearOK
    <2> QED BY <1>2, <2>2
  <1>8. ~missed' => \A i \in 1..Len(chan') : chan'[i].turn \notin {0, turn'} =>
           \E j \in 1..Len(chan') : i < j /\ chan'[j] = Clear
    <2> SUFFICES ASSUME ~missed, NEW i \in 1..Len(chan'), chan'[i].turn \notin {0, turn}
                 PROVE  \E j \in 1..Len(chan') : i < j /\ chan'[j] = Clear
      BY <1>1
    <2>1. i + 1 \in 1..Len(chan) /\ chan[i + 1].turn \notin {0, turn} /\ 1 < i + 1
      BY <1>2
    <2>2. PICK j \in 1..Len(chan) : i + 1 < j /\ chan[j] = Clear
      BY <2>1 DEF ClearOK
    <2>3. j # 1 /\ i < j - 1
      BY <2>1, <2>2
    <2>4. j - 1 \in 1..Len(chan') /\ chan'[j - 1] = Clear
      BY <1>2, <2>2, <2>3
    <2> QED BY <2>3, <2>4
  <1>9. \A i, j \in 1..Len(chan') :
           chan'[i].turn = turn /\ chan'[j].turn = turn /\ chan'[i].n = chan'[j].n => i = j
    <2> SUFFICES ASSUME NEW i \in 1..Len(chan'), NEW j \in 1..Len(chan'),
                        chan'[i].turn = turn, chan'[j].turn = turn, chan'[i].n = chan'[j].n
                 PROVE  i = j
      OBVIOUS
    <2>1. i + 1 \in 1..Len(chan) /\ j + 1 \in 1..Len(chan)
          /\ chan'[i] = chan[i + 1] /\ chan'[j] = chan[j + 1]
      BY <1>2
    <2>2. i + 1 = j + 1
      BY <2>1 DEF Parts
    <2> QED BY <2>2
  <1> HIDE DEF h
  <1>10. CASE h = Clear
    <2>1. panel' = {} /\ BlocksIn(panel) = {}
      BY <1>1, <1>2, <1>10 DEF ClearOK, h
    <2>2. BlocksIn(panel)' = {} /\ BlocksIn(InChan)' = BlocksIn(InChan)
      BY <1>1, <1>2, <1>3, <1>10, <2>1 DEF BlocksIn
    <2>3. Shown' = Shown /\ Coming' = Coming /\ Gone' = Gone
      BY <1>1, <2>1, <2>2 DEF Shown, Coming, Gone
    <2>4. ClearOK'
      BY <1>7, <1>8, <2>1, <2>2 DEF ClearOK
    <2>5. Parts'
      BY <1>1, <1>9, <2>3 DEF Parts
    <2> QED BY <1>5, <1>6, <2>4, <2>5
  <1>11. CASE h # Clear /\ h.turn # turn
    <2>1. BlocksIn(panel)' = BlocksIn(panel) /\ BlocksIn(InChan)' = BlocksIn(InChan)
      BY <1>1, <1>2, <1>11 DEF BlocksIn
    <2>2. Shown' = Shown /\ Coming' = Coming /\ Gone' = Gone
      BY <1>1, <2>1 DEF Shown, Coming, Gone
    <2>3. ~missed => Clear \in InChan'
      <3> SUFFICES ASSUME ~missed PROVE Clear \in InChan'
        OBVIOUS
      <3>1. PICK j \in 1..Len(chan) : 1 < j /\ chan[j] = Clear
        BY <1>2, <1>3, <1>11 DEF ClearOK, h
      <3>2. j - 1 \in 1..Len(chan') /\ chan'[j - 1] = Clear
        BY <1>2, <3>1
      <3> QED BY <3>2 DEF InChan
    <2>4. \A i \in 1..Len(chan') : chan'[i] = Clear => BlocksIn(panel)' = {}
      <3> SUFFICES ASSUME NEW i \in 1..Len(chan'), chan'[i] = Clear PROVE BlocksIn(panel) = {}
        BY <2>1
      <3>1. i + 1 \in 1..Len(chan) /\ chan[i + 1] = Clear
        BY <1>2
      <3> QED BY <3>1 DEF ClearOK
    <2>5. ClearOK'
      BY <1>1, <1>7, <1>8, <2>3, <2>4 DEF ClearOK
    <2>6. Parts'
      BY <1>1, <1>9, <2>2 DEF Parts
    <2> QED BY <1>5, <1>6, <2>5, <2>6
  <1>12. CASE h # Clear /\ h.turn = turn
    <2>1. /\ BlocksIn(panel)' = BlocksIn(panel) \cup {h}
          /\ BlocksIn(InChan) = BlocksIn(InChan)' \cup {h}
      BY <1>1, <1>2, <1>12 DEF BlocksIn
    <2>2. Shown' = Shown \cup {h.n} /\ Coming = Coming' \cup {h.n} /\ Gone' = Gone
      BY <1>1, <2>1 DEF Shown, Coming, Gone
    <2>3. h.n \notin Coming'
      <3> SUFFICES ASSUME NEW i \in 1..Len(chan'), chan'[i].turn = turn, chan'[i].n = h.n
                   PROVE  FALSE
        BY <1>1 DEF Coming, BlocksIn, InChan
      <3>1. i + 1 \in 1..Len(chan) /\ chan[i + 1] = chan'[i] /\ 1 < i + 1
        BY <1>2
      <3>2. i + 1 = 1
        BY <1>2, <1>12, <3>1 DEF Parts, h
      <3> QED BY <3>1, <3>2
    <2>4. \A i \in 1..Len(chan) : chan[i] # Clear
      <3> SUFFICES ASSUME NEW i \in 1..Len(chan), chan[i] = Clear PROVE FALSE
        OBVIOUS
      <3>1. i # 1 /\ 1 < i
        BY <1>2, <1>12 DEF h
      <3> QED BY <1>2, <1>12, <3>1 DEF ClearOK, h
    <2>5. Clear \notin InChan /\ \A i \in 1..Len(chan') : chan'[i] # Clear
      BY <1>2, <2>4 DEF InChan
    <2>6. ~missed' => \A b \in panel' : b.turn = turn'
      BY <1>1, <1>12, <2>5 DEF ClearOK
    <2>7. ClearOK'
      BY <1>8, <2>5, <2>6 DEF ClearOK
    <2>8. Parts'
      BY <1>1, <1>9, <2>2, <2>3 DEF Parts
    <2> QED BY <1>5, <1>6, <2>7, <2>8
  <1> QED BY <1>10, <1>11, <1>12
-----------------------------------------------------------------------------
(* The theorems *)

LEMMA IInvStep == IInv /\ [Next]_vars => IInv'
  <1> SUFFICES ASSUME IInv, [Next]_vars PROVE IInv'
    OBVIOUS
  <1>1. CASE \E s \in Sessions : Follow(s)
    BY <1>1, FollowKeepsIInv
  <1>2. CASE Connect \/ \E s \in Sessions : Click(s) \/ Emit(s)
    BY <1>2, MovesKeepIInv
  <1>3. CASE Render
    BY <1>3, RenderKeepsIInv
  <1>4. CASE Drop
    BY <1>4, DropKeepsIInv
  <1>5. CASE Receive
    BY <1>5, ReceiveKeepsIInv
  <1>6. CASE Swap
    BY <1>6, SwapKeepsIInv
  <1>7. CASE UNCHANGED vars
    <2>1. /\ UNCHANGED <<storeVars, log, selected, followed, turn, sent, open, chan, panel>>
          /\ UNCHANGED <<drops, click, clicks, missed, lost>>
      BY <1>7 DEF vars, followVars, viewVars, ghosts
    <2>2. TypeOK' /\ LogOK'
      BY <2>1 DEF IInv, TypeOK, LogOK
    <2> QED BY <2>1, <2>2, MoveKeepsIInv
  <1> QED BY <1>1, <1>2, <1>3, <1>4, <1>5, <1>6, <1>7 DEF Next

LEMMA InductiveInvariant == Spec => []IInv
  <1> QED BY IInvInit, IInvStep, PTL DEF Spec

(* The types of the state, with an SSE channel that never holds more than  *)
(* its capacity, as Broadcast in internal/bridge/hub.go leaves it.         *)
THEOREM TypeCorrect == Spec => []TypeOK
  <1>1. IInv => TypeOK
    BY DEF IInv
  <1> QED BY <1>1, InductiveInvariant, PTL

(* In the whole application too the store of the previews keeps the        *)
(* artifacts that were put last, at most maxArtifacts of them: what put in *)
(* internal/preview/preview.go does for each artifact that is rendered.    *)
THEOREM StoreStaysSound == Spec => []StoreOK
  <1>1. IInv => StoreOK
    BY DEF IInv
  <1> QED BY <1>1, InductiveInvariant, PTL

(* The frame of a preview that the panel shows loads what the session      *)
(* wrote, unless maxArtifacts newer artifacts were put: what previewURL in *)
(* internal/timeline/timeline.go and the store do together.                *)
THEOREM PreviewsLoad == Spec => []ShownPreviewLoads
  <1>1. IInv => ShownPreviewLoads
    <2> SUFFICES ASSUME IInv, NEW b \in BlocksIn(panel), b.view = "frame", puts - b.id < MaxArtifacts
                 PROVE  Get(b.id) /\ items[b.id] = log[followed][b.n].content
      BY DEF ShownPreviewLoads
    <2>1. b \in BlocksIn(panel \cup InChan)
      BY DEF BlocksIn
    <2>2. /\ b.id \in 1..puts /\ StoreOK
          /\ items[b.id] = log[followed][b.n].content
      BY <2>1 DEF IInv, PreviewsOK
    <2> QED BY <2>2, InStore DEF Get
  <1> QED BY <1>1, InductiveInvariant, PTL

(* How many there are in three parts of 1..n that have nothing in common.  *)
LEMMA ThreeParts ==
  ASSUME NEW n \in Nat, NEW A, NEW B, NEW C, A \cup B \cup C = 1..n,
         A \cap B = {}, A \cap C = {}, B \cap C = {}
  PROVE  /\ IsFiniteSet(A) /\ IsFiniteSet(B) /\ IsFiniteSet(C)
         /\ Cardinality(A) + Cardinality(B) + Cardinality(C) = n
  <1>1. IsFiniteSet(1..n) /\ Cardinality(1..n) = n
    BY FS_Interval
  <1>2. IsFiniteSet(A) /\ IsFiniteSet(B) /\ IsFiniteSet(C)
    BY <1>1, FS_Subset
  <1>3. /\ Cardinality(A) \in Nat /\ Cardinality(B) \in Nat /\ Cardinality(C) \in Nat
    BY <1>2, FS_CardinalityType
  <1>4. /\ IsFiniteSet(A \cup B)
        /\ Cardinality(A \cup B) = Cardinality(A) + Cardinality(B) - Cardinality({})
    BY <1>2, FS_Union
  <1>5. (A \cup B) \cap C = {}
    OBVIOUS
  <1>6. Cardinality((A \cup B) \cup C) = Cardinality(A \cup B) + Cardinality(C) - Cardinality({})
    BY <1>2, <1>4, <1>5, FS_Union
  <1>7. Cardinality({}) = 0
    BY FS_EmptySet
  <1>8. Cardinality((A \cup B) \cup C) = n
    BY <1>1
  <1>9. Cardinality(A) + Cardinality(B) + Cardinality(C) = n
    <2> DEFINE a == Cardinality(A)
               b == Cardinality(B)
               c == Cardinality(C)
               ab == Cardinality(A \cup B)
    <2>1. a \in Nat /\ b \in Nat /\ c \in Nat /\ ab = a + b - 0 /\ n = ab + c - 0
      BY <1>3, <1>4, <1>6, <1>7, <1>8
    <2> HIDE DEF a, b, c, ab
    <2>2. a + b + c = n
      BY <2>1
    <2> QED BY <2>2 DEF a, b, c
  <1> QED BY <1>2, <1>9

(* No two elements of L begin alike, so there are as many beginnings. *)
LEMMA AsManyBeginnings ==
  ASSUME NEW L, \A l, m \in L : l[1] = m[1] => l = m, IsFiniteSet({l[1] : l \in L})
  PROVE  Cardinality(L) = Cardinality({l[1] : l \in L})
  <1> DEFINE T == {l[1] : l \in L}
             f == [l \in L |-> l[1]]
  <1>1. f \in [L -> T] /\ \A t \in T : \E l \in L : f[l] = t
    OBVIOUS
  <1>2. \A l, m \in L : f[l] = f[m] => l = m
    OBVIOUS
  <1> HIDE DEF f, T
  <1>3. f \in Injection(L, T) /\ f \in Surjection(L, T)
    BY <1>1, <1>2 DEF Injection, Surjection, IsInjective
  <1>4. Cardinality(L) = Cardinality(T)
    BY <1>3, FS_Injection DEF T
  <1> QED BY <1>4 DEF T

(* Every block that was rendered for the session that is followed is       *)
(* shown, on its way or lost in one of the known ways, and only one of     *)
(* these; and no block of an earlier session stays: Broadcast and          *)
(* cancel in internal/bridge/hub.go, setStream and the coalescer in        *)
(* internal/timeline, and handleSelect in internal/ui/server.go together.  *)
THEOREM NoBlockUnaccounted == Spec => []BlocksAccounted
  <1>1. IInv => BlocksAccounted
    <2> SUFFICES ASSUME IInv PROVE BlocksAccounted
      OBVIOUS
    <2>1. sent \in Nat
      BY Types DEF IInv
    <2>2. /\ Shown \cup Coming \cup Gone = 1..sent
          /\ Shown \cap Coming = {} /\ Shown \cap Gone = {} /\ Coming \cap Gone = {}
      BY DEF IInv, Parts
    <2>3. /\ IsFiniteSet(Gone)
          /\ Cardinality(Shown) + Cardinality(Coming) + Cardinality(Gone) = sent
      <3>1. IsFiniteSet(Gone)
        BY <2>1, <2>2, ThreeParts
      <3>2. Cardinality(Shown) + Cardinality(Coming) + Cardinality(Gone) = sent
        BY <2>1, <2>2, ThreeParts
      <3> QED BY <3>1, <3>2
    <2>4. Cardinality(lost) = Cardinality(Gone)
      <3>1. \A l, m \in lost : l[1] = m[1] => l = m
        BY DEF IInv, Parts
      <3> QED BY <2>3, <3>1, AsManyBeginnings DEF Gone
    <2>5. missed \/ Clear \in InChan \/ \A b \in panel : b.turn = turn
      BY DEF IInv, ClearOK
    <2>6. Cardinality(Shown) + Cardinality(Coming) + Cardinality(lost) = sent
      BY <2>3, <2>4
    <2> QED BY <2>2, <2>5, <2>6 DEF BlocksAccounted, Shown, Coming, Gone
  <1> QED BY <1>1, InductiveInvariant, PTL

(* Every step of the application is a put of the store, or leaves it.      *)
LEMMA StoreSteps == IInv /\ [Next]_vars => [StoreNext]_storeVars
  <1> SUFFICES ASSUME IInv, [Next]_vars PROVE StoreNext \/ UNCHANGED storeVars
    OBVIOUS
  <1>1. CASE Render
    <2> DEFINE a == log[followed][sent']
    <2>1. /\ followed # None /\ sent < Len(log[followed]) /\ sent' = sent + 1
          /\ IF a # Text /\ Previewable(a) THEN Put(a.content) ELSE UNCHANGED storeVars
      BY <1>1 DEF Render
    <2>2. a \in Payloads \cup {Text}
      <3>1. /\ log[followed] \in Seq(Payloads \cup {Text}) /\ Len(log[followed]) \in Nat
            /\ sent \in Nat
        BY <2>1, Types DEF IInv
      <3>2. sent' \in 1..Len(log[followed])
        BY <2>1, <3>1
      <3> QED BY <3>1, <3>2, ElementOfSeq
    <2> HIDE DEF a
    <2>3. a # Text => a \in Artifact
      BY <2>2, ViewAssumption
    <2>4. a # Text /\ Previewable(a) => a.content \in Contents
      BY <2>3 DEF Artifact, Previewable
    <2> QED BY <2>1, <2>4 DEF StoreNext
  <1>2. CASE \E s \in Sessions : Follow(s) \/ Click(s) \/ Emit(s)
    BY <1>2 DEF Follow, SetStream, Click, Emit
  <1>3. CASE Connect \/ Drop \/ Receive \/ Swap
    BY <1>3 DEF Connect, Drop, Receive, Swap
  <1>4. CASE UNCHANGED vars
    BY <1>4 DEF vars
  <1> QED BY <1>1, <1>2, <1>3, <1>4 DEF Next

(* The previews of the application behave as LastArtifacts says, whatever  *)
(* the sessions write and the user does: previewURL in                     *)
(* internal/timeline/timeline.go is the one caller of the store's put.     *)
THEOREM PreviewsImplement == Spec => StoreRefines
  <1>1. Init => Last!Init
    BY LastInit DEF Init
  <1>2. IInv /\ [Next]_vars => [Last!Next]_<<Kept, puts>>
    BY StoreSteps, LastStep DEF IInv
  <1> QED BY <1>1, <1>2, InductiveInvariant, PTL DEF Spec, StoreRefines, Last!Spec, Kept
=============================================================================
