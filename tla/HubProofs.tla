------------------------------ MODULE HubProofs ------------------------------
(***************************************************************************)
(* Theorems about Hub, for any set of connections and any capacity.        *)
(*                                                                         *)
(* Sync relates the mutex, the set of subscriptions and the handlers'      *)
(* program counters; it is inductive together with TypeOK and gives        *)
(* NoSendOnClosed.  Ordered says where in the order of publication the     *)
(* values that belong to a connection are; it gives HeadStart and the step *)
(* simulation of LossyFeed.                                                *)
(***************************************************************************)
EXTENDS Hub, SequenceTheorems, TLAPS

Sync ==
    /\ ~locked => visiting = {}
    /\ locked => published > 0
    /\ visiting \subseteq subs
    /\ \A c \in Clients : c \in subs <=> pc[c] \in {"select", "write", "return"}
    /\ \A c \in Clients : c \in closed <=> pc[c] = "ended"
    /\ \A c \in Clients : cur[c] # 0 <=> pc[c] = "write"
    /\ \A c \in Clients : torn[c] # 0 => pc[c] \in {"return", "ended"}
    /\ \A c \in Clients : pc[c] = "new" => missed[c] = {}

(* Of one connection: it joined at j, the last value written is w, the one *)
(* being written is k (0 if none), its channel holds s, and nothing of     *)
(* this is newer than b.  The i-th value in the channel is at least i      *)
(* after the join point.                                                   *)
InOrder(j, w, k, s, b) ==
    /\ j <= w /\ w <= b /\ k <= b
    /\ k # 0 => w < k
    /\ \A i \in 1..Len(s) :
          /\ w < s[i] /\ k < s[i] /\ s[i] <= b
          /\ j + i <= s[i]
          /\ \A h \in 1..Len(s) : h < i => s[h] < s[i]

InOrderUpTo(c, b) == InOrder(joined[c], LastWritten(c), cur[c], buf[c], b)

(* The value being broadcast is newer than all that its channel was given. *)
Ordered ==
    \A c \in Clients :
        /\ InOrderUpTo(c, published)
        /\ c \in visiting => InOrderUpTo(c, published - 1)
        /\ pc[c] = "new" => written[c] = <<>> /\ buf[c] = <<>>

-----------------------------------------------------------------------------
LEMMA TypeSyncInit == Init => TypeOK /\ Sync
  <1> SUFFICES ASSUME Init PROVE TypeOK /\ Sync
    OBVIOUS
  <1> USE DEF Init
  <1>1. TypeOK
    <2>1. <<>> \in Seq(1..MaxPublished) /\ Len(<<>>) <= Cap
      BY CapAssumption, EmptySeq
    <2>2. \A c \in Clients : Len(buf[c]) <= Cap
      BY <2>1
    <2>3. 0 \in 0..MaxPublished
      BY BoundAssumption
    <2> QED BY <2>1, <2>2, <2>3 DEF TypeOK, HandlerStates
  <1>2. Sync
    BY DEF Sync
  <1> QED BY <1>1, <1>2

LEMMA TypeSyncStep == TypeOK /\ Sync /\ [Next]_vars => (TypeOK /\ Sync)'
  <1> SUFFICES ASSUME TypeOK, Sync, [Next]_vars PROVE TypeOK' /\ Sync'
    OBVIOUS
  <1> USE CapAssumption, BoundAssumption DEF TypeOK, Sync, HandlerStates, hubVars, historyVars
  <1>1. CASE BroadcastLock
    BY <1>1 DEF BroadcastLock
  <1>2. CASE BroadcastUnlock
    BY <1>2 DEF BroadcastUnlock
  <1>3. ASSUME NEW c \in Clients, Send(c) PROVE TypeOK' /\ Sync'
    <2>1. published \in 1..MaxPublished
      BY <1>3 DEF Send
    <2>2. CASE Len(buf[c]) < Cap
      <3>1. Append(buf[c], published) \in Seq(1..MaxPublished)
        BY <2>1
      <3>2. Len(Append(buf[c], published)) <= Cap
        BY <2>1, <2>2
      <3>3. TypeOK'
        <4>1. /\ buf' \in [Clients -> Seq(1..MaxPublished)]
              /\ \A d \in Clients : Len(buf'[d]) <= Cap
          <5>1. buf' = [buf EXCEPT ![c] = Append(buf[c], published)]
            BY <1>3, <2>2 DEF Send, Accept
          <5>2. \A d \in Clients \ {c} : buf'[d] = buf[d]
            BY <5>1
          <5>3. buf'[c] = Append(buf[c], published)
            BY <5>1
          <5>4. buf' \in [Clients -> Seq(1..MaxPublished)]
            BY <3>1, <5>1
          <5> QED BY <3>2, <5>2, <5>3, <5>4
        <4>2. /\ UNCHANGED <<published, locked, subs, closed, missed, pc, cur, gone,
                             joined, written, torn>>
              /\ visiting' \subseteq Clients
          BY <1>3, <2>2 DEF Send, Accept
        <4> QED BY <4>1, <4>2
      <3>4. Sync'
        BY <1>3, <2>2 DEF Send, Accept
      <3> QED BY <3>3, <3>4
    <2>3. CASE ~(Len(buf[c]) < Cap)
      <3>1. missed[c] \cup {published} \in SUBSET (1..MaxPublished)
        BY <2>1
      <3>2. TypeOK'
        <4>1. missed' \in [Clients -> SUBSET (1..MaxPublished)]
          BY <1>3, <2>3, <3>1 DEF Send, Skip
        <4>2. /\ UNCHANGED <<published, locked, subs, closed, buf, pc, cur, gone,
                             joined, written, torn>>
              /\ visiting' \subseteq Clients
          BY <1>3, <2>3 DEF Send, Skip
        <4> QED BY <4>1, <4>2
      <3>3. Sync'
        <4>1. /\ UNCHANGED <<published, locked, subs, closed, pc, cur, torn>>
              /\ visiting' \subseteq visiting /\ c \in visiting
              /\ \A d \in Clients \ {c} : missed'[d] = missed[d]
          BY <1>3, <2>3 DEF Send, Skip
        <4>2. pc[c] # "new"
          BY <4>1
        <4> QED BY <4>1, <4>2
      <3> QED BY <3>2, <3>3
    <2> QED BY <2>2, <2>3
  <1>4. ASSUME NEW c \in Clients, Subscribe(c) PROVE TypeOK' /\ Sync'
    BY <1>4 DEF Subscribe
  <1>5. ASSUME NEW c \in Clients, Receive(c) PROVE TypeOK' /\ Sync'
    <2>1. /\ Head(buf[c]) \in 1..MaxPublished
          /\ Tail(buf[c]) \in Seq(1..MaxPublished)
          /\ Len(Tail(buf[c])) <= Cap
      BY <1>5, HeadTailProperties DEF Receive
    <2>2. TypeOK'
      <3>1. /\ buf' \in [Clients -> Seq(1..MaxPublished)]
            /\ \A d \in Clients : Len(buf'[d]) <= Cap
        BY <1>5, <2>1 DEF Receive
      <3>2. /\ cur' \in [Clients -> 0..MaxPublished]
            /\ pc' \in [Clients -> HandlerStates]
        BY <1>5, <2>1 DEF Receive
      <3>3. UNCHANGED <<hubVars, subs, closed, gone, historyVars>>
        BY <1>5 DEF Receive
      <3> QED BY <3>1, <3>2, <3>3
    <2>3. Sync'
      <3>1. cur'[c] # 0 /\ pc'[c] = "write"
        BY <1>5, <2>1 DEF Receive
      <3>2. /\ UNCHANGED <<locked, published, visiting, subs, closed>>
            /\ UNCHANGED <<missed, torn>>
            /\ c \in subs /\ c \notin closed /\ torn[c] = 0
            /\ \A d \in Clients \ {c} : cur'[d] = cur[d] /\ pc'[d] = pc[d]
        BY <1>5 DEF Receive
      <3> QED BY <3>1, <3>2
    <2> QED BY <2>2, <2>3
  <1>6. ASSUME NEW c \in Clients, Write(c) PROVE TypeOK' /\ Sync'
    <2>1. Append(written[c], cur[c]) \in Seq(1..MaxPublished)
      BY <1>6 DEF Write
    <2> QED BY <1>6, <2>1 DEF Write
  <1>7. ASSUME NEW c \in Clients, WriteFails(c) PROVE TypeOK' /\ Sync'
    BY <1>7 DEF WriteFails
  <1>8. ASSUME NEW c \in Clients, Return(c) PROVE TypeOK' /\ Sync'
    BY <1>8 DEF Return
  <1>9. ASSUME NEW c \in Clients, Cancel(c) PROVE TypeOK' /\ Sync'
    BY <1>9 DEF Cancel
  <1>10. ASSUME NEW c \in Clients, Disconnect(c) PROVE TypeOK' /\ Sync'
    BY <1>10 DEF Disconnect
  <1>11. CASE UNCHANGED vars
    BY <1>11 DEF vars
  <1> QED
    BY <1>1, <1>2, <1>3, <1>4, <1>5, <1>6, <1>7, <1>8, <1>9, <1>10, <1>11
    DEF Next, Producer, Handler

LEMMA TypeSync == Spec => [](TypeOK /\ Sync)
  BY TypeSyncInit, TypeSyncStep, PTL DEF Spec

(* Every variable keeps its type; a channel never holds more than Cap      *)
(* values.                                                                 *)
THEOREM TypeCorrect == Spec => []TypeOK
  BY TypeSync, PTL

(* Broadcast never sends on a channel that cancel has closed.              *)
THEOREM SendsAreSafe == Spec => []NoSendOnClosed
  <1>1. TypeOK /\ Sync => NoSendOnClosed
    BY DEF TypeOK, Sync, NoSendOnClosed
  <1> QED BY <1>1, TypeSync, PTL

-----------------------------------------------------------------------------
(* How the steps of the hub and of a handler keep a connection in order. *)

LEMMA InOrderLater ==
  ASSUME NEW j \in Nat, NEW w \in Nat, NEW k \in Nat, NEW s \in Seq(Nat),
         NEW b \in Int, NEW n \in Int, b <= n, InOrder(j, w, k, s, b)
  PROVE  InOrder(j, w, k, s, n)
  BY DEF InOrder

LEMMA InOrderAppend ==
  ASSUME NEW j \in Nat, NEW w \in Nat, NEW k \in Nat, NEW s \in Seq(Nat),
         NEW n \in Nat, InOrder(j, w, k, s, n - 1)
  PROVE  InOrder(j, w, k, Append(s, n), n)
  <1> DEFINE t == Append(s, n)
  <1>1. /\ t \in Seq(Nat) /\ Len(t) = Len(s) + 1 /\ Len(s) \in Nat
        /\ \A i \in 1..Len(s) : t[i] = s[i] /\ s[i] \in Nat
        /\ t[Len(s) + 1] = n
    BY AppendProperties, LenProperties, ElementOfSeq
  <1>2. j + Len(s) + 1 <= n
    <2>1. CASE Len(s) = 0
      BY <2>1 DEF InOrder
    <2>2. CASE Len(s) # 0
      <3>1. j + Len(s) <= s[Len(s)] /\ s[Len(s)] <= n - 1
        BY <1>1, <2>2 DEF InOrder
      <3> QED BY <1>1, <2>2, <3>1
    <2> QED BY <2>1, <2>2
  <1>3. ASSUME NEW i \in 1..Len(t)
        PROVE  /\ w < t[i] /\ k < t[i] /\ t[i] <= n /\ j + i <= t[i]
               /\ \A h \in 1..Len(t) : h < i => t[h] < t[i]
    <2>1. CASE i \in 1..Len(s)
      BY <1>1, <2>1 DEF InOrder
    <2>2. CASE i = Len(s) + 1
      BY <1>1, <1>2, <2>2 DEF InOrder
    <2> QED BY <1>1, <2>1, <2>2
  <1> HIDE DEF t
  <1>4. InOrder(j, w, k, t, n)
    BY <1>3 DEF InOrder
  <1> QED BY <1>4 DEF t

LEMMA InOrderHead ==
  ASSUME NEW j \in Nat, NEW w \in Nat, NEW s \in Seq(Nat), s # <<>>,
         NEW b \in Int, InOrder(j, w, 0, s, b)
  PROVE  InOrder(j, w, Head(s), Tail(s), b)
  <1> DEFINE t == Tail(s)
  <1>1. /\ t \in Seq(Nat) /\ Len(t) = Len(s) - 1 /\ Len(s) \in Nat \ {0}
        /\ \A i \in 1..Len(t) : t[i] = s[i + 1]
        /\ \A i \in 1..Len(s) : s[i] \in Nat
        /\ Head(s) = s[1]
    BY HeadTailProperties, EmptySeq, ElementOfSeq
  <1>2. ASSUME NEW i \in 1..Len(t)
        PROVE  /\ w < t[i] /\ Head(s) < t[i] /\ t[i] <= b /\ j + i <= t[i]
               /\ \A h \in 1..Len(t) : h < i => t[h] < t[i]
    BY <1>1 DEF InOrder
  <1> HIDE DEF t
  <1>3. InOrder(j, w, Head(s), t, b)
    BY <1>1, <1>2 DEF InOrder
  <1> QED BY <1>3 DEF t

LEMMA InOrderWritten ==
  ASSUME NEW j \in Nat, NEW w \in Nat, NEW k \in Nat, NEW s \in Seq(Nat),
         NEW b \in Int, InOrder(j, w, k, s, b)
  PROVE  /\ InOrder(j, w, 0, s, b)
         /\ k # 0 => InOrder(j, k, 0, s, b)
  <1>1. \A i \in 1..Len(s) : s[i] \in Nat
    BY ElementOfSeq
  <1> QED BY <1>1 DEF InOrder

-----------------------------------------------------------------------------
LEMMA ClientTypes ==
  ASSUME TypeOK, NEW c \in Clients
  PROVE  /\ published \in Nat /\ joined[c] \in Nat /\ cur[c] \in Nat
         /\ buf[c] \in Seq(Nat) /\ written[c] \in Seq(Nat)
         /\ LastWritten(c) \in Nat
  <1>1. /\ published \in Nat /\ joined[c] \in Nat /\ cur[c] \in Nat
    BY BoundAssumption DEF TypeOK
  <1>2. \A s \in Seq(1..MaxPublished) : s \in Seq(Nat)
    BY BoundAssumption
  <1>3. buf[c] \in Seq(Nat) /\ written[c] \in Seq(Nat)
    BY <1>2 DEF TypeOK
  <1>4. LastWritten(c) \in Nat
    BY <1>1, <1>3, EmptySeq, ElementOfSeq DEF LastWritten
  <1> QED BY <1>1, <1>3, <1>4

LEMMA OrderedInit == Init => Ordered
  <1>1. InOrder(0, 0, 0, <<>>, 0)
    BY DEF InOrder
  <1> QED BY <1>1 DEF Init, Ordered, InOrderUpTo, LastWritten

(* What a step leaves alone stays in order. *)
LEMMA OrderedFrame ==
  ASSUME TypeOK, Ordered, NEW c \in Clients, published' = published,
         (c \in visiting') => (c \in visiting),
         joined'[c] = joined[c], written'[c] = written[c],
         cur'[c] = cur[c], buf'[c] = buf[c],
         pc'[c] = "new" => pc[c] = "new"
  PROVE  /\ InOrderUpTo(c, published)'
         /\ (c \in visiting => InOrderUpTo(c, published - 1))'
         /\ (pc[c] = "new" => written[c] = <<>> /\ buf[c] = <<>>)'
  BY DEF Ordered, InOrderUpTo, LastWritten

LEMMA OrderedStep == TypeOK /\ Sync /\ Ordered /\ [Next]_vars => Ordered'
  <1> SUFFICES ASSUME TypeOK, Sync, Ordered, [Next]_vars, NEW d \in Clients
               PROVE  /\ InOrderUpTo(d, published)'
                      /\ (d \in visiting => InOrderUpTo(d, published - 1))'
                      /\ (pc[d] = "new" => written[d] = <<>> /\ buf[d] = <<>>)'
    BY DEF Ordered
  <1> DEFINE G == /\ InOrderUpTo(d, published)'
                  /\ (d \in visiting => InOrderUpTo(d, published - 1))'
                  /\ (pc[d] = "new" => written[d] = <<>> /\ buf[d] = <<>>)'
  <1> USE DEF hubVars, historyVars
  <1>t. /\ published \in Nat /\ joined[d] \in Nat /\ cur[d] \in Nat
        /\ buf[d] \in Seq(Nat) /\ written[d] \in Seq(Nat)
        /\ LastWritten(d) \in Nat
    BY ClientTypes
  <1>o. /\ InOrder(joined[d], LastWritten(d), cur[d], buf[d], published)
        /\ d \in visiting =>
              InOrder(joined[d], LastWritten(d), cur[d], buf[d], published - 1)
        /\ pc[d] = "new" => written[d] = <<>> /\ buf[d] = <<>>
    BY DEF Ordered, InOrderUpTo
  <1>1. CASE BroadcastLock
    <2>1. InOrder(joined[d], LastWritten(d), cur[d], buf[d], published + 1)
      <3>1. published \in Int /\ published + 1 \in Int /\ published <= published + 1
        BY <1>t
      <3> HIDE DEF G
      <3> QED BY ONLY <1>t, <1>o, <3>1, InOrderLater
    <2>2. published' = published + 1 /\ published' - 1 = published
      BY <1>1, <1>t DEF BroadcastLock
    <2> QED BY <1>1, <1>o, <2>1, <2>2 DEF BroadcastLock, InOrderUpTo, LastWritten
  <1>2. CASE BroadcastUnlock
    BY <1>2, OrderedFrame DEF BroadcastUnlock
  <1>3. ASSUME NEW c \in Clients, Send(c) PROVE G
    <2>1. CASE d # c
      <3>1. /\ published' = published /\ (d \in visiting' => d \in visiting)
            /\ joined'[d] = joined[d] /\ written'[d] = written[d]
            /\ cur'[d] = cur[d] /\ buf'[d] = buf[d] /\ pc'[d] = pc[d]
        BY <1>3, <2>1 DEF Send, Accept, Skip, TypeOK
      <3> QED BY <3>1, OrderedFrame
    <2>2. CASE d = c
      <3>1. /\ d \in visiting /\ d \notin visiting' /\ published' = published
            /\ joined' = joined /\ written' = written /\ cur' = cur /\ pc' = pc
            /\ buf'[d] = Append(buf[d], published) \/ buf'[d] = buf[d]
        BY <1>3, <2>2 DEF Send, Accept, Skip, TypeOK
      <3>2. InOrder(joined[d], LastWritten(d), cur[d], Append(buf[d], published), published)
        BY <1>t, <1>o, <3>1, InOrderAppend
      <3>3. InOrderUpTo(d, published)'
        BY <1>o, <3>1, <3>2 DEF InOrderUpTo, LastWritten
      <3>4. pc[d] # "new"
        BY <3>1 DEF Sync
      <3> QED BY <3>1, <3>3, <3>4
    <2> QED BY <2>1, <2>2
  <1>4. ASSUME NEW c \in Clients, Handler(c) PROVE G
    <2>1. CASE d # c
      <3>1. /\ published' = published /\ visiting' = visiting
            /\ joined'[d] = joined[d] /\ written'[d] = written[d]
            /\ cur'[d] = cur[d] /\ buf'[d] = buf[d] /\ pc'[d] = pc[d]
        BY <1>4, <2>1
        DEF Handler, Subscribe, Receive, Write, WriteFails, Return, Cancel, TypeOK
      <3> QED BY <3>1, OrderedFrame
    <2>2. CASE d = c /\ Subscribe(c)
      <3>1. /\ pc[d] = "new" /\ d \notin visiting' /\ published' = published
            /\ joined'[d] = published /\ written' = written
            /\ cur' = cur /\ buf' = buf /\ pc'[d] # "new"
        BY <2>2 DEF Subscribe, Sync, TypeOK
      <3>2. cur[d] = 0 /\ written[d] = <<>> /\ buf[d] = <<>>
        BY <1>o, <3>1 DEF Sync
      <3>3. InOrder(published, published, 0, <<>>, published)
        BY <1>t DEF InOrder
      <3> QED BY <3>1, <3>2, <3>3 DEF InOrderUpTo, LastWritten
    <2>3. CASE d = c /\ Receive(c)
      <3>1. /\ pc[d] = "select" /\ visiting' = visiting /\ published' = published
            /\ joined' = joined /\ written' = written
            /\ cur'[d] = Head(buf[d]) /\ buf'[d] = Tail(buf[d])
            /\ buf[d] # <<>> /\ pc'[d] # "new"
        BY <2>3 DEF Receive, TypeOK
      <3>2. cur[d] = 0
        BY <3>1 DEF Sync
      <3>3. \A b \in Int : InOrder(joined[d], LastWritten(d), 0, buf[d], b) =>
                InOrder(joined[d], LastWritten(d), Head(buf[d]), Tail(buf[d]), b)
        BY <1>t, <3>1, InOrderHead
      <3> QED BY <1>t, <1>o, <3>1, <3>2, <3>3 DEF InOrderUpTo, LastWritten
    <2>4. CASE d = c /\ Write(c)
      <3>1. /\ pc[d] = "write" /\ visiting' = visiting /\ published' = published
            /\ joined' = joined /\ written'[d] = Append(written[d], cur[d])
            /\ cur'[d] = 0 /\ buf' = buf /\ pc'[d] # "new"
        BY <2>4 DEF Write, TypeOK
      <3>2. LastWritten(d)' = cur[d] /\ cur[d] # 0
        BY <1>t, <3>1, AppendProperties DEF LastWritten, Sync
      <3>3. \A b \in Int : InOrder(joined[d], LastWritten(d), cur[d], buf[d], b) =>
                InOrder(joined[d], cur[d], 0, buf[d], b)
        BY <1>t, <3>2, InOrderWritten
      <3> QED BY <1>t, <1>o, <3>1, <3>2, <3>3 DEF InOrderUpTo
    <2>5. CASE d = c /\ WriteFails(c)
      <3>1. /\ visiting' = visiting /\ published' = published
            /\ joined' = joined /\ written' = written
            /\ cur'[d] = 0 /\ buf' = buf /\ pc'[d] # "new"
        BY <2>5 DEF WriteFails, TypeOK
      <3>2. \A b \in Int : InOrder(joined[d], LastWritten(d), cur[d], buf[d], b) =>
                InOrder(joined[d], LastWritten(d), 0, buf[d], b)
        BY <1>t, InOrderWritten
      <3> QED BY <1>t, <1>o, <3>1, <3>2 DEF InOrderUpTo, LastWritten
    <2>6. CASE d = c /\ (Return(c) \/ Cancel(c))
      <3>1. /\ published' = published /\ visiting' = visiting
            /\ joined' = joined /\ written' = written
            /\ cur' = cur /\ buf' = buf /\ pc'[d] # "new"
        BY <2>6 DEF Return, Cancel, TypeOK
      <3> QED BY <3>1, OrderedFrame
    <2> QED BY <1>4, <2>1, <2>2, <2>3, <2>4, <2>5, <2>6 DEF Handler
  <1>5. ASSUME NEW c \in Clients, Disconnect(c) PROVE G
    BY <1>5, OrderedFrame DEF Disconnect
  <1>6. CASE UNCHANGED vars
    BY <1>6, OrderedFrame DEF vars
  <1> QED BY <1>1, <1>2, <1>3, <1>4, <1>5, <1>6 DEF Next, Producer

LEMMA InOrderAlways == Spec => [](TypeOK /\ Sync /\ Ordered)
  BY TypeSyncInit, TypeSyncStep, OrderedInit, OrderedStep, PTL DEF Spec

-----------------------------------------------------------------------------
LEMMA HeadStartStep ==
  TypeOK /\ Sync /\ Ordered /\ HeadStart /\ [Next]_vars => HeadStart'
  <1> SUFFICES ASSUME TypeOK, Sync, Ordered, HeadStart, [Next]_vars,
                      NEW d \in Clients, NEW v \in missed'[d]
               PROVE  v > joined'[d] + Cap
    BY DEF HeadStart
  <1> USE DEF historyVars, hubVars
  <1>1. CASE v \in missed[d] /\ joined'[d] = joined[d]
    BY <1>1 DEF HeadStart
  <1>2. ASSUME NEW c \in Clients, Send(c) PROVE v > joined'[d] + Cap
    <2>1. joined' = joined
      BY <1>2 DEF Send
    <2>2. CASE v \notin missed[d]
      <3>0. missed' # missed
        BY <2>2
      <3>1. /\ c = d /\ v = published /\ d \in visiting /\ ~(Len(buf[d]) < Cap)
        <4>1. ~(Len(buf[c]) < Cap) /\ c \in visiting
          BY <1>2, <3>0 DEF Send, Accept
        <4>2. missed' = [missed EXCEPT ![c] = @ \cup {published}]
          BY <1>2, <4>1 DEF Send, Skip
        <4> QED BY <2>2, <4>1, <4>2 DEF TypeOK
      <3>2. /\ buf[d] \in Seq(Nat) /\ joined[d] \in Nat /\ published \in Nat
        BY ClientTypes
      <3>3. Len(buf[d]) = Cap /\ Cap \in 1..Len(buf[d])
        BY <3>1, <3>2, CapAssumption, LenProperties DEF TypeOK
      <3>4. /\ joined[d] + Cap <= buf[d][Cap] /\ buf[d][Cap] <= published - 1
            /\ buf[d][Cap] \in Nat
        BY <3>1, <3>2, <3>3, ElementOfSeq DEF Ordered, InOrderUpTo, InOrder
      <3> QED BY <2>1, <3>1, <3>2, <3>3, <3>4, CapAssumption
    <2> QED BY <1>1, <2>1, <2>2
  <1>3. ASSUME NEW c \in Clients, Subscribe(c) PROVE v > joined'[d] + Cap
    <2>1. CASE c = d
      BY <1>3, <2>1 DEF Subscribe, Sync
    <2>2. CASE c # d
      BY <1>1, <1>3, <2>2 DEF Subscribe, TypeOK
    <2> QED BY <2>1, <2>2
  <1>4. ASSUME joined' = joined, missed' = missed PROVE v > joined'[d] + Cap
    BY <1>1, <1>4
  <1> QED
    BY <1>2, <1>3, <1>4
    DEF Next, Producer, Handler, BroadcastLock, BroadcastUnlock, Receive, Write,
        WriteFails, Return, Cancel, Disconnect, vars

(* However slow a browser is, none of the first Cap values broadcast after *)
(* it connected is skipped.                                                *)
THEOREM HeadStartHolds == Spec => []HeadStart
  <1>1. Init => HeadStart
    BY DEF Init, HeadStart
  <1> QED BY <1>1, HeadStartStep, InOrderAlways, PTL DEF Spec

-----------------------------------------------------------------------------
LEMMA ValuesAppend ==
  ASSUME NEW s \in Seq(Nat), NEW v \in Nat
  PROVE  Values(Append(s, v)) = Values(s) \cup {v}
  BY AppendProperties, LenProperties DEF Values

LEMMA ValuesHead ==
  ASSUME NEW s \in Seq(Nat), s # <<>>
  PROVE  Values(s) = {Head(s)} \cup Values(Tail(s))
  <1>1. /\ Tail(s) \in Seq(Nat) /\ Len(s) \in Nat \ {0}
        /\ Len(Tail(s)) = Len(s) - 1 /\ Head(s) = s[1]
        /\ \A i \in 1..Len(Tail(s)) : Tail(s)[i] = s[i + 1]
    BY HeadTailProperties, EmptySeq
  <1>2. DOMAIN s = 1..Len(s) /\ DOMAIN Tail(s) = 1..Len(Tail(s))
    BY <1>1, LenProperties
  <1>3. ASSUME NEW i \in 1..Len(s) PROVE s[i] \in {Head(s)} \cup Values(Tail(s))
    <2>1. CASE i = 1
      BY <1>1, <2>1
    <2>2. CASE i # 1
      <3>1. i - 1 \in 1..Len(Tail(s)) /\ Tail(s)[i - 1] = s[i]
        BY <1>1, <2>2
      <3> QED BY <1>2, <3>1 DEF Values
    <2> QED BY <2>1, <2>2
  <1>4. ASSUME NEW i \in 1..Len(Tail(s)) PROVE Tail(s)[i] \in Values(s)
    BY <1>1, <1>2 DEF Values
  <1>5. Head(s) \in Values(s)
    BY <1>1, <1>2 DEF Values
  <1> QED BY <1>2, <1>3, <1>4, <1>5 DEF Values

(* Where the values owed to c are. *)
Accounted(c) ==
    Values(written[c]) \cup Values(buf[c]) \cup missed[c]
    \cup ({cur[c], torn[c]} \ {0})
    \cup (IF c \in visiting THEN {published} ELSE {})

LEMMA ConservationStep ==
  TypeOK /\ Sync /\ Ordered /\ Conservation /\ [Next]_vars => Conservation'
  <1> SUFFICES ASSUME TypeOK, Sync, Ordered, Conservation, [Next]_vars,
                      NEW d \in Clients, d \in subs'
               PROVE  Owed(d)' = Accounted(d)'
    <2>1. TypeOK /\ Sync /\ Ordered /\ Conservation /\ [Next]_vars => subs' \subseteq Clients
      BY TypeSyncStep DEF TypeOK
    <2> QED BY <2>1 DEF Conservation, Accounted
  <1> USE DEF hubVars, historyVars
  <1>t. /\ published \in Nat /\ joined[d] \in Nat /\ cur[d] \in Nat
        /\ buf[d] \in Seq(Nat) /\ written[d] \in Seq(Nat)
    BY ClientTypes
  <1>c. d \in subs => Owed(d) = Accounted(d)
    BY DEF Conservation, Accounted
  <1>f. ASSUME d \in subs, published' = published, joined'[d] = joined[d],
               written'[d] = written[d], buf'[d] = buf[d], missed'[d] = missed[d],
               cur'[d] = cur[d], torn'[d] = torn[d],
               d \in visiting' <=> d \in visiting
        PROVE  Owed(d)' = Accounted(d)'
    BY <1>c, <1>f DEF Owed, Accounted
  <1>1. CASE BroadcastLock
    <2>1. /\ d \in subs /\ d \notin visiting /\ d \in visiting'
          /\ published' = published + 1
      BY <1>1 DEF BroadcastLock, Sync
    <2>2. joined[d] <= published
      <3>1. joined[d] <= LastWritten(d) /\ LastWritten(d) <= published
        BY DEF Ordered, InOrderUpTo, InOrder
      <3>2. LastWritten(d) \in Nat
        BY <1>t DEF LastWritten
      <3> QED BY <1>t, <3>1, <3>2
    <2>3. Owed(d)' = Owed(d) \cup {published + 1}
      <3>1. joined'[d] = joined[d]
        BY <1>1 DEF BroadcastLock
      <3>2. Owed(d)' = joined[d] + 1..published + 1
        BY <2>1, <3>1 DEF Owed
      <3>3. joined[d] + 1..published + 1 = (joined[d] + 1..published) \cup {published + 1}
        BY <1>t, <2>2
      <3> QED BY <3>2, <3>3 DEF Owed
    <2> QED BY <1>1, <1>c, <2>1, <2>3 DEF BroadcastLock, Accounted
  <1>2. CASE BroadcastUnlock
    BY <1>2, <1>f DEF BroadcastUnlock
  <1>3. ASSUME NEW c \in Clients, Send(c) PROVE Owed(d)' = Accounted(d)'
    <2>1. CASE c # d
      BY <1>3, <1>f, <2>1 DEF Send, Accept, Skip, TypeOK
    <2>2. CASE c = d
      <3>1. /\ d \in subs /\ d \in visiting /\ d \notin visiting'
            /\ UNCHANGED <<published, joined, written, cur, torn>>
            /\ \/ Values(buf[d])' = Values(buf[d]) \cup {published} /\ missed' = missed
               \/ missed'[d] = missed[d] \cup {published} /\ buf' = buf
        BY <1>3, <1>t, <2>2, ValuesAppend DEF Send, Accept, Skip, TypeOK
      <3>2. Accounted(d)' = Accounted(d)
        BY <3>1 DEF Accounted
      <3>3. Owed(d)' = Owed(d)
        BY <3>1 DEF Owed
      <3> QED BY <1>c, <3>1, <3>2, <3>3
    <2> QED BY <2>1, <2>2
  <1>4. ASSUME NEW c \in Clients, Handler(c) PROVE Owed(d)' = Accounted(d)'
    <2>1. CASE c # d
      BY <1>4, <1>f, <2>1
      DEF Handler, Subscribe, Receive, Write, WriteFails, Return, Cancel, TypeOK
    <2>2. CASE c = d /\ Subscribe(c)
      <3>1. /\ pc[d] = "new" /\ joined'[d] = published /\ published' = published
            /\ d \notin visiting'
            /\ UNCHANGED <<written, buf, missed, cur, torn>>
        BY <2>2 DEF Subscribe, Sync, TypeOK
      <3>2. /\ written[d] = <<>> /\ buf[d] = <<>> /\ missed[d] = {}
            /\ cur[d] = 0 /\ torn[d] = 0
        BY <3>1 DEF Ordered, Sync
      <3>3. Owed(d)' = {}
        BY <1>t, <3>1 DEF Owed
      <3>4. Accounted(d)' = {}
        BY <3>1, <3>2 DEF Accounted, Values
      <3> QED BY <3>3, <3>4
    <2>3. CASE c = d /\ Receive(c)
      <3>1. /\ pc[d] = "select" /\ d \in subs
            /\ UNCHANGED <<published, joined, written, missed, torn, visiting>>
            /\ cur'[d] = Head(buf[d]) /\ buf'[d] = Tail(buf[d]) /\ buf[d] # <<>>
        BY <2>3 DEF Receive, Sync, TypeOK
      <3>2. cur[d] = 0 /\ cur'[d] # 0
        <4>1. Head(buf[d]) \in 1..MaxPublished
          BY <3>1, HeadTailProperties DEF TypeOK
        <4> QED BY <3>1, <4>1, BoundAssumption DEF Sync
      <3>3. Values(buf[d]) = {cur'[d]} \cup Values(buf[d])'
        BY <1>t, <3>1, ValuesHead
      <3>4. Accounted(d)' = Accounted(d)
        BY <3>1, <3>2, <3>3 DEF Accounted
      <3> QED BY <1>c, <3>1, <3>4 DEF Owed
    <2>4. CASE c = d /\ Write(c)
      <3>1. /\ d \in subs /\ cur[d] # 0 /\ torn[d] = 0 /\ cur'[d] = 0
            /\ UNCHANGED <<published, joined, buf, missed, torn, visiting>>
            /\ written'[d] = Append(written[d], cur[d])
        BY <2>4 DEF Write, Sync, TypeOK
      <3>2. Values(written[d])' = Values(written[d]) \cup {cur[d]}
        BY <1>t, <3>1, ValuesAppend
      <3>3. Accounted(d)' = Accounted(d)
        BY <3>1, <3>2 DEF Accounted
      <3> QED BY <1>c, <3>1, <3>3 DEF Owed
    <2>5. CASE c = d /\ WriteFails(c)
      <3>1. /\ d \in subs /\ cur[d] # 0 /\ torn[d] = 0
            /\ cur'[d] = 0 /\ torn'[d] = cur[d]
            /\ UNCHANGED <<published, joined, written, buf, missed, visiting>>
        BY <2>5 DEF WriteFails, Sync, TypeOK
      <3>2. Accounted(d)' = Accounted(d)
        BY <3>1 DEF Accounted
      <3> QED BY <1>c, <3>1, <3>2 DEF Owed
    <2>6. CASE c = d /\ (Return(c) \/ Cancel(c))
      BY <1>f, <2>6 DEF Return, Cancel
    <2> QED BY <1>4, <2>1, <2>2, <2>3, <2>4, <2>5, <2>6 DEF Handler
  <1>5. ASSUME NEW c \in Clients, Disconnect(c) PROVE Owed(d)' = Accounted(d)'
    BY <1>5, <1>f DEF Disconnect
  <1>6. CASE UNCHANGED vars
    BY <1>6, <1>f DEF vars
  <1> QED BY <1>1, <1>2, <1>3, <1>4, <1>5, <1>6 DEF Next, Producer

(* Nothing broadcast during a subscription disappears without a trace, and *)
(* nothing from before it shows up.                                        *)
THEOREM NothingVanishes == Spec => []Conservation
  <1>1. Init => Conservation
    BY DEF Init, Conservation
  <1> QED BY <1>1, ConservationStep, InOrderAlways, PTL DEF Spec

-----------------------------------------------------------------------------
(* The step simulation: each step of the hub is a step of the feed, or the *)
(* feed does not see it.                                                   *)

LEMMA FeedInit == Init => Feed!Init
  BY DEF Init, Feed!Init, LastWritten

LEMMA FeedStep == TypeOK /\ Sync /\ Ordered /\ [Next]_vars => [Feed!Next]_Feed!vars
  <1> SUFFICES ASSUME TypeOK, Sync, Ordered, [Next]_vars
               PROVE  [Feed!Next]_Feed!vars
    OBVIOUS
  <1> DEFINE R == {c \in Clients : pc[c] \in {"select", "write"}}
             L == [c \in Clients |-> LastWritten(c)]
  <1> USE DEF hubVars, historyVars
  <1>s. ASSUME published' = published, pc' = pc, joined' = joined, written' = written
        PROVE  UNCHANGED Feed!vars
    BY <1>s DEF Feed!vars, LastWritten
  <1>1. CASE BroadcastLock
    <2>1. /\ published < MaxPublished /\ published' = published + 1
          /\ R' = R /\ L' = L /\ written' = written
      BY <1>1 DEF BroadcastLock, LastWritten
    <2>2. Feed!Publish
      BY <2>1 DEF Feed!Publish
    <2> QED BY <2>2 DEF Feed!Next
  <1>2. CASE BroadcastUnlock \/ (\E c \in Clients : Send(c) \/ Disconnect(c)) \/ UNCHANGED vars
    BY <1>2, <1>s DEF BroadcastUnlock, Send, Disconnect, vars
  <1>3. ASSUME NEW c \in Clients, Subscribe(c) PROVE Feed!Join(c)
    <2>1. /\ pc[c] = "new" /\ pc' = [pc EXCEPT ![c] = "select"]
          /\ joined' = [joined EXCEPT ![c] = published]
          /\ published' = published /\ written' = written /\ written[c] = <<>>
      BY <1>3 DEF Subscribe, Ordered
    <2>2. c \notin R /\ R' = R \cup {c}
      BY <2>1 DEF TypeOK
    <2>3. L' = [L EXCEPT ![c] = published]
      BY <2>1 DEF TypeOK, LastWritten
    <2> QED BY <2>1, <2>2, <2>3 DEF Feed!Join
  <1>4. ASSUME NEW c \in Clients, Receive(c) PROVE UNCHANGED Feed!vars
    <2>1. /\ pc[c] = "select" /\ pc' = [pc EXCEPT ![c] = "write"]
          /\ UNCHANGED <<published, joined, written>>
      BY <1>4 DEF Receive
    <2>2. R' = R /\ L' = L
      BY <2>1 DEF TypeOK, LastWritten
    <2> QED BY <2>1, <2>2 DEF Feed!vars
  <1>5. ASSUME NEW c \in Clients, Write(c) PROVE Feed!Deliver(c)
    <2>1. /\ pc[c] = "write" /\ pc' = [pc EXCEPT ![c] = "select"]
          /\ written' = [written EXCEPT ![c] = Append(@, cur[c])]
          /\ UNCHANGED <<published, joined>>
      BY <1>5 DEF Write
    <2>2. c \in R /\ R' = R
      BY <2>1 DEF TypeOK
    <2>3. /\ written[c] \in Seq(Nat) /\ cur[c] \in Nat /\ LastWritten(c) \in Nat
          /\ published \in Nat
      BY ClientTypes
    <2>4. cur[c] \in (LastWritten(c) + 1)..published
      BY <2>1, <2>3 DEF Sync, Ordered, InOrderUpTo, InOrder
    <2>5. LastWritten(c)' = cur[c]
      BY <2>1, <2>3, AppendProperties DEF LastWritten, TypeOK
    <2>6. \A d \in Clients \ {c} : LastWritten(d)' = LastWritten(d)
      BY <2>1 DEF LastWritten, TypeOK
    <2>7. L' = [L EXCEPT ![c] = cur[c]]
      BY <2>5, <2>6
    <2> QED BY <2>1, <2>2, <2>4, <2>7 DEF Feed!Deliver
  <1>6. ASSUME NEW c \in Clients, WriteFails(c) \/ Return(c) PROVE Feed!Leave(c)
    <2>1. /\ pc[c] \in {"select", "write"} /\ pc' = [pc EXCEPT ![c] = "return"]
          /\ UNCHANGED <<published, joined, written>>
      BY <1>6 DEF WriteFails, Return
    <2>2. c \in R /\ R' = R \ {c} /\ L' = L
      BY <2>1 DEF TypeOK, LastWritten
    <2> QED BY <2>1, <2>2 DEF Feed!Leave
  <1>7. ASSUME NEW c \in Clients, Cancel(c) PROVE UNCHANGED Feed!vars
    <2>1. /\ pc[c] = "return" /\ pc' = [pc EXCEPT ![c] = "ended"]
          /\ UNCHANGED <<published, joined, written>>
      BY <1>7 DEF Cancel
    <2>2. R' = R /\ L' = L
      BY <2>1 DEF TypeOK, LastWritten
    <2> QED BY <2>1, <2>2 DEF Feed!vars
  <1> QED
    BY <1>1, <1>2, <1>3, <1>4, <1>5, <1>6, <1>7 DEF Next, Producer, Handler, Feed!Next

(* The hub with its handlers implements the lossy feed: a browser gets     *)
(* values broadcast after it connected, in order and at most once.         *)
THEOREM HubImplementsFeed == Spec => FeedSpec
  BY InOrderAlways, FeedInit, FeedStep, PTL DEF Spec, FeedSpec, Feed!Spec
=============================================================================
