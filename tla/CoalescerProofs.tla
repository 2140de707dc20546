--------------------------- MODULE CoalescerProofs ---------------------------
(***************************************************************************)
(* Theorems about Coalescer, for any ids and names of tool calls, any      *)
(* streams and any number of events and replays.                           *)
(*                                                                         *)
(* A replay goes through the stream once more with what was folded before. *)
(* So the invariant is about a prefix and the rest.  Tracks says what is   *)
(* true of a value that the latest event of some set decides: once one of  *)
(* them has come again it is that of the last that has; until then it is   *)
(* that of any of them, or what it was in the beginning.                   *)
(*                                                                         *)
(* FramesOK is about the cards: the last frames about a call say what its  *)
(* entry says, as long as nothing is replayed.  TextOK is about the text:  *)
(* every text that was broadcast is the beginning of a block, and it is a  *)
(* whole block but for one per replay, that which was in the buffer when   *)
(* it began (Rerun); otherwise the buffer has all that is open (Fresh).    *)
(* OrderOK is about all the frames: a frame that is still to come does not *)
(* go back behind the last one, or there was a replay that has not gone    *)
(* back yet.                                                               *)
(***************************************************************************)
EXTENDS Coalescer, SequenceTheorems, FiniteSetTheorems, TLAPS

(* The positions of the events of E on a stream. *)
Positions(s, E) == {n \in DOMAIN s : s[n] \in E}
At(E) == Positions(stream, E)

Tracks(M, k, x, init) ==
    /\ x \in M \cup {init}
    /\ \A m \in M : m < k => x \in M /\ x < k /\ m <= x

UsageEvents(p) == {e \in Events : e.type = "usage" /\ e.part = p}
CallEvents(id) == {e \in Events : e.type = "tool_call" /\ e.id = id}
UpdateEvents(id) == {e \in Events : e.type = "tool_call_update" /\ e.id = id}
StatusEvents(id) == {e \in UpdateEvents(id) : e.status # ""}
NameEvents(id) == {e \in UpdateEvents(id) : e.name # NoName}
InputEvents(id) == {e \in UpdateEvents(id) : e.input}

Called == {id \in ToolIDs : At(CallEvents(id)) # {}}

UsageOK == \A p \in UsageParts : Tracks(At(UsageEvents(p)), next, usage[p], 0)

(* A call is mentioned nowhere before it. *)
CallsFirst ==
    \A id \in ToolIDs : \A c \in At(CallEvents(id)) : \A n \in 1..c - 1 : ~Mentions(stream[n], id)

IndexOK ==
    /\ DOMAIN toolIdx = Called
    /\ IsFiniteSet(Called) /\ Len(tools) = Cardinality(Called)
    /\ \A id \in Called : toolIdx[id] \in 1..Len(tools) /\ tools[toolIdx[id]].id = id
    /\ \A k \in 1..Len(tools) : tools[k].id \in Called /\ toolIdx[tools[k].id] = k
    /\ \A id, jd \in Called : \A c \in At(CallEvents(id)), d \in At(CallEvents(jd)) :
          c < d => toolIdx[id] < toolIdx[jd]

(* What the entry r says of the call of id at c, when the events of s that *)
(* are before k have come.                                                 *)
EntryOK(r, id, c, s, k) ==
    /\ \E x : /\ Tracks(Positions(s, StatusEvents(id)), k, x, c)
              /\ r.status = IF x = c THEN "running" ELSE s[x].status
    /\ \E x : /\ Tracks(Positions(s, NameEvents(id)), k, x, c)
              /\ r.name = s[x].name
    /\ Tracks(Positions(s, InputEvents(id)), k, r.input, c)

EntriesOK == \A id \in Called : \A c \in At(CallEvents(id)) : EntryOK(tools[toolIdx[id]], id, c, stream, next)

FoldOK == UsageOK /\ CallsFirst /\ IndexOK /\ EntriesOK

IInv == TypeOK /\ FoldOK
-----------------------------------------------------------------------------
(* The stream *)

LEMMA MaxIs ==
  ASSUME NEW I \in SUBSET Nat, NEW u \in I, \A m \in I : m <= u
  PROVE  Max(I) = u
  <1>1. \A y \in I : u >= y
    OBVIOUS
  <1>2. \A x \in I : (\A y \in I : x >= y) => x = u
    OBVIOUS
  <1> QED BY <1>1, <1>2 DEF Max

(* What is decided by the latest event is right at the end of the stream.  *)
LEMMA TracksLast ==
  ASSUME NEW M \in SUBSET Nat, NEW k, NEW x, NEW init, Tracks(M, k, x, init),
         \A m \in M : m < k
  PROVE  x = IF M # {} THEN Max(M) ELSE init
  <1>1. CASE M = {}
    BY <1>1 DEF Tracks
  <1>2. CASE M # {}
    <2>1. x \in M /\ \A m \in M : m <= x
      BY <1>2 DEF Tracks
    <2> QED BY <1>2, <2>1, MaxIs
  <1> QED BY <1>1, <1>2

LEMMA TracksRestart ==
  ASSUME NEW M \in SUBSET (Nat \ {0}), NEW k, NEW x, NEW init, Tracks(M, k, x, init)
  PROVE  Tracks(M, 1, x, init)
  <1>1. \A m \in M : ~(m < 1)
    OBVIOUS
  <1> QED BY <1>1 DEF Tracks

LEMMA TracksNext ==
  ASSUME NEW M \in SUBSET Nat, NEW k \in Nat, NEW x, NEW init, Tracks(M, k, x, init)
  PROVE  /\ k \notin M => Tracks(M, k + 1, x, init)
         /\ Tracks(M \cup {k}, k + 1, k, init)
  <1>1. ASSUME k \notin M PROVE Tracks(M, k + 1, x, init)
    <2> SUFFICES ASSUME NEW m \in M, m < k + 1 PROVE x \in M /\ x < k + 1 /\ m <= x
      BY DEF Tracks
    <2>1. m < k
      BY <1>1
    <2>2. x \in M /\ x < k /\ m <= x
      BY <2>1 DEF Tracks
    <2> QED BY <2>2
  <1>2. Tracks(M \cup {k}, k + 1, k, init)
    BY DEF Tracks
  <1> QED BY <1>1, <1>2

(* What is next: an event that is new, or one that comes again. *)
IsNext(e) ==
    /\ OnPush(next, e) /\ next' = next + 1 /\ replays' = replays
    /\ stream' \in Seq(Events) /\ Len(stream') <= MaxEvents
    /\ next \in 1..Len(stream') /\ next \in 1..MaxEvents
    /\ stream'[next] = e
    /\ DOMAIN stream' = DOMAIN stream \cup {next} /\ DOMAIN stream = 1..Len(stream)
    /\ \A m \in DOMAIN stream : stream'[m] = stream[m]
    /\ \/ stream' = stream /\ next \in DOMAIN stream
       \/ next = Len(stream) + 1 /\ next \notin DOMAIN stream /\ MayFollow(stream, e)

LEMMA DeliverIsNext ==
  ASSUME TypeOK, Deliver
  PROVE  \E e \in Events : IsNext(e)
  <1>1. /\ stream \in Seq(Events) /\ Len(stream) \in Nat /\ Len(stream) <= MaxEvents
        /\ DOMAIN stream = 1..Len(stream) /\ next \in 1..Len(stream) + 1
    BY LenProperties DEF TypeOK
  <1>2. PICK e \in IF next <= Len(stream) THEN {stream[next]} ELSE Candidates :
           NextEvent(e) /\ OnPush(next, e)
    BY DEF Deliver
  <1>3. next' = next + 1 /\ replays' = replays
    BY DEF Deliver
  <1>4. CASE next <= Len(stream)
    <2>1. next \in DOMAIN stream /\ e = stream[next] /\ e \in Events
      BY <1>1, <1>2, <1>4, ElementOfSeq
    <2>2. stream' = stream
      BY <1>1, <1>2, <1>4 DEF NextEvent
    <2>3. next \in 1..MaxEvents
      BY <1>1, <2>1, CoalescerAssumption
    <2> QED BY <1>1, <1>2, <1>3, <2>1, <2>2, <2>3 DEF IsNext
  <1>5. CASE ~(next <= Len(stream))
    <2>1. e \in Events
      BY <1>2, <1>5 DEF Candidates
    <2>2. /\ next = Len(stream) + 1 /\ next <= MaxEvents /\ MayFollow(stream, e)
          /\ stream' = Append(stream, e)
      BY <1>2, <1>5 DEF NextEvent
    <2>3. /\ stream' \in Seq(Events) /\ Len(stream') = next /\ stream'[next] = e
          /\ \A m \in 1..Len(stream) : stream'[m] = stream[m]
      BY <1>1, <2>1, <2>2, AppendProperties
    <2>4. DOMAIN stream' = DOMAIN stream \cup {next} /\ next \notin DOMAIN stream
      <3>1. DOMAIN stream' = 1..next
        BY <2>3, LenProperties
      <3> QED BY <1>1, <2>2, <3>1
    <2>5. next \in 1..Len(stream') /\ next \in 1..MaxEvents /\ Len(stream') <= MaxEvents
      BY <1>1, <2>2, <2>3, CoalescerAssumption
    <2> QED BY <1>1, <1>2, <1>3, <2>1, <2>2, <2>3, <2>4, <2>5 DEF IsNext
  <1> QED BY <1>4, <1>5

(* The positions of a kind of event grow by that of the event. *)
LEMMA AtNext ==
  ASSUME NEW e \in Events, IsNext(e), NEW E
  PROVE  /\ e \in E => At(E)' = At(E) \cup {next}
         /\ e \notin E => At(E)' = At(E) /\ next \notin At(E)
         /\ At(E) \subseteq Nat \ {0}
  BY DEF IsNext, At, Positions

LEMMA TracksOnce ==
  ASSUME NEW e \in Events, IsNext(e), NEW E, NEW x, NEW c, Tracks(At(E), next, x, c)
  PROVE  /\ e \in E => Tracks(At(E)', next', next, c)
         /\ e \notin E => Tracks(At(E)', next', x, c)
  <1>1. next \in Nat /\ next' = next + 1 /\ At(E) \in SUBSET Nat
    BY AtNext DEF IsNext
  <1>2. (next \notin At(E) => Tracks(At(E), next', x, c)) /\ Tracks(At(E) \cup {next}, next', next, c)
    BY <1>1, TracksNext
  <1> QED BY <1>2, AtNext

-----------------------------------------------------------------------------
(* One event *)

LEMMA EventIsTyped ==
  ASSUME NEW e \in Events
  PROVE  /\ e.type = "usage" => e.part \in UsageParts
         /\ e.type = "tool_call" => e.id \in ToolIDs \cup {NoID} /\ e.name \in Names
         /\ e.type = "tool_call_update" =>
               /\ e.id \in ToolIDs /\ e.status \in {"", "completed"}
               /\ e.name \in Names \cup {NoName} /\ e.input \in BOOLEAN
  <1>1. e \in EventTypes
    BY DEF Events
  <1>2. CASE e \in [type : Chunks, text : BOOLEAN] \/ e \in [type : {"block", "other", "garbled"}]
    BY <1>2 DEF Chunks
  <1>3. CASE e \in [type : {"usage"}, part : UsageParts]
    BY <1>3
  <1>4. CASE e \in [type : {"tool_call"}, id : ToolIDs \cup {NoID}, name : Names]
    BY <1>4
  <1>5. CASE e \in [type : {"tool_call_update"}, id : ToolIDs, status : {"", "completed"},
                    name : Names \cup {NoName}, input : BOOLEAN]
    BY <1>5
  <1> QED BY <1>1, <1>2, <1>3, <1>4, <1>5 DEF EventTypes

(* What an event does to the jump index: nothing, if it is no news of a    *)
(* call that is known; another entry, for a call that was not mentioned    *)
(* before; or a change of the entry of its call.                           *)
IndexKept(e) ==
    /\ tools' = tools /\ toolIdx' = toolIdx
    /\ \A id \in ToolIDs : At(CallEvents(id))' = At(CallEvents(id))
    /\ \A id \in Called : e \notin UpdateEvents(id)
IndexGrows(e) ==
    /\ e.type = "tool_call" /\ e.id \in ToolIDs \ Called
    /\ toolIdx' = Indexed(e.id) /\ tools' = Append(tools, NewRef(next, e))
    /\ next = Len(stream) + 1 /\ \A n \in DOMAIN stream : ~Mentions(stream[n], e.id)
IndexChanges(e) ==
    /\ e.type = "tool_call_update" /\ e.id \in Called
    /\ tools' = [tools EXCEPT ![toolIdx[e.id]] = Updated(@, next, e)]
    /\ toolIdx' = toolIdx

LEMMA IndexNext ==
  ASSUME IInv, NEW e \in Events, IsNext(e)
  PROVE  IndexKept(e) \/ IndexGrows(e) \/ IndexChanges(e)
  <1> USE DEF IInv, FoldOK
  <1>1. DOMAIN toolIdx = Called
    BY DEF IndexOK
  <1>2. CASE e.type \notin {"tool_call", "tool_call_update"}
    <2>1. tools' = tools /\ toolIdx' = toolIdx
      BY <1>2 DEF IsNext, OnPush, Chunk, GarbledChunk, Discrete, UsageEvent, ToolCall, ToolCallUpdate
    <2>2. \A id : e \notin CallEvents(id) /\ e \notin UpdateEvents(id)
      BY <1>2 DEF CallEvents, UpdateEvents
    <2> QED BY <2>1, <2>2, AtNext DEF IndexKept
  <1>3. CASE e.type = "tool_call"
    <2>1. ToolCall(next, e)
      BY <1>3 DEF IsNext, OnPush, Chunk, GarbledChunk, Discrete, UsageEvent, ToolCallUpdate, Chunks
    <2>2. \A id : e \notin UpdateEvents(id)
      BY <1>3 DEF UpdateEvents
    <2>3. e.id \in ToolIDs \cup {NoID} /\ NoID \notin ToolIDs
      BY <1>3, EventIsTyped, CoalescerAssumption
    <2>4. CASE e.id = NoID
      <3>1. \A id \in ToolIDs : e \notin CallEvents(id)
        BY <2>3, <2>4 DEF CallEvents
      <3>2. tools' = tools /\ toolIdx' = toolIdx
        BY <2>1, <2>4 DEF ToolCall
      <3> QED BY <2>2, <3>1, <3>2, AtNext DEF IndexKept
    <2>5. CASE e.id # NoID /\ e.id \in Called
      <3>1. tools' = tools /\ toolIdx' = toolIdx
        BY <1>1, <2>1, <2>5 DEF ToolCall
      <3>2. stream' = stream
        <4>1. PICK n \in DOMAIN stream : stream[n] \in CallEvents(e.id)
          BY <2>5 DEF Called, At, Positions
        <4>2. Mentions(stream[n], e.id)
          BY <4>1 DEF CallEvents, Mentions
        <4>3. ~MayFollow(stream, e)
          BY <1>3, <2>5, <4>1, <4>2 DEF MayFollow
        <4> QED BY <4>3 DEF IsNext
      <3>3. \A id \in ToolIDs : At(CallEvents(id))' = At(CallEvents(id))
        BY <3>2 DEF At
      <3> QED BY <2>2, <3>1, <3>3 DEF IndexKept
    <2>6. CASE e.id # NoID /\ e.id \notin Called
      <3>1. toolIdx' = Indexed(e.id) /\ tools' = Append(tools, NewRef(next, e))
        BY <1>1, <2>1, <2>6 DEF ToolCall
      <3>2. ~(stream' = stream /\ next \in DOMAIN stream)
        <4> SUFFICES ASSUME stream' = stream, next \in DOMAIN stream PROVE FALSE
          OBVIOUS
        <4>1. stream[next] \in CallEvents(e.id)
          BY <1>3 DEF IsNext, CallEvents
        <4> QED BY <2>3, <2>6, <4>1 DEF Called, At, Positions
      <3>3. next = Len(stream) + 1 /\ MayFollow(stream, e)
        BY <3>2 DEF IsNext
      <3> QED BY <1>3, <2>3, <2>6, <3>1, <3>3 DEF IndexGrows, MayFollow
    <2> QED BY <2>4, <2>5, <2>6
  <1>4. CASE e.type = "tool_call_update"
    <2>1. ToolCallUpdate(next, e)
      BY <1>4 DEF IsNext, OnPush, Chunk, GarbledChunk, Discrete, UsageEvent, ToolCall, Chunks
    <2>2. CASE e.id \in Called
      BY <1>1, <1>4, <2>1, <2>2 DEF ToolCallUpdate, IndexChanges
    <2>3. CASE e.id \notin Called
      <3>1. tools' = tools /\ toolIdx' = toolIdx
        BY <1>1, <2>1, <2>3 DEF ToolCallUpdate
      <3>2. \A id : e \notin CallEvents(id)
        BY <1>4 DEF CallEvents
      <3>3. \A id \in Called : e \notin UpdateEvents(id)
        BY <2>3 DEF UpdateEvents
      <3> QED BY <3>1, <3>2, <3>3, AtNext DEF IndexKept
    <2> QED BY <2>2, <2>3
  <1> QED BY <1>2, <1>3, <1>4

LEMMA CallsFirstNext ==
  ASSUME IInv, NEW e \in Events, IsNext(e)
  PROVE  CallsFirst'
  <1> SUFFICES ASSUME NEW id \in ToolIDs, NEW c \in At(CallEvents(id))', NEW n \in 1..c - 1
               PROVE  ~Mentions(stream'[n], id)
    BY DEF CallsFirst
  <1>1. CASE c \in At(CallEvents(id))
    <2>1. c \in 1..Len(stream) /\ Len(stream) \in Nat
      BY <1>1, LenProperties DEF At, Positions, IsNext, IInv, TypeOK
    <2>2. n \in DOMAIN stream
      BY <2>1 DEF IsNext
    <2> QED BY <1>1, <2>2 DEF IsNext, IInv, FoldOK, CallsFirst
  <1>2. CASE c \notin At(CallEvents(id))
    <2>1. c = next /\ e \in CallEvents(id)
      BY <1>2, AtNext
    <2>2. next = Len(stream) + 1 /\ MayFollow(stream, e)
      BY <1>2, <2>1 DEF IsNext, At, Positions
    <2>3. Len(stream) \in Nat
      BY LenProperties DEF IInv, TypeOK
    <2>4. n \in DOMAIN stream /\ stream'[n] = stream[n]
      BY <2>1, <2>2, <2>3 DEF IsNext
    <2>5. e.type = "tool_call" /\ e.id = id /\ id # NoID
      BY <2>1, CoalescerAssumption DEF CallEvents
    <2> QED BY <2>2, <2>4, <2>5 DEF MayFollow
  <1> QED BY <1>1, <1>2

LEMMA UsageNext ==
  ASSUME IInv, NEW e \in Events, IsNext(e)
  PROVE  UsageOK'
  <1> SUFFICES ASSUME NEW p \in UsageParts PROVE Tracks(At(UsageEvents(p))', next', usage'[p], 0)
    BY DEF UsageOK
  <1>1. Tracks(At(UsageEvents(p)), next, usage[p], 0)
    BY DEF IInv, FoldOK, UsageOK
  <1>2. CASE e.type = "usage"
    <2>1. usage' = [usage EXCEPT ![e.part] = next]
      BY <1>2 DEF IsNext, OnPush, Chunk, GarbledChunk, Discrete, UsageEvent, ToolCall, ToolCallUpdate, Chunks
    <2>2. usage \in [UsageParts -> 0..MaxEvents]
      BY DEF IInv, TypeOK
    <2>3. CASE e.part = p
      <3>1. e \in UsageEvents(p) /\ usage'[p] = next
        BY <1>2, <2>1, <2>2, <2>3 DEF UsageEvents
      <3> QED BY <1>1, <3>1, TracksOnce
    <2>4. CASE e.part # p
      <3>1. e \notin UsageEvents(p) /\ usage'[p] = usage[p]
        BY <2>1, <2>2, <2>4 DEF UsageEvents
      <3> QED BY <1>1, <3>1, TracksOnce
    <2> QED BY <2>3, <2>4
  <1>3. CASE e.type # "usage"
    <2>1. usage' = usage
      BY <1>3 DEF IsNext, OnPush, Chunk, GarbledChunk, Discrete, UsageEvent, ToolCall, ToolCallUpdate
    <2>2. e \notin UsageEvents(p)
      BY <1>3 DEF UsageEvents
    <2> QED BY <1>1, <2>1, <2>2, TracksOnce
  <1> QED BY <1>2, <1>3

(* What an event does to the entry of a call: nothing, if it is no update  *)
(* of it.                                                                  *)
LEMMA EntryStays ==
  ASSUME IInv, NEW e \in Events, IsNext(e), NEW id, NEW c \in At(CallEvents(id)), NEW r,
         EntryOK(r, id, c, stream, next), e \notin UpdateEvents(id)
  PROVE  EntryOK(r, id, c, stream', next')
  <1>1. e \notin StatusEvents(id) /\ e \notin NameEvents(id) /\ e \notin InputEvents(id)
    BY DEF StatusEvents, NameEvents, InputEvents
  <1>2. ASSUME NEW E, NEW x, Tracks(At(E), next, x, c) PROVE stream'[x] = stream[x]
    <2>1. x \in DOMAIN stream
      BY <1>2 DEF Tracks, At, Positions
    <2> QED BY <2>1 DEF IsNext
  <1>3. ASSUME NEW E, e \notin E, NEW x, Tracks(Positions(stream, E), next, x, c)
        PROVE  Tracks(Positions(stream', E), next', x, c) /\ stream'[x] = stream[x]
    BY <1>2, <1>3, TracksOnce DEF At
  <1>4. PICK x : /\ Tracks(Positions(stream, StatusEvents(id)), next, x, c)
                 /\ r.status = IF x = c THEN "running" ELSE stream[x].status
    BY DEF EntryOK
  <1>5. PICK y : Tracks(Positions(stream, NameEvents(id)), next, y, c) /\ r.name = stream[y].name
    BY DEF EntryOK
  <1>6. Tracks(Positions(stream, InputEvents(id)), next, r.input, c)
    BY DEF EntryOK
  <1>7. Tracks(Positions(stream', StatusEvents(id)), next', x, c) /\ stream'[x] = stream[x]
    BY <1>1, <1>3, <1>4
  <1>8. Tracks(Positions(stream', NameEvents(id)), next', y, c) /\ stream'[y] = stream[y]
    BY <1>1, <1>3, <1>5
  <1>9. Tracks(Positions(stream', InputEvents(id)), next', r.input, c)
    BY <1>1, <1>3, <1>6
  <1> QED BY <1>4, <1>5, <1>7, <1>8, <1>9 DEF EntryOK

(* An update of the call. *)
LEMMA EntryChanges ==
  ASSUME IInv, NEW e \in Events, IsNext(e), NEW id, NEW c \in At(CallEvents(id)), NEW r \in Refs,
         EntryOK(r, id, c, stream, next), e \in UpdateEvents(id)
  PROVE  EntryOK(Updated(r, next, e), id, c, stream', next')
  <1> DEFINE u == Updated(r, next, e)
  <1>1. /\ u.status = IF e.status = "" THEN r.status ELSE e.status
        /\ u.name = IF e.name = NoName THEN r.name ELSE e.name
        /\ u.input = IF e.input THEN next ELSE r.input
    BY DEF Updated, Refs
  <1> HIDE DEF u
  <1>2. ASSUME NEW E, NEW x, Tracks(Positions(stream, E), next, x, c)
        PROVE  /\ stream'[x] = stream[x]
               /\ e \notin E => Tracks(Positions(stream', E), next', x, c)
               /\ e \in E => Tracks(Positions(stream', E), next', next, c)
    <2>1. x \in DOMAIN stream
      BY <1>2 DEF Tracks, At, Positions
    <2>2. stream'[x] = stream[x]
      BY <2>1 DEF IsNext
    <2> QED BY <1>2, <2>2, TracksOnce DEF At
  <1>3. stream'[next] = e /\ next # c
    <2>1. stream'[c] = stream[c] /\ stream[c].type = "tool_call"
      BY DEF IsNext, At, Positions, CallEvents
    <2> QED BY <2>1 DEF IsNext, UpdateEvents
  <1>4. \E x : /\ Tracks(Positions(stream', StatusEvents(id)), next', x, c)
               /\ u.status = IF x = c THEN "running" ELSE stream'[x].status
    <2>1. PICK x : /\ Tracks(Positions(stream, StatusEvents(id)), next, x, c)
                   /\ r.status = IF x = c THEN "running" ELSE stream[x].status
      BY DEF EntryOK
    <2>2. CASE e.status = ""
      <3>1. e \notin StatusEvents(id) /\ u.status = r.status
        BY <1>1, <2>2 DEF StatusEvents
      <3> QED BY <1>2, <2>1, <3>1
    <2>3. CASE e.status # ""
      <3>1. e \in StatusEvents(id) /\ u.status = e.status
        BY <1>1, <2>3 DEF StatusEvents
      <3> QED BY <1>2, <1>3, <2>1, <3>1
    <2> QED BY <2>2, <2>3
  <1>5. \E x : /\ Tracks(Positions(stream', NameEvents(id)), next', x, c)
               /\ u.name = stream'[x].name
    <2>1. PICK x : Tracks(Positions(stream, NameEvents(id)), next, x, c) /\ r.name = stream[x].name
      BY DEF EntryOK
    <2>2. CASE e.name = NoName
      <3>1. e \notin NameEvents(id) /\ u.name = r.name
        BY <1>1, <2>2 DEF NameEvents
      <3> QED BY <1>2, <2>1, <3>1
    <2>3. CASE e.name # NoName
      <3>1. e \in NameEvents(id) /\ u.name = e.name
        BY <1>1, <2>3 DEF NameEvents
      <3> QED BY <1>2, <1>3, <2>1, <3>1
    <2> QED BY <2>2, <2>3
  <1>6. Tracks(Positions(stream', InputEvents(id)), next', u.input, c)
    <2>1. Tracks(Positions(stream, InputEvents(id)), next, r.input, c)
      BY DEF EntryOK
    <2>2. CASE ~e.input
      <3>1. e \notin InputEvents(id) /\ u.input = r.input
        BY <1>1, <2>2 DEF InputEvents
      <3> QED BY <1>2, <2>1, <3>1
    <2>3. CASE e.input
      <3>1. e \in InputEvents(id) /\ u.input = next
        BY <1>1, <2>3 DEF InputEvents
      <3> QED BY <1>2, <2>1, <3>1
    <2> QED BY <2>2, <2>3
  <1> QED BY <1>4, <1>5, <1>6 DEF EntryOK, u

(* The call itself. *)
LEMMA EntryBegins ==
  ASSUME IInv, NEW e \in Events, IsNext(e), IndexGrows(e)
  PROVE  EntryOK(NewRef(next, e), e.id, next, stream', next')
  <1> DEFINE r == NewRef(next, e)
             id == e.id
  <1>1. r.status = "running" /\ r.name = e.name /\ r.input = next /\ stream'[next] = e
    BY DEF NewRef, IsNext
  <1>2. ASSUME NEW E, E \subseteq UpdateEvents(id)
        PROVE  Tracks(Positions(stream', E), next', next, next)
    <2>1. e \notin E
      BY <1>2 DEF UpdateEvents, IndexGrows
    <2>2. At(E) = {}
      BY <1>2 DEF At, Positions, UpdateEvents, IndexGrows, Mentions
    <2>3. Positions(stream', E) = {}
      BY <2>1, <2>2, AtNext DEF At
    <2> QED BY <2>3 DEF Tracks
  <1>3. /\ StatusEvents(id) \subseteq UpdateEvents(id) /\ NameEvents(id) \subseteq UpdateEvents(id)
        /\ InputEvents(id) \subseteq UpdateEvents(id)
    BY DEF StatusEvents, NameEvents, InputEvents
  <1>4. /\ Tracks(Positions(stream', StatusEvents(id)), next', next, next)
        /\ Tracks(Positions(stream', NameEvents(id)), next', next, next)
        /\ Tracks(Positions(stream', InputEvents(id)), next', next, next)
    BY <1>2, <1>3
  <1> HIDE DEF r
  <1> QED BY <1>1, <1>4 DEF EntryOK, r

LEMMA KeptFolds ==
  ASSUME IInv, NEW e \in Events, IsNext(e), IndexKept(e)
  PROVE  IndexOK' /\ EntriesOK' /\ tools' \in Seq(Refs) /\ DOMAIN toolIdx' \subseteq ToolIDs
  <1> USE DEF IInv, FoldOK, IndexKept
  <1>1. Called' = Called
    BY DEF Called
  <1>2. IndexOK'
    <2>1. \A id, jd \in Called' : \A c \in At(CallEvents(id))', d \in At(CallEvents(jd))' :
             c < d => toolIdx'[id] < toolIdx'[jd]
      BY <1>1 DEF IndexOK, Called
    <2> QED BY <1>1, <2>1 DEF IndexOK
  <1>3. EntriesOK'
    <2> SUFFICES ASSUME NEW id \in Called, NEW c \in At(CallEvents(id))
                 PROVE  EntryOK(tools[toolIdx[id]], id, c, stream', next')
      BY <1>1 DEF EntriesOK, Called
    <2> QED BY EntryStays DEF EntriesOK
  <1> QED BY <1>1, <1>2, <1>3 DEF TypeOK

LEMMA GrowsFolds ==
  ASSUME IInv, NEW e \in Events, IsNext(e), IndexGrows(e)
  PROVE  IndexOK' /\ EntriesOK' /\ tools' \in Seq(Refs) /\ DOMAIN toolIdx' \subseteq ToolIDs
  <1> USE DEF IInv, FoldOK
  <1> DEFINE new == e.id
             r == NewRef(next, e)
             k == Len(tools) + 1
  <1>1. /\ e.type = "tool_call" /\ new \in ToolIDs \ Called
        /\ toolIdx' = Indexed(new) /\ tools' = Append(tools, r)
        /\ next = Len(stream) + 1 /\ Len(stream) \in Nat
    BY LenProperties DEF IndexGrows, TypeOK
  <1>2. /\ DOMAIN toolIdx = Called /\ IsFiniteSet(Called) /\ Len(tools) = Cardinality(Called)
        /\ \A id \in Called : toolIdx[id] \in 1..Len(tools) /\ tools[toolIdx[id]].id = id
        /\ \A i \in 1..Len(tools) : tools[i].id \in Called /\ toolIdx[tools[i].id] = i
    BY DEF IndexOK
  <1>3. r \in Refs /\ r.id = new
    <2>1. e.name \in Names /\ next \in 1..MaxEvents /\ ToolKind(e.name) \in {"edit", "tool"}
      BY <1>1, EventIsTyped DEF IsNext, ToolKind
    <2> QED BY <1>1, <2>1 DEF NewRef, Refs
  <1>4. /\ tools' \in Seq(Refs) /\ Len(tools') = k /\ tools'[k] = r /\ Len(tools) \in Nat
        /\ \A i \in 1..Len(tools) : tools'[i] = tools[i]
    <2>1. tools \in Seq(Refs)
      BY DEF TypeOK
    <2> HIDE DEF r
    <2> QED BY <1>1, <1>3, <2>1, AppendProperties, LenProperties
  <1> HIDE DEF r
  <1>5. /\ DOMAIN toolIdx' = Called \cup {new} /\ toolIdx'[new] = k
        /\ \A id \in Called : toolIdx'[id] = toolIdx[id]
    BY <1>1, <1>2 DEF Indexed
  <1>6. /\ At(CallEvents(new))' = {next} /\ At(CallEvents(new)) = {}
        /\ \A id \in ToolIDs \ {new} : At(CallEvents(id))' = At(CallEvents(id))
    <2>1. e \in CallEvents(new) /\ \A id \in ToolIDs \ {new} : e \notin CallEvents(id)
      BY <1>1 DEF CallEvents
    <2>2. At(CallEvents(new)) = {}
      BY <1>1 DEF Called
    <2> QED BY <2>1, <2>2, AtNext
  <1>7. Called' = Called \cup {new}
    BY <1>1, <1>6 DEF Called
  <1>8. IsFiniteSet(Called') /\ Len(tools') = Cardinality(Called')
    <2>1. IsFiniteSet(Called \cup {new}) /\ Cardinality(Called \cup {new}) = Cardinality(Called) + 1
      BY <1>1, <1>2, FS_AddElement
    <2> QED BY <1>2, <1>4, <1>7, <2>1
  <1>9. \A id \in Called' : toolIdx'[id] \in 1..Len(tools') /\ tools'[toolIdx'[id]].id = id
    <2>1. \A id \in Called : toolIdx'[id] \in 1..Len(tools)
      BY <1>2, <1>5
    <2>2. k \in 1..Len(tools') /\ 1..Len(tools) \subseteq 1..Len(tools')
      BY <1>4
    <2> QED BY <1>2, <1>3, <1>4, <1>5, <1>7, <2>1, <2>2
  <1>10. \A i \in 1..Len(tools') : tools'[i].id \in Called' /\ toolIdx'[tools'[i].id] = i
    <2>1. \A i \in 1..Len(tools') : i \in 1..Len(tools) \/ i = k
      BY <1>4
    <2> QED BY <1>2, <1>3, <1>4, <1>5, <1>7, <2>1
  <1>11. ASSUME NEW id \in Called', NEW jd \in Called', NEW c \in At(CallEvents(id))',
                NEW d \in At(CallEvents(jd))', c < d
         PROVE  toolIdx'[id] < toolIdx'[jd]
    <2>1. \A jj \in Called : At(CallEvents(jj))' = At(CallEvents(jj)) /\ jj # new
      BY <1>1, <1>6 DEF Called
    <2>2. \A jj \in Called : At(CallEvents(jj)) \subseteq 1..Len(stream)
      BY DEF IsNext, At, Positions
    <2>3. CASE id = new
      BY <1>1, <1>6, <1>7, <1>11, <2>1, <2>2, <2>3
    <2>4. CASE id # new /\ jd = new
      <3>1. toolIdx[id] \in 1..Len(tools) /\ toolIdx'[id] = toolIdx[id] /\ toolIdx'[jd] = k
        BY <1>2, <1>5, <1>7, <2>4
      <3> QED BY <1>4, <3>1
    <2>5. CASE id # new /\ jd # new
      <3>1. id \in Called /\ jd \in Called /\ c \in At(CallEvents(id)) /\ d \in At(CallEvents(jd))
        BY <1>7, <2>1, <2>5
      <3> QED BY <1>5, <1>11, <3>1 DEF IndexOK
    <2> QED BY <2>3, <2>4, <2>5
  <1>12. IndexOK'
    BY <1>5, <1>7, <1>8, <1>9, <1>10, <1>11 DEF IndexOK
  <1>13. EntriesOK'
    <2> SUFFICES ASSUME NEW id \in Called', NEW c \in At(CallEvents(id))'
                 PROVE  EntryOK(tools'[toolIdx'[id]], id, c, stream', next')
      BY DEF EntriesOK
    <2>1. CASE id = new
      <3>1. c = next /\ tools'[toolIdx'[id]] = r
        BY <1>4, <1>5, <1>6, <2>1
      <3> QED BY <2>1, <3>1, EntryBegins DEF r
    <2>2. CASE id # new
      <3>1. id \in Called /\ c \in At(CallEvents(id))
        BY <1>6, <1>7, <2>2 DEF Called
      <3>2. tools'[toolIdx'[id]] = tools[toolIdx[id]] /\ EntryOK(tools[toolIdx[id]], id, c, stream, next)
        BY <1>2, <1>4, <1>5, <3>1 DEF EntriesOK
      <3>3. e \notin UpdateEvents(id)
        BY <1>1 DEF UpdateEvents
      <3> QED BY <3>1, <3>2, <3>3, EntryStays
    <2> QED BY <2>1, <2>2
  <1>14. DOMAIN toolIdx' \subseteq ToolIDs
    BY <1>1, <1>5 DEF Called
  <1> QED BY <1>4, <1>12, <1>13, <1>14

LEMMA ChangesFolds ==
  ASSUME IInv, NEW e \in Events, IsNext(e), IndexChanges(e)
  PROVE  IndexOK' /\ EntriesOK' /\ tools' \in Seq(Refs) /\ DOMAIN toolIdx' \subseteq ToolIDs
  <1> USE DEF IInv, FoldOK
  <1> DEFINE i == toolIdx[e.id]
             u == Updated(tools[i], next, e)
  <1>1. /\ e.type = "tool_call_update" /\ e.id \in Called /\ toolIdx' = toolIdx
        /\ tools' = [tools EXCEPT ![i] = u]
    BY DEF IndexChanges
  <1>2. /\ DOMAIN toolIdx = Called /\ IsFiniteSet(Called) /\ Len(tools) = Cardinality(Called)
        /\ \A id \in Called : toolIdx[id] \in 1..Len(tools) /\ tools[toolIdx[id]].id = id
        /\ \A k \in 1..Len(tools) : tools[k].id \in Called /\ toolIdx[tools[k].id] = k
    BY DEF IndexOK
  <1>3. tools \in Seq(Refs) /\ i \in 1..Len(tools) /\ tools[i] \in Refs /\ tools[i].id = e.id
    BY <1>1, <1>2, ElementOfSeq DEF TypeOK
  <1>4. u \in Refs /\ u.id = e.id
    <2>1. /\ e.status \in {"", "completed"} /\ e.name \in Names \cup {NoName} /\ next \in 1..MaxEvents
      BY <1>1, EventIsTyped DEF IsNext
    <2> DEFINE r == tools[i]
    <2>2. r \in Refs /\ r.id = e.id
      BY <1>3
    <2> HIDE DEF r
    <2>3. Updated(r, next, e) \in Refs /\ Updated(r, next, e).id = e.id
      BY <2>1, <2>2 DEF Updated, Refs
    <2> QED BY <2>3 DEF r
  <1> HIDE DEF u, i
  <1>5. /\ tools' \in Seq(Refs) /\ Len(tools') = Len(tools) /\ tools'[i] = u
        /\ \A k \in 1..Len(tools) : k # i => tools'[k] = tools[k]
    BY <1>1, <1>3, <1>4, ExceptSeq
  <1>6. \A id : At(CallEvents(id))' = At(CallEvents(id))
    <2>1. \A id : e \notin CallEvents(id)
      BY <1>1 DEF CallEvents
    <2> QED BY <2>1, AtNext
  <1>7. Called' = Called
    BY <1>6 DEF Called
  <1>8. \A k \in 1..Len(tools') : tools'[k].id = tools[k].id
    BY <1>3, <1>4, <1>5
  <1>9. IndexOK'
    <2>1. \A id \in Called' : toolIdx'[id] \in 1..Len(tools') /\ tools'[toolIdx'[id]].id = id
      BY <1>1, <1>2, <1>5, <1>7, <1>8
    <2>2. \A k \in 1..Len(tools') : tools'[k].id \in Called' /\ toolIdx'[tools'[k].id] = k
      BY <1>1, <1>2, <1>5, <1>7, <1>8
    <2>3. \A id, jd \in Called' : \A c \in At(CallEvents(id))', d \in At(CallEvents(jd))' :
             c < d => toolIdx'[id] < toolIdx'[jd]
      BY <1>1, <1>6, <1>7 DEF IndexOK
    <2> QED BY <1>1, <1>2, <1>5, <1>7, <2>1, <2>2, <2>3 DEF IndexOK
  <1>10. EntriesOK'
    <2> SUFFICES ASSUME NEW id \in Called, NEW c \in At(CallEvents(id))
                 PROVE  EntryOK(tools'[toolIdx[id]], id, c, stream', next')
      BY <1>1, <1>6, <1>7 DEF EntriesOK
    <2>1. EntryOK(tools[toolIdx[id]], id, c, stream, next)
      BY DEF EntriesOK
    <2>2. CASE id = e.id
      <3>1. e \in UpdateEvents(id) /\ toolIdx[id] = i
        BY <1>1, <2>2 DEF UpdateEvents, i
      <3>2. EntryOK(Updated(tools[i], next, e), id, c, stream', next')
        BY <1>3, <2>1, <3>1, EntryChanges
      <3> QED BY <1>5, <3>1, <3>2 DEF u
    <2>3. CASE id # e.id
      <3>1. e \notin UpdateEvents(id)
        BY <2>3 DEF UpdateEvents
      <3>2. tools'[toolIdx[id]] = tools[toolIdx[id]]
        BY <1>2, <1>3, <1>5, <2>3
      <3> QED BY <2>1, <3>1, <3>2, EntryStays
    <2> QED BY <2>2, <2>3
  <1>11. DOMAIN toolIdx' \subseteq ToolIDs
    BY <1>1 DEF TypeOK
  <1> QED BY <1>5, <1>9, <1>10, <1>11

(* The types of what an event leaves. *)
LEMMA TypesNext ==
  ASSUME IInv, NEW e \in Events, IsNext(e), tools' \in Seq(Refs), DOMAIN toolIdx' \subseteq ToolIDs
  PROVE  TypeOK'
  <1> USE DEF IInv
  <1>1. /\ stream' \in Seq(Events) /\ Len(stream') <= MaxEvents /\ next' \in 1..Len(stream') + 1
        /\ replays' \in 0..MaxReplays /\ next \in 1..MaxEvents
    <2>1. Len(stream') \in Nat /\ next \in 1..Len(stream') /\ next' = next + 1
      BY LenProperties DEF IsNext
    <2>2. next' \in 1..Len(stream') + 1
      BY <2>1
    <2> QED BY <2>2 DEF IsNext, TypeOK
  <1>2. /\ buf' \in Seq(1..MaxEvents) /\ kind' \in Chunks \cup {""}
        /\ kind' = "" => buf' = <<>>
    <2>1. buf \in Seq(1..MaxEvents) /\ kind \in Chunks \cup {""} /\ (kind = "" => buf = <<>>)
      BY DEF TypeOK
    <2>2. <<>> \in Seq(1..MaxEvents)
      BY EmptySeq
    <2>3. \A s \in Seq(1..MaxEvents) : Append(s, next) \in Seq(1..MaxEvents)
      BY <1>1, AppendProperties
    <2>4. CASE Chunk(next, e)
      <3>1. kind' = e.type /\ e.type \in Chunks
        BY <2>4 DEF Chunk
      <3>2. \/ buf' = Append(buf, next) \/ buf' = Append(<<>>, next) \/ buf' = buf \/ buf' = <<>>
        BY <2>4 DEF Chunk
      <3>3. buf' \in Seq(1..MaxEvents)
        BY <2>1, <2>2, <2>3, <3>2
      <3> QED BY <3>1, <3>3 DEF Chunks
    <2>5. CASE buf' = buf /\ kind' = kind
      BY <2>1, <2>5
    <2>6. CASE buf' = <<>> /\ kind' = ""
      BY <2>2, <2>6
    <2> QED BY <2>4, <2>5, <2>6 DEF IsNext, OnPush, GarbledChunk, Discrete, UsageEvent, ToolCall,
               ToolCallUpdate, FlushBetween
  <1>3. usage' \in [UsageParts -> 0..MaxEvents]
    <2>1. usage \in [UsageParts -> 0..MaxEvents]
      BY DEF TypeOK
    <2>2. next \in 0..MaxEvents
      BY <1>1, CoalescerAssumption
    <2>3. usage' = usage \/ usage' = [usage EXCEPT ![e.part] = next]
      BY DEF IsNext, OnPush, Chunk, GarbledChunk, Discrete, UsageEvent, ToolCall, ToolCallUpdate
    <2> QED BY <2>1, <2>2, <2>3
  <1> QED BY <1>1, <1>2, <1>3 DEF TypeOK

LEMMA DeliverStep ==
  ASSUME IInv, Deliver
  PROVE  IInv'
  <1>1. PICK e \in Events : IsNext(e)
    BY DeliverIsNext DEF IInv
  <1>2. IndexOK' /\ EntriesOK' /\ tools' \in Seq(Refs) /\ DOMAIN toolIdx' \subseteq ToolIDs
    BY <1>1, IndexNext, KeptFolds, GrowsFolds, ChangesFolds
  <1> QED BY <1>1, <1>2, TypesNext, UsageNext, CallsFirstNext DEF IInv, FoldOK

(* Before the first event of a replay nothing has come again. *)
LEMMA ReplayStep ==
  ASSUME IInv, Replay
  PROVE  IInv'
  <1> USE DEF IInv, FoldOK
  <1>1. /\ stream' = stream /\ buf' = buf /\ kind' = kind /\ tools' = tools /\ toolIdx' = toolIdx
        /\ usage' = usage /\ next' = 1 /\ replays' = replays + 1 /\ replays < MaxReplays
    BY DEF Replay
  <1>2. Called' = Called /\ \A E : At(E)' = At(E) /\ At(E) \in SUBSET (Nat \ {0})
    <2>1. Len(stream) \in Nat /\ DOMAIN stream = 1..Len(stream)
      BY LenProperties DEF TypeOK
    <2>2. \A E : At(E)' = At(E)
      BY <1>1 DEF At
    <2>3. \A E : At(E) \in SUBSET (Nat \ {0})
      BY <2>1 DEF At, Positions
    <2> QED BY <2>2, <2>3 DEF Called
  <1>3. TypeOK'
    <2>1. Len(stream) \in Nat
      BY LenProperties DEF TypeOK
    <2>2. next' \in 1..Len(stream') + 1
      BY <1>1, <2>1
    <2>3. replays' \in 0..MaxReplays
      <3>1. replays \in 0..MaxReplays
        BY DEF TypeOK
      <3> HIDE DEF IInv, FoldOK
      <3>2. replays + 1 \in 0..MaxReplays
        BY <1>1, <3>1, CoalescerAssumption
      <3> QED BY <1>1, <3>2
    <2> QED BY <1>1, <2>2, <2>3 DEF TypeOK
  <1>4. UsageOK'
    <2> SUFFICES ASSUME NEW p \in UsageParts PROVE Tracks(At(UsageEvents(p)), 1, usage[p], 0)
      BY <1>1, <1>2 DEF UsageOK
    <2> QED BY <1>2, TracksRestart DEF UsageOK
  <1>5. CallsFirst'
    BY <1>1, <1>2 DEF CallsFirst
  <1>6. IndexOK'
    BY <1>1, <1>2 DEF IndexOK
  <1>7. EntriesOK'
    <2> SUFFICES ASSUME NEW id \in Called, NEW c \in At(CallEvents(id))
                 PROVE  EntryOK(tools[toolIdx[id]], id, c, stream, 1)
      BY <1>1, <1>2 DEF EntriesOK
    <2>1. EntryOK(tools[toolIdx[id]], id, c, stream, next)
      BY DEF EntriesOK
    <2>2. ASSUME NEW E, NEW x, Tracks(Positions(stream, E), next, x, c)
          PROVE  Tracks(Positions(stream, E), 1, x, c)
      BY <1>2, <2>2, TracksRestart DEF At
    <2> HIDE DEF IInv, FoldOK
    <2> QED BY <2>1, <2>2 DEF EntryOK
  <1> QED BY <1>3, <1>4, <1>5, <1>6, <1>7

(* A stream without events, and nothing folded. *)
Empty ==
    /\ stream = <<>> /\ next = 1 /\ replays = 0
    /\ buf = <<>> /\ kind = ""
    /\ tools = <<>> /\ toolIdx = NoIndex /\ usage = NoUsage

LEMMA EmptyOK == Empty => IInv
  <1> SUFFICES ASSUME Empty PROVE IInv
    OBVIOUS
  <1>1. /\ stream \in Seq(Events) /\ buf \in Seq(1..MaxEvents) /\ tools \in Seq(Refs)
        /\ Len(stream) = 0 /\ Len(tools) = 0
    BY EmptySeq DEF Empty
  <1>2. DOMAIN stream = {} /\ 1..Len(tools) = {}
    BY <1>1, LenProperties
  <1>3. toolIdx = NoIndex /\ DOMAIN toolIdx = {}
    BY DEF Empty, NoIndex
  <1>4. TypeOK
    <2>1. usage = NoUsage /\ NoUsage \in [UsageParts -> 0..MaxEvents]
      <3>1. 0 \in 0..MaxEvents
        BY CoalescerAssumption
      <3> QED BY <3>1 DEF Empty, NoUsage
    <2>2. next \in 1..Len(stream) + 1 /\ Len(stream) <= MaxEvents /\ replays \in 0..MaxReplays
      <3>1. next = 1 /\ replays = 0
        BY DEF Empty
      <3> QED BY <1>1, <3>1, CoalescerAssumption
    <2>3. kind = "" /\ buf = <<>>
      BY DEF Empty
    <2> QED BY <1>1, <1>3, <2>1, <2>2, <2>3 DEF TypeOK
  <1>5. \A E : At(E) = {}
    BY <1>2 DEF At, Positions
  <1>6. Called = {}
    BY <1>5 DEF Called
  <1>7. UsageOK /\ CallsFirst /\ EntriesOK
    <2>1. \A p \in UsageParts : usage[p] = 0
      BY DEF Empty, NoUsage
    <2> QED BY <1>5, <1>6, <2>1 DEF UsageOK, CallsFirst, EntriesOK, Tracks
  <1>8. IndexOK
    <2>1. IsFiniteSet(Called) /\ Cardinality(Called) = 0
      BY <1>6, FS_EmptySet
    <2> QED BY <1>1, <1>2, <1>3, <1>6, <2>1 DEF IndexOK
  <1> QED BY <1>4, <1>7, <1>8 DEF IInv, FoldOK

LEMMA IInvStep ==
  ASSUME IInv, [Next]_vars
  PROVE  IInv'
  <1>1. CASE Deliver
    BY <1>1, DeliverStep
  <1>2. CASE Replay
    BY <1>2, ReplayStep
  <1>3. CASE SetStream
    <2>1. Empty'
      BY <1>3 DEF SetStream, Empty
    <2> QED BY <2>1, EmptyOK, PTL
  <1>4. CASE UNCHANGED vars
    <2>1. Called' = Called /\ \A E : At(E)' = At(E)
      BY <1>4 DEF Called, At, vars, externalVars
    <2>2. UsageOK' /\ CallsFirst' /\ IndexOK' /\ EntriesOK'
      BY <1>4, <2>1 DEF IInv, FoldOK, UsageOK, CallsFirst, IndexOK, EntriesOK, vars, externalVars
    <2>3. TypeOK'
      BY <1>4 DEF IInv, TypeOK, vars, externalVars
    <2> QED BY <2>2, <2>3 DEF IInv, FoldOK
  <1> QED BY <1>1, <1>2, <1>3, <1>4 DEF Next

LEMMA InductiveInvariant == Spec => []IInv
  <1>1. Init => IInv
    BY EmptyOK DEF Init, Empty
  <1>2. IInv /\ [Next]_vars => IInv'
    BY IInvStep
  <1> QED BY <1>1, <1>2, PTL DEF Spec

-----------------------------------------------------------------------------
(* The results *)

(* All that the timeline keeps of the events has its type. *)
THEOREM TypeCorrect == Spec => []TypeOK
  BY InductiveInvariant, PTL DEF IInv

(* Once every event has come, all positions are behind. *)
LEMMA AllBehind ==
  ASSUME IInv, CaughtUp
  PROVE  /\ DOMAIN stream = 1..Len(stream) /\ Len(stream) \in Nat
         /\ \A E : At(E) \in SUBSET (Nat \ {0}) /\ \A m \in At(E) : m < next
  <1>1. /\ DOMAIN stream = 1..Len(stream) /\ Len(stream) \in Nat
        /\ next > Len(stream) /\ next \in 1..Len(stream) + 1
    BY LenProperties DEF IInv, TypeOK, CaughtUp
  <1> QED BY <1>1 DEF At, Positions

(* The doc of Usage in timeline.go: the latest event of each part wins, so *)
(* that what applyUsage keeps is right after a replay, too.                *)
THEOREM UsageIsLatest == Spec => []UsageLatest
  <1>1. IInv => UsageLatest
    <2> SUFFICES ASSUME IInv, CaughtUp, NEW p \in UsageParts
                 PROVE  usage[p] = SelectLastInSeq(stream, LAMBDA e : e.type = "usage" /\ e.part = p)
      BY DEF UsageLatest
    <2> DEFINE I == {n \in 1..Len(stream) : stream[n].type = "usage" /\ stream[n].part = p}
    <2>1. SelectLastInSeq(stream, LAMBDA e : e.type = "usage" /\ e.part = p) = IF I # {} THEN Max(I) ELSE 0
      BY DEF SelectLastInSeq
    <2>2. I = At(UsageEvents(p))
      <3>1. \A n \in 1..Len(stream) : stream[n] \in Events
        BY ElementOfSeq DEF IInv, TypeOK
      <3> QED BY <3>1, AllBehind DEF At, Positions, UsageEvents
    <2>3. Tracks(I, next, usage[p], 0)
      BY <2>2 DEF IInv, FoldOK, UsageOK
    <2>4. I \in SUBSET Nat /\ \A m \in I : m < next
      BY <2>2, AllBehind
    <2> HIDE DEF I
    <2> QED BY <2>1, <2>3, <2>4, TracksLast
  <1> QED BY <1>1, InductiveInvariant, PTL

LEMMA MinIs ==
  ASSUME NEW u \in Nat
  PROVE  Min({u}) = u
  <1>1. \A y \in {u} : u <= y
    OBVIOUS
  <1> QED BY <1>1 DEF Min

(* There is one call of an id, if there is one. *)
LEMMA CallOfIs ==
  ASSUME IInv, CaughtUp, NEW id \in ToolIDs
  PROVE  /\ id \in Called <=> CallOf(id) # 0
         /\ id \in Called => At(CallEvents(id)) = {CallOf(id)}
         /\ CallOf(id) \in Nat
  <1> DEFINE I == {n \in 1..Len(stream) : stream[n].type = "tool_call" /\ stream[n].id = id}
  <1>1. CallOf(id) = IF I # {} THEN Min(I) ELSE 0
    BY DEF CallOf, SelectInSeq
  <1>2. I = At(CallEvents(id))
    <2>1. \A n \in 1..Len(stream) : stream[n] \in Events
      BY ElementOfSeq DEF IInv, TypeOK
    <2> QED BY <2>1, AllBehind DEF At, Positions, CallEvents
  <1>3. \A c, d \in I : c = d
    <2> SUFFICES ASSUME NEW c \in I, NEW d \in I, c < d PROVE FALSE
      BY AllBehind
    <2>1. c \in 1..d - 1 /\ Mentions(stream[c], id)
      BY AllBehind DEF Mentions
    <2> QED BY <1>2, <2>1 DEF IInv, FoldOK, CallsFirst
  <1>4. I \in SUBSET (Nat \ {0})
    BY <1>2, AllBehind
  <1> HIDE DEF I
  <1>5. CASE I = {}
    <2>1. CallOf(id) = 0 /\ 0 \in Nat
      BY <1>1, <1>5
    <2>2. id \notin Called
      BY <1>2, <1>5 DEF Called
    <2> QED BY <2>1, <2>2
  <1>6. CASE I # {}
    <2>1. PICK c \in I : I = {c}
      BY <1>3, <1>6
    <2>2. CallOf(id) = c
      BY <1>1, <1>4, <2>1, MinIs
    <2> QED BY <1>2, <1>4, <2>1, <2>2 DEF Called
  <1> QED BY <1>5, <1>6

(* What LastAbout finds: the last of some updates, or else c. *)
LEMMA TracksAbout ==
  ASSUME IInv, CaughtUp, NEW E, NEW x, NEW c, Tracks(At(E), next, x, c),
         NEW u, u = IF At(E) # {} THEN Max(At(E)) ELSE 0
  PROVE  x = IF u = 0 THEN c ELSE u
  <1>1. At(E) \in SUBSET (Nat \ {0}) /\ \A m \in At(E) : m < next
    BY AllBehind
  <1>2. x = IF At(E) # {} THEN Max(At(E)) ELSE c
    BY <1>1, TracksLast
  <1>3. CASE At(E) # {}
    <2>1. x \in At(E) /\ x = u
      BY <1>1, <1>2, <1>3 DEF Tracks
    <2> QED BY <1>1, <2>1
  <1>4. CASE At(E) = {}
    BY <1>2, <1>4
  <1> QED BY <1>3, <1>4

LEMMA StatusIs ==
  ASSUME IInv, CaughtUp, NEW id \in ToolIDs, NEW x, Tracks(At(StatusEvents(id)), next, x, CallOf(id))
  PROVE  StatusOf(id) = IF x = CallOf(id) THEN "running" ELSE stream[x].status
  <1> DEFINE I == {n \in 1..Len(stream) : /\ stream[n].type = "tool_call_update" /\ stream[n].id = id
                                         /\ stream[n].status # ""}
             u == IF I # {} THEN Max(I) ELSE 0
             n == IF u = 0 THEN CallOf(id) ELSE u
  <1>1. StatusOf(id) = IF n = CallOf(id) THEN "running" ELSE stream[n].status
    BY DEF StatusOf, LastAbout, SelectLastInSeq
  <1>2. I = At(StatusEvents(id))
    <2>1. \A m \in 1..Len(stream) : stream[m] \in Events
      BY ElementOfSeq DEF IInv, TypeOK
    <2> QED BY <2>1, AllBehind DEF At, Positions, StatusEvents, UpdateEvents
  <1> HIDE DEF I, u
  <1>3. x = n
    <2>1. u = IF I # {} THEN Max(I) ELSE 0
      BY DEF u
    <2> QED BY <1>2, <2>1, TracksAbout
  <1> HIDE DEF n
  <1> QED BY <1>1, <1>3

LEMMA NameIs ==
  ASSUME IInv, CaughtUp, NEW id \in ToolIDs, NEW x, Tracks(At(NameEvents(id)), next, x, CallOf(id))
  PROVE  NameOf(id) = stream[x].name
  <1> DEFINE I == {n \in 1..Len(stream) : /\ stream[n].type = "tool_call_update" /\ stream[n].id = id
                                         /\ stream[n].name # NoName}
             u == IF I # {} THEN Max(I) ELSE 0
             n == IF u = 0 THEN CallOf(id) ELSE u
  <1>1. NameOf(id) = stream[n].name
    BY DEF NameOf, LastAbout, SelectLastInSeq
  <1>2. I = At(NameEvents(id))
    <2>1. \A m \in 1..Len(stream) : stream[m] \in Events
      BY ElementOfSeq DEF IInv, TypeOK
    <2> QED BY <2>1, AllBehind DEF At, Positions, NameEvents, UpdateEvents
  <1> HIDE DEF I, u
  <1>3. x = n
    <2>1. u = IF I # {} THEN Max(I) ELSE 0
      BY DEF u
    <2> QED BY <1>2, <2>1, TracksAbout
  <1> HIDE DEF n
  <1> QED BY <1>1, <1>3

LEMMA InputIs ==
  ASSUME IInv, CaughtUp, NEW id \in ToolIDs, NEW x, Tracks(At(InputEvents(id)), next, x, CallOf(id))
  PROVE  InputOf(id) = x
  <1> DEFINE I == {n \in 1..Len(stream) : /\ stream[n].type = "tool_call_update" /\ stream[n].id = id
                                         /\ stream[n].input}
             u == IF I # {} THEN Max(I) ELSE 0
             n == IF u = 0 THEN CallOf(id) ELSE u
  <1>1. InputOf(id) = n
    BY DEF InputOf, LastAbout, SelectLastInSeq
  <1>2. I = At(InputEvents(id))
    <2>1. \A m \in 1..Len(stream) : stream[m] \in Events
      BY ElementOfSeq DEF IInv, TypeOK
    <2> QED BY <2>1, AllBehind DEF At, Positions, InputEvents, UpdateEvents
  <1> HIDE DEF I, u
  <1>3. x = n
    <2>1. u = IF I # {} THEN Max(I) ELSE 0
      BY DEF u
    <2> QED BY <1>2, <2>1, TracksAbout
  <1> HIDE DEF n
  <1> QED BY <1>1, <1>3

(* applyTools in timeline.go: when the stream has been gone through, also  *)
(* after replays, the jump index lists each call once, in the order of the *)
(* calls, and the entry has the last status, name and input reported.      *)
THEOREM ToolsAreCorrect == Spec => []ToolsCorrect
  <1>1. IInv => ToolsCorrect
    <2> SUFFICES ASSUME IInv, CaughtUp PROVE ToolsCorrect
      BY DEF ToolsCorrect
    <2>1. {id \in ToolIDs : CallOf(id) # 0} = Called
      BY CallOfIs DEF Called
    <2>2. DOMAIN toolIdx = Called /\ Len(tools) = Cardinality(Called)
      BY DEF IInv, FoldOK, IndexOK
    <2>3. ASSUME NEW id \in Called, NEW r, r = tools[toolIdx[id]]
          PROVE  r.id = id /\ <<r.status, r.name, r.input>> = <<StatusOf(id), NameOf(id), InputOf(id)>>
      <3> DEFINE c == CallOf(id)
      <3>1. id \in ToolIDs /\ c \in At(CallEvents(id))
        <4>1. id \in ToolIDs
          BY DEF Called
        <4> QED BY <4>1, CallOfIs
      <3> HIDE DEF c
      <3>2. EntryOK(r, id, c, stream, next)
        BY <2>3, <3>1 DEF IInv, FoldOK, EntriesOK
      <3>3. r.status = StatusOf(id)
        <4>1. PICK x : /\ Tracks(At(StatusEvents(id)), next, x, c)
                       /\ r.status = IF x = c THEN "running" ELSE stream[x].status
          BY <3>2 DEF EntryOK, At
        <4> QED BY <3>1, <4>1, StatusIs DEF c
      <3>4. r.name = NameOf(id)
        <4>1. PICK x : Tracks(At(NameEvents(id)), next, x, c) /\ r.name = stream[x].name
          BY <3>2 DEF EntryOK, At
        <4> QED BY <3>1, <4>1, NameIs DEF c
      <3>5. r.input = InputOf(id)
        <4>1. Tracks(At(InputEvents(id)), next, r.input, c)
          BY <3>2 DEF EntryOK, At
        <4> QED BY <3>1, <4>1, InputIs DEF c
      <3>6. r.id = id
        BY <2>3 DEF IInv, FoldOK, IndexOK
      <3> QED BY <3>3, <3>4, <3>5, <3>6
    <2>4. \A id, jd \in Called : CallOf(id) < CallOf(jd) => toolIdx[id] < toolIdx[jd]
      <3> SUFFICES ASSUME NEW id \in Called, NEW jd \in Called, CallOf(id) < CallOf(jd)
                   PROVE  toolIdx[id] < toolIdx[jd]
        OBVIOUS
      <3>1. id \in ToolIDs /\ jd \in ToolIDs
        BY DEF Called
      <3>2. CallOf(id) \in At(CallEvents(id)) /\ CallOf(jd) \in At(CallEvents(jd))
        BY <3>1, CallOfIs
      <3> QED BY <3>2 DEF IInv, FoldOK, IndexOK
    <2> QED BY <2>1, <2>2, <2>3, <2>4 DEF ToolsCorrect
  <1> QED BY <1>1, InductiveInvariant, PTL

-----------------------------------------------------------------------------
(* The frames that are broadcast *)

Frames ==
    [kind : Chunks \cup {"block"}, parts : Seq(1..MaxEvents)]
    \cup [kind : {"card"}, parts : Seq(1..MaxEvents), id : ToolIDs \cup {NoID}, name : Names,
          input : 1..MaxEvents]
    \cup [kind : {"status"}, parts : Seq(1..MaxEvents), id : ToolIDs, status : {"running", "completed"}]
    \cup [kind : {"refine"}, parts : Seq(1..MaxEvents), id : ToolIDs, name : Names,
          input : 1..MaxEvents]

HasCard(s, id) == \E j \in 1..Len(s) : Shows(s[j], {"card"}, id)

SwapsHaveCards(s) ==
    \A i \in 1..Len(s) :
        s[i].kind \in {"status", "refine"} => \E j \in 1..i - 1 : Shows(s[j], {"card"}, s[i].id)

(* g is the last frame of s that is of kinds and about id. *)
LastShown(s, kinds, id, g) ==
    \E i \in 1..Len(s) :
        /\ s[i] = g /\ Shows(g, kinds, id)
        /\ \A j \in 1..Len(s) : Shows(s[j], kinds, id) => j <= i

NamedAs(s, r) ==
    \E g : LastShown(s, {"card", "refine"}, r.id, g) /\ g.name = r.name /\ g.input = r.input
ChipIs(s, r) ==
    \E g : /\ LastShown(s, {"card", "status"}, r.id, g)
           /\ (IF g.kind = "card" THEN "running" ELSE g.status) = r.status

FramesOK ==
    /\ shown \in Seq(Frames) /\ SwapsHaveCards(shown)
    /\ \A id \in Called : HasCard(shown, id)
    /\ replays = 0 =>
          /\ next = Len(stream) + 1
          /\ \A k \in 1..Len(tools) : NamedAs(shown, tools[k]) /\ ChipIs(shown, tools[k])

(* Frames that are not about calls change nothing of this. *)
Keeps(s, t) ==
    /\ t \in Seq(Frames)
    /\ SwapsHaveCards(s) => SwapsHaveCards(t)
    /\ \A id : HasCard(s, id) => HasCard(t, id)
    /\ \A r : (NamedAs(s, r) => NamedAs(t, r)) /\ (ChipIs(s, r) => ChipIs(t, r))

LEMMA OneMore ==
  ASSUME NEW s \in Seq(Frames), NEW f \in Frames, NEW t, t = s \o <<f>>
  PROVE  /\ t \in Seq(Frames) /\ Len(s) \in Nat /\ Len(t) = Len(s) + 1 /\ t[Len(s) + 1] = f
         /\ \A j \in 1..Len(s) : t[j] = s[j]
  <1>1. t = Append(s, f)
    BY AppendIsConcat
  <1> QED BY <1>1, AppendProperties, LenProperties

LEMMA LastShownNext ==
  ASSUME NEW s \in Seq(Frames), NEW f \in Frames, NEW kinds, NEW id
  PROVE  /\ Shows(f, kinds, id) => LastShown(s \o <<f>>, kinds, id, f)
         /\ \A g : LastShown(s, kinds, id, g) /\ ~Shows(f, kinds, id) => LastShown(s \o <<f>>, kinds, id, g)
  <1> DEFINE t == s \o <<f>>
             n == Len(s) + 1
  <1>1. /\ Len(s) \in Nat /\ Len(t) = n /\ t[n] = f /\ \A j \in 1..Len(s) : t[j] = s[j]
    BY OneMore
  <1>2. n \in 1..Len(t) /\ \A j \in 1..Len(t) : j <= n /\ (j \in 1..Len(s) \/ j = n)
    BY <1>1
  <1>3. \A i \in 1..Len(s) : i \in 1..Len(t)
    BY <1>1
  <1> HIDE DEF t, n
  <1>4. ASSUME Shows(f, kinds, id) PROVE LastShown(t, kinds, id, f)
    BY <1>1, <1>2, <1>4 DEF LastShown
  <1>5. ASSUME NEW g, LastShown(s, kinds, id, g), ~Shows(f, kinds, id) PROVE LastShown(t, kinds, id, g)
    <2>1. PICK i \in 1..Len(s) : /\ s[i] = g /\ Shows(g, kinds, id)
                                 /\ \A j \in 1..Len(s) : Shows(s[j], kinds, id) => j <= i
      BY <1>5 DEF LastShown
    <2>2. \A j \in 1..Len(t) : Shows(t[j], kinds, id) => j <= i
      BY <1>1, <1>2, <1>5, <2>1
    <2> QED BY <1>1, <1>3, <2>1, <2>2 DEF LastShown
  <1> QED BY <1>4, <1>5 DEF t

LEMMA CardsNext ==
  ASSUME NEW s \in Seq(Frames), NEW f \in Frames
  PROVE  /\ \A id : HasCard(s, id) \/ Shows(f, {"card"}, id) => HasCard(s \o <<f>>, id)
         /\ SwapsHaveCards(s) /\ (f.kind \in {"status", "refine"} => HasCard(s, f.id))
               => SwapsHaveCards(s \o <<f>>)
  <1> DEFINE t == s \o <<f>>
             n == Len(s) + 1
  <1>1. /\ Len(s) \in Nat /\ Len(t) = n /\ t[n] = f /\ \A j \in 1..Len(s) : t[j] = s[j]
    BY OneMore
  <1>2. n \in 1..Len(t) /\ \A j \in 1..Len(t) : j \in 1..Len(s) \/ j = n
    BY <1>1
  <1>3. \A i \in 1..Len(s) : i \in 1..Len(t) /\ i \in 1..n - 1 /\ 1..i - 1 \subseteq 1..Len(s)
    BY <1>1
  <1> HIDE DEF t, n
  <1>4. ASSUME NEW id, HasCard(s, id) \/ Shows(f, {"card"}, id) PROVE HasCard(t, id)
    BY <1>1, <1>2, <1>3, <1>4 DEF HasCard
  <1>5. ASSUME SwapsHaveCards(s), f.kind \in {"status", "refine"} => HasCard(s, f.id)
        PROVE  SwapsHaveCards(t)
    <2> SUFFICES ASSUME NEW i \in 1..Len(t), t[i].kind \in {"status", "refine"}
                 PROVE  \E j \in 1..i - 1 : Shows(t[j], {"card"}, t[i].id)
      BY DEF SwapsHaveCards
    <2>1. CASE i \in 1..Len(s)
      <3>1. PICK j \in 1..i - 1 : Shows(s[j], {"card"}, s[i].id)
        BY <1>1, <1>5, <2>1 DEF SwapsHaveCards
      <3> QED BY <1>1, <1>3, <2>1, <3>1
    <2>2. CASE i = n
      <3>1. PICK j \in 1..Len(s) : Shows(s[j], {"card"}, f.id)
        BY <1>1, <1>5, <2>2 DEF HasCard
      <3> QED BY <1>1, <1>3, <2>2, <3>1
    <2> QED BY <1>2, <2>1, <2>2
  <1> QED BY <1>4, <1>5 DEF t

LEMMA QuietKeeps ==
  ASSUME NEW s \in Seq(Frames), NEW w, \/ w = <<>>
                                       \/ \E f \in Frames : w = <<f>> /\ f.kind \in Chunks \cup {"block"}
  PROVE  Keeps(s, s \o w)
  <1>1. CASE w = <<>>
    <2>1. s \o w = s
      BY <1>1, ConcatEmptySeq
    <2> QED BY <2>1 DEF Keeps
  <1>2. CASE w # <<>>
    <2>1. PICK f \in Frames : w = <<f>> /\ f.kind \in Chunks \cup {"block"}
      BY <1>2
    <2>2. f.kind \notin {"card", "status", "refine"}
      BY <2>1 DEF Chunks
    <2>3. \A kinds, id : kinds \subseteq {"card", "status", "refine"} => ~Shows(f, kinds, id)
      BY <2>2 DEF Shows
    <2>4. s \o w \in Seq(Frames)
      BY <2>1, OneMore
    <2>5. \A kinds, id, g : kinds \subseteq {"card", "status", "refine"} /\ LastShown(s, kinds, id, g)
                            => LastShown(s \o w, kinds, id, g)
      BY <2>1, <2>3, LastShownNext
    <2>6. \A r : (NamedAs(s, r) => NamedAs(s \o w, r)) /\ (ChipIs(s, r) => ChipIs(s \o w, r))
      BY <2>5 DEF NamedAs, ChipIs
    <2> QED BY <2>1, <2>2, <2>4, <2>6, CardsNext DEF Keeps
  <1> QED BY <1>1, <1>2

(* A frame that is about another call does not change what a call shows. *)
LEMMA OtherCall ==
  ASSUME NEW s \in Seq(Frames), NEW f \in Frames, NEW r, f.id # r.id
  PROVE  /\ NamedAs(s, r) => NamedAs(s \o <<f>>, r)
         /\ ChipIs(s, r) => ChipIs(s \o <<f>>, r)
  <1>1. \A kinds : ~Shows(f, kinds, r.id)
    BY DEF Shows
  <1>2. \A kinds, g : LastShown(s, kinds, r.id, g) => LastShown(s \o <<f>>, kinds, r.id, g)
    BY <1>1, LastShownNext
  <1> QED BY <1>2 DEF NamedAs, ChipIs

LEMMA FlushKeeps ==
  ASSUME IInv, NEW s \in Seq(Frames)
  PROVE  Keeps(s, s \o Flushed)
  <1>1. CASE buf = <<>>
    BY <1>1, QuietKeeps DEF Flushed
  <1>2. CASE buf # <<>>
    <2>1. kind \in Chunks /\ buf \in Seq(1..MaxEvents)
      BY <1>2 DEF IInv, TypeOK
    <2>2. Text(kind, buf) \in Frames /\ Text(kind, buf).kind \in Chunks \cup {"block"}
      BY <2>1 DEF Text, Frames
    <2>3. Flushed = <<Text(kind, buf)>>
      BY <1>2 DEF Flushed
    <2> QED BY <2>2, <2>3, QuietKeeps
  <1> QED BY <1>1, <1>2

LEMMA KeepsTwice ==
  ASSUME NEW s, NEW t, NEW u, Keeps(s, t), Keeps(t, u)
  PROVE  Keeps(s, u)
  BY DEF Keeps

LEMMA OneLonger ==
  ASSUME NEW m \in Nat, NEW n \in Nat, 1..n = (1..m) \cup {m + 1}
  PROVE  n = m + 1
  <1>1. m + 1 \in 1..n
    OBVIOUS
  <1>2. n \in 1..m \/ n = m + 1
    BY <1>1
  <1> QED BY <1>1, <1>2

(* Without a replay all events are new. *)
LEMMA NoReplayNext ==
  ASSUME IInv, FramesOK, NEW e \in Events, IsNext(e), replays' = 0
  PROVE  /\ replays = 0 /\ next = Len(stream) + 1 /\ next \notin DOMAIN stream
         /\ next' = Len(stream') + 1
  <1>1. replays = 0 /\ next = Len(stream) + 1 /\ Len(stream) \in Nat /\ Len(stream') \in Nat
    BY LenProperties DEF IsNext, FramesOK, IInv, TypeOK
  <1>2. /\ DOMAIN stream = 1..Len(stream) /\ DOMAIN stream' = 1..Len(stream')
        /\ DOMAIN stream' = DOMAIN stream \cup {next} /\ next \in 1..Len(stream')
    BY LenProperties DEF IsNext
  <1>3. 1..Len(stream') = (1..Len(stream)) \cup {Len(stream) + 1}
    BY <1>1, <1>2
  <1>4. Len(stream') = next
    BY <1>1, <1>3, OneLonger
  <1>5. next \notin DOMAIN stream
    BY <1>1, <1>2
  <1>6. next' = next + 1
    BY DEF IsNext
  <1> QED BY <1>1, <1>4, <1>5, <1>6

LEMMA KeepsFrames ==
  ASSUME IInv, FramesOK, NEW e \in Events, IsNext(e), IndexKept(e), Keeps(shown, shown')
  PROVE  FramesOK'
  <1>1. Called' = Called /\ tools' = tools
    BY DEF IndexKept, Called
  <1>2. shown' \in Seq(Frames) /\ SwapsHaveCards(shown') /\ \A id \in Called' : HasCard(shown', id)
    BY <1>1 DEF FramesOK, Keeps
  <1>3. ASSUME replays' = 0
        PROVE  /\ next' = Len(stream') + 1
               /\ \A k \in 1..Len(tools') : NamedAs(shown', tools'[k]) /\ ChipIs(shown', tools'[k])
    <2>1. replays = 0 /\ next' = Len(stream') + 1
      BY <1>3, NoReplayNext
    <2> QED BY <1>1, <2>1 DEF FramesOK, Keeps
  <1> QED BY <1>2, <1>3 DEF FramesOK

(* A card of a call that the index does not take: it has no id, or it is   *)
(* known, in a replay.                                                     *)
LEMMA KeptFrames ==
  ASSUME IInv, FramesOK, NEW e \in Events, IsNext(e), IndexKept(e)
  PROVE  FramesOK'
  <1> DEFINE flushed == shown \o Flushed
  <1>1. shown \in Seq(Frames) /\ shown \o <<>> = shown
    BY ConcatEmptySeq DEF FramesOK
  <1>2. Keeps(shown, flushed) /\ flushed \in Seq(Frames) /\ flushed \o <<>> = flushed
    <2>1. Keeps(shown, flushed) /\ flushed \in Seq(Frames)
      BY <1>1, FlushKeeps DEF Keeps
    <2> QED BY <2>1, ConcatEmptySeq
  <1>3. Keeps(shown, shown)
    BY <1>1 DEF Keeps
  <1>4. next \in 1..MaxEvents
    BY DEF IsNext
  <1>5. CASE e.type # "tool_call"
    <2>1. \/ shown' = shown \/ shown' = flushed
          \/ shown' = flushed \o <<Block(next)>>
      <3> HIDE DEF flushed
      <3>1. CASE Chunk(next, e) \/ GarbledChunk(e)
        BY <3>1 DEF Chunk, GarbledChunk, flushed
      <3>2. CASE Discrete(next, e) \/ UsageEvent(next, e)
        BY <1>1, <1>2, <3>2 DEF Discrete, UsageEvent, FlushBetween, flushed
      <3>3. CASE ToolCallUpdate(next, e)
        <4>1. e.id \notin DOMAIN toolIdx
          <5>1. e.id \in ToolIDs /\ e \in UpdateEvents(e.id)
            BY <3>3, EventIsTyped DEF ToolCallUpdate, UpdateEvents
          <5> QED BY <5>1 DEF IndexKept, IInv, FoldOK, IndexOK
        <4> QED BY <1>1, <1>2, <3>3, <4>1 DEF ToolCallUpdate, FlushBetween, flushed
      <3> QED BY <1>5, <3>1, <3>2, <3>3 DEF IsNext, OnPush, ToolCall
    <2>2. Keeps(flushed, flushed \o <<Block(next)>>)
      <3>1. <<next>> \in Seq(1..MaxEvents)
        BY <1>4
      <3>2. Block(next) \in Frames /\ Block(next).kind = "block"
        BY <3>1 DEF Block, Frames
      <3> HIDE DEF flushed
      <3> QED BY <1>2, <3>2, QuietKeeps
    <2> HIDE DEF flushed
    <2>3. Keeps(shown, shown')
      <3>1. CASE shown' = shown
        BY <1>3, <3>1
      <3>2. CASE shown' = flushed
        BY <1>2, <3>2
      <3>3. CASE shown' = flushed \o <<Block(next)>>
        <4>1. Keeps(shown, flushed \o <<Block(next)>>)
          BY <1>2, <2>2, KeepsTwice
        <4> QED BY <3>3, <4>1
      <3> QED BY <2>1, <3>1, <3>2, <3>3
    <2> QED BY <2>3, KeepsFrames
  <1>6. CASE e.type = "tool_call"
    <2>1. shown' = flushed \o <<Card(next, e)>>
      BY <1>1, <1>6 DEF IsNext, OnPush, Chunk, GarbledChunk, Discrete, UsageEvent, ToolCall,
                        ToolCallUpdate, FlushBetween, Chunks
    <2>2. Card(next, e) \in Frames /\ Card(next, e).kind = "card" /\ Card(next, e).id = e.id
      <3>1. e.id \in ToolIDs \cup {NoID} /\ e.name \in Names
        BY <1>6, EventIsTyped
      <3>2. <<next>> \in Seq(1..MaxEvents)
        BY <1>4
      <3> QED BY <1>4, <3>1, <3>2 DEF Card, Frames
    <2> DEFINE f == Card(next, e)
    <2> HIDE DEF flushed, f
    <2>3. Called' = Called /\ tools' = tools
      BY DEF IndexKept, Called
    <2>4. shown' \in Seq(Frames)
      BY <1>2, <2>1, <2>2, OneMore
    <2>5. SwapsHaveCards(shown') /\ \A id \in Called' : HasCard(shown', id)
      <3>1. SwapsHaveCards(flushed) /\ \A id \in Called : HasCard(flushed, id)
        BY <1>2 DEF Keeps, FramesOK
      <3> QED BY <1>2, <2>1, <2>2, <2>3, <3>1, CardsNext
    <2>6. ASSUME replays' = 0
          PROVE  /\ next' = Len(stream') + 1
                 /\ \A k \in 1..Len(tools') : NamedAs(shown', tools'[k]) /\ ChipIs(shown', tools'[k])
      <3>1. replays = 0 /\ next' = Len(stream') + 1 /\ next \notin DOMAIN stream
        BY <2>6, NoReplayNext
      <3>2. e.id \notin ToolIDs
        <4> SUFFICES ASSUME e.id \in ToolIDs PROVE FALSE
          OBVIOUS
        <4>1. e \in CallEvents(e.id)
          BY <1>6 DEF CallEvents
        <4>2. next \in At(CallEvents(e.id))
          BY <4>1, AtNext DEF IndexKept
        <4> QED BY <3>1, <4>2 DEF At, Positions
      <3> SUFFICES ASSUME NEW k \in 1..Len(tools)
                   PROVE  NamedAs(shown', tools[k]) /\ ChipIs(shown', tools[k])
        BY <2>3, <3>1
      <3>3. tools[k].id \in ToolIDs
        BY DEF IInv, FoldOK, IndexOK, Called
      <3>4. NamedAs(flushed, tools[k]) /\ ChipIs(flushed, tools[k])
        BY <1>2, <3>1 DEF FramesOK, Keeps
      <3> QED BY <1>2, <2>1, <2>2, <3>2, <3>3, <3>4, OtherCall
    <2> QED BY <2>4, <2>5, <2>6 DEF FramesOK
  <1> QED BY <1>5, <1>6

(* The card of a call that the index takes. *)
LEMMA GrowsFrames ==
  ASSUME IInv, FramesOK, NEW e \in Events, IsNext(e), IndexGrows(e)
  PROVE  FramesOK'
  <1> DEFINE flushed == shown \o Flushed
             f == Card(next, e)
             r == NewRef(next, e)
  <1>1. shown \in Seq(Frames) /\ shown \o <<>> = shown
    BY ConcatEmptySeq DEF FramesOK
  <1>2. Keeps(shown, flushed) /\ flushed \in Seq(Frames)
    BY <1>1, FlushKeeps DEF Keeps
  <1>3. e.type = "tool_call" /\ e.id \in ToolIDs \ Called /\ tools' = Append(tools, r)
    BY DEF IndexGrows
  <1>4. shown' = flushed \o <<f>>
    BY <1>1, <1>3 DEF IsNext, OnPush, Chunk, GarbledChunk, Discrete, UsageEvent, ToolCall,
                      ToolCallUpdate, FlushBetween, Chunks
  <1>5. f \in Frames /\ f.kind = "card" /\ f.id = e.id /\ f.name = e.name /\ f.input = next
    <2>1. e.name \in Names
      BY <1>3, EventIsTyped
    <2>2. <<next>> \in Seq(1..MaxEvents) /\ next \in 1..MaxEvents
      BY DEF IsNext
    <2> QED BY <1>3, <2>1, <2>2 DEF Card, Frames
  <1>6. r.id = e.id /\ r.name = e.name /\ r.input = next /\ r.status = "running"
    BY DEF NewRef
  <1>7. /\ Len(tools') = Len(tools) + 1 /\ Len(tools) \in Nat /\ tools'[Len(tools) + 1] = r
        /\ \A k \in 1..Len(tools) : tools'[k] = tools[k]
    <2>1. tools \in Seq(Refs)
      BY DEF IInv, TypeOK
    <2>2. r \in Refs
      <3>1. e.name \in Names /\ next \in 1..MaxEvents /\ ToolKind(e.name) \in {"edit", "tool"}
        BY <1>3, EventIsTyped DEF IsNext, ToolKind
      <3> QED BY <1>3, <3>1 DEF NewRef, Refs
    <2> HIDE DEF r
    <2> QED BY <1>3, <2>1, <2>2, AppendProperties, LenProperties
  <1> HIDE DEF flushed, f, r
  <1>8. Called' \subseteq Called \cup {e.id}
    <2>1. \A id \in ToolIDs \ {e.id} : e \notin CallEvents(id)
      BY DEF CallEvents
    <2> QED BY <2>1, AtNext DEF Called
  <1>9. shown' \in Seq(Frames)
    BY <1>2, <1>4, <1>5, OneMore
  <1>10. SwapsHaveCards(shown') /\ \A id \in Called' : HasCard(shown', id)
    <2>1. SwapsHaveCards(flushed) /\ \A id \in Called : HasCard(flushed, id)
      BY <1>2 DEF Keeps, FramesOK
    <2>2. Shows(f, {"card"}, e.id)
      BY <1>5 DEF Shows
    <2> QED BY <1>2, <1>4, <1>5, <1>8, <2>1, <2>2, CardsNext
  <1>11. ASSUME replays' = 0
         PROVE  /\ next' = Len(stream') + 1
                /\ \A k \in 1..Len(tools') : NamedAs(shown', tools'[k]) /\ ChipIs(shown', tools'[k])
    <2>1. replays = 0 /\ next' = Len(stream') + 1
      BY <1>11, NoReplayNext
    <2>2. ASSUME NEW k \in 1..Len(tools)
          PROVE  NamedAs(shown', tools'[k]) /\ ChipIs(shown', tools'[k])
      <3>1. tools[k].id \in Called
        BY DEF IInv, FoldOK, IndexOK
      <3>2. NamedAs(flushed, tools[k]) /\ ChipIs(flushed, tools[k])
        BY <1>2, <2>1 DEF FramesOK, Keeps
      <3> QED BY <1>2, <1>3, <1>4, <1>5, <1>7, <3>1, <3>2, OtherCall
    <2>3. NamedAs(shown', r) /\ ChipIs(shown', r)
      <3>1. Shows(f, {"card", "refine"}, r.id) /\ Shows(f, {"card", "status"}, r.id)
        BY <1>5, <1>6 DEF Shows
      <3>2. LastShown(shown', {"card", "refine"}, r.id, f) /\ LastShown(shown', {"card", "status"}, r.id, f)
        BY <1>2, <1>4, <1>5, <3>1, LastShownNext
      <3> QED BY <1>5, <1>6, <3>2 DEF NamedAs, ChipIs
    <2>4. \A k \in 1..Len(tools') : k \in 1..Len(tools) \/ k = Len(tools) + 1
      BY <1>7
    <2> QED BY <1>7, <2>1, <2>2, <2>3, <2>4
  <1> QED BY <1>9, <1>10, <1>11 DEF FramesOK

(* The swaps of an update, one frame at a time.                            *)
LEMMA StatusSwap ==
  ASSUME NEW s \in Seq(Frames), SwapsHaveCards(s), NEW r \in Refs, NEW u \in Refs, u.id = r.id,
         HasCard(s, r.id), NEW w, \/ w = <<>> /\ u.status = r.status
                                  \/ w = <<Status(u)>>,
         NEW t, t = s \o w
  PROVE  /\ t \in Seq(Frames) /\ SwapsHaveCards(t)
         /\ \A id : HasCard(s, id) => HasCard(t, id)
         /\ \A q : q.id # r.id => (NamedAs(s, q) => NamedAs(t, q)) /\ (ChipIs(s, q) => ChipIs(t, q))
         /\ (NamedAs(s, r) => NamedAs(t, r)) /\ (ChipIs(s, r) => ChipIs(t, u))
  <1>1. CASE w = <<>> /\ u.status = r.status
    <2>1. t = s
      BY <1>1, ConcatEmptySeq
    <2>2. ChipIs(s, r) => ChipIs(s, u)
      BY <1>1 DEF ChipIs
    <2> QED BY <2>1, <2>2
  <1>2. CASE w = <<Status(u)>>
    <2> DEFINE f == Status(u)
    <2>1. f \in Frames /\ f.kind = "status" /\ f.id = r.id /\ f.status = u.status
      <3>1. <<>> \in Seq(1..MaxEvents)
        BY EmptySeq
      <3>2. u.id \in ToolIDs /\ u.status \in {"running", "completed"}
        BY DEF Refs
      <3> QED BY <3>1, <3>2 DEF Status, Frames
    <2> HIDE DEF f
    <2>2. t = s \o <<f>>
      BY <1>2 DEF f
    <2>3. t \in Seq(Frames) /\ SwapsHaveCards(t) /\ \A id : HasCard(s, id) => HasCard(t, id)
      BY <2>1, <2>2, OneMore, CardsNext
    <2>4. \A q : q.id # r.id => (NamedAs(s, q) => NamedAs(t, q)) /\ (ChipIs(s, q) => ChipIs(t, q))
      BY <2>1, <2>2, OtherCall
    <2>5. NamedAs(s, r) => NamedAs(t, r)
      <3>1. ~Shows(f, {"card", "refine"}, r.id)
        BY <2>1 DEF Shows
      <3>2. \A g : LastShown(s, {"card", "refine"}, r.id, g) => LastShown(t, {"card", "refine"}, r.id, g)
        BY <2>1, <2>2, <3>1, LastShownNext
      <3> QED BY <3>2 DEF NamedAs
    <2>6. ChipIs(t, u)
      <3>1. Shows(f, {"card", "status"}, u.id)
        BY <2>1 DEF Shows
      <3>2. LastShown(t, {"card", "status"}, u.id, f)
        BY <2>1, <2>2, <3>1, LastShownNext
      <3> QED BY <2>1, <3>2 DEF ChipIs
    <2> QED BY <2>3, <2>4, <2>5, <2>6
  <1> QED BY <1>1, <1>2

LEMMA RefineSwap ==
  ASSUME NEW s \in Seq(Frames), SwapsHaveCards(s), NEW r \in Refs, NEW u \in Refs, u.id = r.id,
         HasCard(s, r.id), NEW w, \/ w = <<>> /\ u.name = r.name /\ u.input = r.input
                                  \/ w = <<Refine(u)>>,
         NEW t, t = s \o w
  PROVE  /\ t \in Seq(Frames) /\ SwapsHaveCards(t)
         /\ \A id : HasCard(s, id) => HasCard(t, id)
         /\ \A q : q.id # r.id => (NamedAs(s, q) => NamedAs(t, q)) /\ (ChipIs(s, q) => ChipIs(t, q))
         /\ (NamedAs(s, r) => NamedAs(t, u)) /\ (ChipIs(s, u) => ChipIs(t, u))
  <1>1. CASE w = <<>> /\ u.name = r.name /\ u.input = r.input
    <2>1. t = s
      BY <1>1, ConcatEmptySeq
    <2>2. NamedAs(s, r) => NamedAs(s, u)
      BY <1>1 DEF NamedAs
    <2> QED BY <2>1, <2>2
  <1>2. CASE w = <<Refine(u)>>
    <2> DEFINE f == Refine(u)
    <2>1. f \in Frames /\ f.kind = "refine" /\ f.id = r.id /\ f.name = u.name /\ f.input = u.input
      <3>1. <<>> \in Seq(1..MaxEvents)
        BY EmptySeq
      <3>2. u.id \in ToolIDs /\ u.name \in Names /\ u.input \in 1..MaxEvents
        BY DEF Refs
      <3> QED BY <3>1, <3>2 DEF Refine, Frames
    <2> HIDE DEF f
    <2>2. t = s \o <<f>>
      BY <1>2 DEF f
    <2>3. t \in Seq(Frames) /\ SwapsHaveCards(t) /\ \A id : HasCard(s, id) => HasCard(t, id)
      BY <2>1, <2>2, OneMore, CardsNext
    <2>4. \A q : q.id # r.id => (NamedAs(s, q) => NamedAs(t, q)) /\ (ChipIs(s, q) => ChipIs(t, q))
      BY <2>1, <2>2, OtherCall
    <2>5. NamedAs(t, u)
      <3>1. Shows(f, {"card", "refine"}, u.id)
        BY <2>1 DEF Shows
      <3>2. LastShown(t, {"card", "refine"}, u.id, f)
        BY <2>1, <2>2, <3>1, LastShownNext
      <3> QED BY <2>1, <3>2 DEF NamedAs
    <2>6. ChipIs(s, u) => ChipIs(t, u)
      <3>1. ~Shows(f, {"card", "status"}, u.id)
        BY <2>1 DEF Shows
      <3>2. \A g : LastShown(s, {"card", "status"}, u.id, g) => LastShown(t, {"card", "status"}, u.id, g)
        BY <2>1, <2>2, <3>1, LastShownNext
      <3> QED BY <3>2 DEF ChipIs
    <2> QED BY <2>3, <2>4, <2>5, <2>6
  <1> QED BY <1>1, <1>2

LEMMA SwapIsFrame ==
  ASSUME NEW u \in Refs
  PROVE  Status(u) \in Frames /\ Refine(u) \in Frames
  <1>1. <<>> \in Seq(1..MaxEvents)
    BY EmptySeq
  <1>2. /\ u.id \in ToolIDs /\ u.name \in Names /\ u.input \in 1..MaxEvents
        /\ u.status \in {"running", "completed"}
    BY DEF Refs
  <1>3. Status(u) \in Frames
    BY <1>1, <1>2 DEF Status, Frames
  <1>4. Refine(u) \in Frames
    BY <1>1, <1>2 DEF Refine, Frames
  <1> QED BY <1>3, <1>4

LEMMA ChangesFrames ==
  ASSUME IInv, FramesOK, NEW e \in Events, IsNext(e), IndexChanges(e)
  PROVE  FramesOK'
  <1> DEFINE i == toolIdx[e.id]
             r == tools[i]
             u == Updated(r, next, e)
             swapped == shown \o (IF e.status # "" THEN <<Status(u)>> ELSE <<>>)
             refined == swapped \o (IF Refines(r, e) THEN <<Refine(u)>> ELSE <<>>)
  <1>1. /\ e.type = "tool_call_update" /\ e.id \in Called /\ toolIdx' = toolIdx
        /\ tools' = [tools EXCEPT ![i] = u] /\ DOMAIN toolIdx = Called
    BY DEF IndexChanges, IInv, FoldOK, IndexOK
  <1>2. /\ i \in 1..Len(tools) /\ r.id = e.id /\ r \in Refs /\ tools \in Seq(Refs)
        /\ \A k \in 1..Len(tools) : k # i => tools[k].id # e.id
    <2>1. i \in 1..Len(tools) /\ r.id = e.id
      BY <1>1 DEF IInv, FoldOK, IndexOK
    <2>2. tools \in Seq(Refs)
      BY DEF IInv, TypeOK
    <2>3. r \in Refs
      BY <2>1, <2>2, ElementOfSeq
    <2>4. \A k \in 1..Len(tools) : tools[k].id = e.id => k = i
      BY DEF IInv, FoldOK, IndexOK
    <2> QED BY <2>1, <2>2, <2>3, <2>4
  <1> HIDE DEF i, r
  <1>3. /\ u \in Refs /\ u.id = r.id
        /\ e.status = "" => u.status = r.status
        /\ ~Refines(r, e) => u.name = r.name /\ u.input = r.input
    <2>1. /\ e.status \in {"", "completed"} /\ e.name \in Names \cup {NoName} /\ next \in 1..MaxEvents
          /\ e.input \in BOOLEAN
      BY <1>1, EventIsTyped DEF IsNext
    <2>2. u \in Refs
      BY <1>2, <2>1 DEF Updated, Refs
    <2>3. u.id = r.id /\ (e.status = "" => u.status = r.status)
      BY <1>2 DEF Updated, Refs
    <2>4. ASSUME ~Refines(r, e) PROVE u.name = r.name /\ u.input = r.input
      <3>1. ~e.input /\ e.name \in {NoName, r.name}
        BY <2>4 DEF Refines
      <3> QED BY <1>2, <3>1 DEF Updated, Refs
    <2> QED BY <2>2, <2>3, <2>4
  <1> HIDE DEF u
  <1>4. shown \in Seq(Frames) /\ SwapsHaveCards(shown) /\ HasCard(shown, r.id)
    BY <1>1, <1>2 DEF FramesOK
  <1>5. /\ swapped \in Seq(Frames) /\ SwapsHaveCards(swapped)
        /\ \A id : HasCard(shown, id) => HasCard(swapped, id)
        /\ \A q : q.id # r.id => /\ NamedAs(shown, q) => NamedAs(swapped, q)
                                 /\ ChipIs(shown, q) => ChipIs(swapped, q)
        /\ NamedAs(shown, r) => NamedAs(swapped, r)
        /\ ChipIs(shown, r) => ChipIs(swapped, u)
    <2> DEFINE w == IF e.status # "" THEN <<Status(u)>> ELSE <<>>
    <2>1. (w = <<>> /\ u.status = r.status) \/ w = <<Status(u)>>
      BY <1>3
    <2>2. r \in Refs /\ u \in Refs /\ u.id = r.id
      BY <1>2, <1>3
    <2>3. swapped = shown \o w
      OBVIOUS
    <2> HIDE DEF w, swapped
    <2> QED BY <1>4, <2>1, <2>2, <2>3, StatusSwap
  <1> HIDE DEF swapped
  <1>6. /\ refined \in Seq(Frames) /\ SwapsHaveCards(refined)
        /\ \A id : HasCard(swapped, id) => HasCard(refined, id)
        /\ \A q : q.id # r.id => /\ NamedAs(swapped, q) => NamedAs(refined, q)
                                 /\ ChipIs(swapped, q) => ChipIs(refined, q)
        /\ NamedAs(swapped, r) => NamedAs(refined, u)
        /\ ChipIs(swapped, u) => ChipIs(refined, u)
    <2> DEFINE w == IF Refines(r, e) THEN <<Refine(u)>> ELSE <<>>
    <2>1. e.input \in BOOLEAN
      BY <1>1, EventIsTyped
    <2>2. (w = <<>> /\ u.name = r.name /\ u.input = r.input) \/ w = <<Refine(u)>>
      BY <1>3, <2>1
    <2>3. r \in Refs /\ u \in Refs /\ u.id = r.id /\ HasCard(swapped, r.id)
      BY <1>2, <1>3, <1>4, <1>5
    <2>4. refined = swapped \o w
      OBVIOUS
    <2> HIDE DEF w, refined
    <2> QED BY <1>5, <2>2, <2>3, <2>4, RefineSwap
  <1> HIDE DEF refined
  <1>7. shown' = refined \o Flushed
    <2>1. shown' = shown \o Swaps(r, next, e) \o Flushed \o <<>>
      BY <1>1 DEF IsNext, OnPush, Chunk, GarbledChunk, Discrete, UsageEvent, ToolCall,
                  ToolCallUpdate, FlushBetween, Chunks, r, i
    <2>2. shown \o Swaps(r, next, e) = refined
      <3> DEFINE A == IF e.status # "" THEN <<Status(u)>> ELSE <<>>
                 B == IF Refines(r, e) THEN <<Refine(u)>> ELSE <<>>
      <3>1. A \in Seq(Frames) /\ B \in Seq(Frames)
        <4>1. Status(u) \in Frames /\ Refine(u) \in Frames
          BY <1>3, SwapIsFrame
        <4>2. /\ <<>> \in Seq(Frames) /\ <<Status(u)>> \in Seq(Frames)
              /\ <<Refine(u)>> \in Seq(Frames)
          BY <4>1, EmptySeq
        <4> QED BY <4>2
      <3>2. Swaps(r, next, e) = A \o B
        BY DEF Swaps, u
      <3>3. refined = (shown \o A) \o B
        BY DEF refined, swapped
      <3> HIDE DEF A, B
      <3> QED BY <1>4, <3>1, <3>2, <3>3, ConcatAssociative
    <2>3. refined \o Flushed \in Seq(Frames)
      BY <1>6, FlushKeeps DEF Keeps
    <2> QED BY <2>1, <2>2, <2>3, ConcatEmptySeq
  <1>8. Keeps(refined, shown')
    BY <1>6, <1>7, FlushKeeps
  <1>9. Called' = Called
    <2>1. \A id : e \notin CallEvents(id)
      BY <1>1 DEF CallEvents
    <2> QED BY <2>1, AtNext DEF Called
  <1>10. /\ Len(tools') = Len(tools) /\ tools'[i] = u
         /\ \A k \in 1..Len(tools) : k # i => tools'[k] = tools[k]
    <2>1. tools \in Seq(Refs) /\ i \in 1..Len(tools) /\ u \in Refs /\ tools' = [tools EXCEPT ![i] = u]
      BY <1>1, <1>2, <1>3
    <2> QED BY <2>1, ExceptSeq
  <1>11. shown' \in Seq(Frames) /\ SwapsHaveCards(shown') /\ \A id \in Called' : HasCard(shown', id)
    BY <1>5, <1>6, <1>8, <1>9 DEF Keeps, FramesOK
  <1>12. ASSUME replays' = 0
         PROVE  /\ next' = Len(stream') + 1
                /\ \A k \in 1..Len(tools') : NamedAs(shown', tools'[k]) /\ ChipIs(shown', tools'[k])
    <2>1. replays = 0 /\ next' = Len(stream') + 1
      BY <1>12, NoReplayNext
    <2>2. \A k \in 1..Len(tools) : NamedAs(shown, tools[k]) /\ ChipIs(shown, tools[k])
      BY <2>1 DEF FramesOK
    <2>3. NamedAs(shown', u) /\ ChipIs(shown', u)
      BY <1>2, <1>5, <1>6, <1>8, <2>2 DEF Keeps, r
    <2>4. ASSUME NEW k \in 1..Len(tools), k # i
          PROVE  NamedAs(shown', tools[k]) /\ ChipIs(shown', tools[k])
      <3>1. tools[k].id # r.id
        BY <1>2, <2>4
      <3> QED BY <1>5, <1>6, <1>8, <2>2, <3>1 DEF Keeps
    <2> QED BY <1>10, <2>1, <2>3, <2>4
  <1> QED BY <1>11, <1>12 DEF FramesOK

LEMMA NoFrames ==
  (Empty /\ shown = <<>>) => FramesOK
  <1> SUFFICES ASSUME Empty, shown = <<>> PROVE FramesOK
    OBVIOUS
  <1>1. Len(shown) = 0 /\ Len(tools) = 0 /\ Len(stream) = 0 /\ next = 1
    BY EmptySeq DEF Empty
  <1>2. 1..Len(shown) = {} /\ 1..Len(tools) = {} /\ DOMAIN stream = {} /\ next = Len(stream) + 1
    <2>1. stream \in Seq(Events)
      BY EmptySeq DEF Empty
    <2> QED BY <1>1, <2>1, LenProperties
  <1>3. shown \in Seq(Frames)
    BY EmptySeq
  <1>4. Called = {}
    BY <1>2 DEF Called, At, Positions
  <1> QED BY <1>2, <1>3, <1>4 DEF FramesOK, SwapsHaveCards

LEMMA FramesStep ==
  ASSUME IInv, FramesOK, [Next]_vars
  PROVE  FramesOK'
  <1>1. CASE Deliver
    <2>1. PICK e \in Events : IsNext(e)
      BY <1>1, DeliverIsNext DEF IInv
    <2> QED BY <2>1, IndexNext, KeptFrames, GrowsFrames, ChangesFrames
  <1>2. CASE Replay
    <2>1. Called' = Called /\ shown' = shown
      BY <1>2 DEF Replay, Called, At
    <2>2. replays \in 0..MaxReplays /\ replays' = replays + 1
      BY <1>2 DEF Replay, IInv, TypeOK
    <2>3. replays' # 0
      BY <2>2
    <2> QED BY <2>1, <2>3 DEF FramesOK
  <1>3. CASE SetStream
    <2>1. Empty' /\ (shown = <<>>)'
      BY <1>3 DEF SetStream, Empty
    <2> QED BY <2>1, NoFrames, PTL
  <1>4. CASE UNCHANGED vars
    <2>1. Called' = Called
      BY <1>4 DEF Called, At, vars, externalVars
    <2> QED BY <1>4, <2>1 DEF FramesOK, vars, externalVars
  <1> QED BY <1>1, <1>2, <1>3, <1>4 DEF Next

LEMMA FramesInvariant == Spec => []FramesOK
  <1>1. Init => FramesOK
    BY NoFrames DEF Init, Empty
  <1>2. IInv /\ FramesOK /\ [Next]_vars => FramesOK'
    BY FramesStep
  <1> QED BY <1>1, <1>2, InductiveInvariant, PTL DEF Spec

(* Where SelectLastInSeq looks for it. *)
ShownAt(kinds, id) == {i \in 1..Len(shown) : Shows(shown[i], kinds, id)}

LEMMA LastShownIs ==
  ASSUME NEW kinds, NEW id, NEW g, LastShown(shown, kinds, id, g)
  PROVE  shown[IF ShownAt(kinds, id) # {} THEN Max(ShownAt(kinds, id)) ELSE 0] = g
  <1> DEFINE I == ShownAt(kinds, id)
  <1>1. PICK i \in 1..Len(shown) : /\ shown[i] = g /\ Shows(g, kinds, id)
                                   /\ \A j \in 1..Len(shown) : Shows(shown[j], kinds, id) => j <= i
    BY DEF LastShown
  <1>2. i \in I /\ I \in SUBSET Nat /\ \A j \in I : j <= i
    BY <1>1 DEF ShownAt
  <1> HIDE DEF I
  <1>3. Max(I) = i
    BY <1>2, MaxIs
  <1> QED BY <1>1, <1>2, <1>3 DEF I

(* applyTools and the coalescer broadcast what they keep: a card in the    *)
(* browser, with the swaps that came for it, and the jump index say the    *)
(* same unless there was a replay, and there is a card for every swap.     *)
THEOREM CardsAndIndexAgree == Spec => []CardsAgree
  <1>1. IInv /\ FramesOK => CardsAgree
    <2> SUFFICES ASSUME IInv, FramesOK PROVE CardsAgree
      OBVIOUS
    <2>1. shown \in Seq(Frames) /\ DOMAIN shown = 1..Len(shown)
      BY LenProperties DEF FramesOK
    <2>2. SwapHasCard
      BY <2>1 DEF FramesOK, SwapsHaveCards, SwapHasCard
    <2>3. ASSUME replays = 0 PROVE Agree
      <3> SUFFICES ASSUME NEW k \in DOMAIN tools
                   PROVE LET r == tools[k]
                             LastFrame(kinds) ==
                                 shown[SelectLastInSeq(shown, LAMBDA f : Shows(f, kinds, r.id))]
                             named == LastFrame({"card", "refine"})
                             chip == LastFrame({"card", "status"})
                         IN  /\ <<named.name, named.input>> = <<r.name, r.input>>
                             /\ (IF chip.kind = "card" THEN "running" ELSE chip.status) = r.status
        BY DEF Agree
      <3> DEFINE r == tools[k]
      <3>1. NamedAs(shown, r) /\ ChipIs(shown, r)
        <4>1. k \in 1..Len(tools)
          BY LenProperties DEF IInv, TypeOK
        <4> QED BY <2>3, <4>1 DEF FramesOK
      <3> HIDE DEF r
      <3>2. PICK g : LastShown(shown, {"card", "refine"}, r.id, g) /\ g.name = r.name /\ g.input = r.input
        BY <3>1 DEF NamedAs
      <3>3. PICK h : /\ LastShown(shown, {"card", "status"}, r.id, h)
                     /\ (IF h.kind = "card" THEN "running" ELSE h.status) = r.status
        BY <3>1 DEF ChipIs
      <3>4. shown[SelectLastInSeq(shown, LAMBDA f : Shows(f, {"card", "refine"}, r.id))] = g
        <4> DEFINE I == ShownAt({"card", "refine"}, r.id)
        <4>1. shown[IF I # {} THEN Max(I) ELSE 0] = g
          BY <3>2, LastShownIs
        <4> QED BY <4>1 DEF SelectLastInSeq, ShownAt
      <3>5. shown[SelectLastInSeq(shown, LAMBDA f : Shows(f, {"card", "status"}, r.id))] = h
        <4> DEFINE I == ShownAt({"card", "status"}, r.id)
        <4>1. shown[IF I # {} THEN Max(I) ELSE 0] = h
          BY <3>3, LastShownIs
        <4> QED BY <4>1 DEF SelectLastInSeq, ShownAt
      <3> QED BY <3>2, <3>3, <3>4, <3>5 DEF r
    <2> QED BY <2>2, <2>3 DEF CardsAgree
  <1> QED BY <1>1, InductiveInvariant, FramesInvariant, PTL

-----------------------------------------------------------------------------
(* The order of the frames *)

(* The frames that go back, what a frame with a part k would not go back   *)
(* behind, and the events that are in the frames.                          *)
Back(s) == {i \in 1..Len(s) : GoesBack(s, i)}
UpTo(s, k) ==
    \A j \in 1..Len(s) :
        s[j].parts # <<>> /\ (\A i \in j + 1..Len(s) : s[i].parts = <<>>) => Last(s[j].parts) < k
Said(s) == UNION {ToSet(f.parts) : f \in ToSet(s)}

LEMMA PartsOfFrame ==
  ASSUME NEW f \in Frames
  PROVE  /\ f.parts \in Seq(1..MaxEvents)
         /\ f.parts # <<>> => /\ f.parts[1] \in ToSet(f.parts) /\ Last(f.parts) \in ToSet(f.parts)
                              /\ f.parts[1] \in 1..MaxEvents /\ Last(f.parts) \in 1..MaxEvents
  <1>1. f.parts \in Seq(1..MaxEvents)
    BY DEF Frames
  <1>2. ASSUME NEW p \in Seq(1..MaxEvents), p # <<>>
        PROVE  /\ p[1] \in ToSet(p) /\ Last(p) \in ToSet(p)
               /\ p[1] \in 1..MaxEvents /\ Last(p) \in 1..MaxEvents
    <2>1. Len(p) \in Nat /\ Len(p) # 0 /\ DOMAIN p = 1..Len(p)
      BY <1>2, LenProperties, EmptySeq
    <2>2. 1 \in DOMAIN p /\ Len(p) \in DOMAIN p
      BY <2>1
    <2>3. p[1] \in 1..MaxEvents /\ p[Len(p)] \in 1..MaxEvents
      BY <2>1, <2>2, ElementOfSeq
    <2> QED BY <2>2, <2>3 DEF ToSet, Last
  <1> QED BY <1>1, <1>2

LEMMA BackNext ==
  ASSUME NEW s \in Seq(Frames), NEW f \in Frames, NEW t, t = s \o <<f>>
  PROVE  /\ t \in Seq(Frames) /\ Said(t) = Said(s) \cup ToSet(f.parts)
         /\ f.parts = <<>> => Back(t) = Back(s) /\ \A k : UpTo(t, k) <=> UpTo(s, k)
         /\ f.parts # <<>> =>
               /\ Back(t) = Back(s) \cup {i \in {Len(s) + 1} : ~UpTo(s, f.parts[1])}
               /\ \A k : UpTo(t, k) <=> Last(f.parts) < k
  <1> DEFINE n == Len(s) + 1
             LastIn(u, j, m) == u[j].parts # <<>> /\ \A i \in j + 1..m : u[i].parts = <<>>
  <1>1. /\ t \in Seq(Frames) /\ Len(s) \in Nat /\ Len(t) = n /\ t[n] = f
        /\ \A j \in 1..Len(s) : t[j] = s[j]
    BY OneMore
  <1>2. /\ n \in 1..Len(t) /\ \A j \in 1..Len(t) : j \in 1..Len(s) \/ j = n
        /\ 1..Len(s) \subseteq 1..Len(t) /\ n \notin 1..Len(s) /\ n - 1 = Len(s)
        /\ DOMAIN s = 1..Len(s) /\ DOMAIN t = 1..Len(t)
    BY <1>1, LenProperties
  <1>3. ASSUME NEW i \in 1..Len(s)
        PROVE  /\ 1..i - 1 \subseteq 1..Len(s) /\ i + 1..Len(s) \subseteq 1..Len(s)
               /\ \A j \in 1..i - 1 : j + 1..i - 1 \subseteq 1..Len(s)
               /\ n \in i + 1..Len(t) /\ i + 1..Len(s) \subseteq i + 1..Len(t)
               /\ \A j \in i + 1..Len(t) : j \in i + 1..Len(s) \/ j = n
    BY <1>1
  <1>4. n + 1..Len(t) = {}
    BY <1>1
  <1>5. Said(t) = Said(s) \cup ToSet(f.parts)
    <2> HIDE DEF n
    <2>1. ToSet(t) = ToSet(s) \cup {f}
      BY <1>1, <1>2 DEF ToSet
    <2> QED BY <2>1 DEF Said
  <1> HIDE DEF n
  <1>6. \A i \in 1..Len(s) : GoesBack(t, i) <=> GoesBack(s, i)
    <2> SUFFICES ASSUME NEW i \in 1..Len(s) PROVE GoesBack(t, i) <=> GoesBack(s, i)
      OBVIOUS
    <2>1. t[i] = s[i] /\ \A j \in 1..i - 1 : t[j] = s[j] /\ \A k \in j + 1..i - 1 : t[k] = s[k]
      BY <1>1, <1>3
    <2> QED BY <2>1 DEF GoesBack
  <1>7. ASSUME f.parts = <<>> PROVE Back(t) = Back(s) /\ \A k : UpTo(t, k) <=> UpTo(s, k)
    <2>1. ~GoesBack(t, n)
      BY <1>1, <1>7 DEF GoesBack
    <2>2. Back(t) = Back(s)
      BY <1>2, <1>6, <2>1 DEF Back
    <2>3. ASSUME NEW j \in 1..Len(s)
          PROVE  t[j] = s[j] /\ (LastIn(t, j, Len(t)) <=> LastIn(s, j, Len(s)))
      <3>1. t[j] = s[j] /\ \A i \in j + 1..Len(s) : t[i] = s[i]
        BY <1>1, <1>3
      <3> QED BY <1>1, <1>3, <1>7, <3>1
    <2>4. ~LastIn(t, n, Len(t))
      BY <1>1, <1>7
    <2> HIDE DEF LastIn
    <2>5. \A k : UpTo(t, k) <=> \A j \in 1..Len(t) : LastIn(t, j, Len(t)) => Last(t[j].parts) < k
      BY DEF UpTo, LastIn
    <2>6. \A k : UpTo(s, k) <=> \A j \in 1..Len(s) : LastIn(s, j, Len(s)) => Last(s[j].parts) < k
      BY DEF UpTo, LastIn
    <2>7. \A k : UpTo(t, k) <=> UpTo(s, k)
      BY <1>2, <2>3, <2>4, <2>5, <2>6
    <2> QED BY <2>2, <2>7
  <1>8. ASSUME f.parts # <<>>
        PROVE  Back(t) = Back(s) \cup {i \in {n} : ~UpTo(s, f.parts[1])}
    <2>1. \A j \in 1..Len(s) : s[j].parts # <<>> =>
             (Last(s[j].parts) >= f.parts[1] <=> ~(Last(s[j].parts) < f.parts[1]))
      <3> SUFFICES ASSUME NEW j \in 1..Len(s), s[j].parts # <<>>
                   PROVE  Last(s[j].parts) >= f.parts[1] <=> ~(Last(s[j].parts) < f.parts[1])
        OBVIOUS
      <3>1. s[j] \in Frames
        BY ElementOfSeq
      <3>2. Last(s[j].parts) \in 1..MaxEvents /\ f.parts[1] \in 1..MaxEvents
        BY <1>8, <3>1, PartsOfFrame
      <3> QED BY <3>2
    <2>2. \A j \in 1..Len(s) : t[j] = s[j] /\ (LastIn(t, j, Len(s)) <=> LastIn(s, j, Len(s)))
      BY <1>1, <1>3
    <2>3. GoesBack(t, n) <=>
             \E j \in 1..Len(s) : LastIn(s, j, Len(s)) /\ Last(s[j].parts) >= f.parts[1]
      <3>1. GoesBack(t, n) <=>
               \E j \in 1..Len(s) : LastIn(t, j, Len(s)) /\ Last(t[j].parts) >= f.parts[1]
        BY <1>1, <1>2, <1>8 DEF GoesBack
      <3> HIDE DEF LastIn
      <3> QED BY <1>2, <2>2, <3>1
    <2>4. GoesBack(t, n) <=> ~UpTo(s, f.parts[1])
      BY <2>1, <2>3 DEF UpTo
    <2> QED BY <1>2, <1>6, <2>4 DEF Back
  <1>9. ASSUME f.parts # <<>> PROVE \A k : UpTo(t, k) <=> Last(f.parts) < k
    <2>1. \A j \in 1..Len(s) : ~LastIn(t, j, Len(t))
      BY <1>1, <1>3, <1>9
    <2>2. LastIn(t, n, Len(t))
      BY <1>1, <1>4, <1>9
    <2> HIDE DEF LastIn
    <2>3. \A k : UpTo(t, k) <=> \A j \in 1..Len(t) : LastIn(t, j, Len(t)) => Last(t[j].parts) < k
      BY DEF UpTo, LastIn
    <2> QED BY <1>1, <1>2, <2>1, <2>2, <2>3
  <1> QED BY <1>1, <1>5, <1>7, <1>8, <1>9 DEF n

(* How many frames go back. *)
LEMMA CountBack ==
  ASSUME NEW s \in Seq(Frames), NEW f \in Frames, f.parts # <<>>
  PROVE  /\ Cardinality(Back(s)) \in Nat /\ IsFiniteSet(Back(s))
         /\ UpTo(s, f.parts[1]) => Cardinality(Back(s \o <<f>>)) = Cardinality(Back(s))
         /\ ~UpTo(s, f.parts[1]) => Cardinality(Back(s \o <<f>>)) = Cardinality(Back(s)) + 1
  <1>1. Len(s) \in Nat
    BY LenProperties
  <1>2. IsFiniteSet(Back(s)) /\ Cardinality(Back(s)) \in Nat
    <2>1. IsFiniteSet(1..Len(s)) /\ Back(s) \subseteq 1..Len(s)
      BY <1>1, FS_Interval DEF Back
    <2> QED BY <2>1, FS_Subset, FS_CardinalityType
  <1>3. Back(s \o <<f>>) = Back(s) \cup {i \in {Len(s) + 1} : ~UpTo(s, f.parts[1])}
    BY BackNext
  <1>4. ASSUME UpTo(s, f.parts[1]) PROVE Back(s \o <<f>>) = Back(s)
    BY <1>3, <1>4
  <1>5. ASSUME ~UpTo(s, f.parts[1])
        PROVE  Cardinality(Back(s \o <<f>>)) = Cardinality(Back(s)) + 1
    <2>1. Back(s \o <<f>>) = Back(s) \cup {Len(s) + 1}
      BY <1>3, <1>5
    <2>2. Len(s) + 1 \notin Back(s)
      BY <1>1 DEF Back
    <2> QED BY <1>2, <2>1, <2>2, FS_AddElement
  <1> QED BY <1>2, <1>4, <1>5

-----------------------------------------------------------------------------
(* The blocks of text *)

(* The chunks of text after which nothing but chunks of their kind, and    *)
(* what is ignored, came before position k.                                *)
OpenAt(k) ==
    {n \in 1..k - 1 : IsText(n) /\ \A i \in n..k - 1 : stream[i].type \in {stream[n].type, "garbled"}}

Ascending(s) == \A i, j \in DOMAIN s : i < j => s[i] < s[j]

(* The frames that are the beginning of a block, and those that are a      *)
(* block to which nothing can come any more.                               *)
BlockFrames ==
    {f \in Frames : f.kind \in Chunks /\ f.parts # <<>> /\ BeginsBlock(f.kind, f.parts)}
WholeFrames ==
    {f \in BlockFrames :
        /\ ToSet(f.parts) = RunOf(f.parts[1])
        /\ \E c \in DOMAIN stream : f.parts[1] < c /\ stream[c].type \notin {f.kind, "garbled"}}

TextsIn(s, B) == \A i \in 1..Len(s) : s[i].kind \in Chunks => s[i] \in B
CutIn(s, G) == {i \in 1..Len(s) : s[i].kind \in Chunks /\ s[i] \notin G}

(* The buffer has all the text that is open; or a replay has begun and the *)
(* buffer has what was open before it.                                     *)
Fresh ==
    /\ ToSet(buf) = OpenAt(next) /\ Ascending(buf)
    /\ \A n \in ToSet(buf) : stream[n].type = kind
    /\ Cardinality(CutIn(shown, WholeFrames)) <= replays
Rerun ==
    /\ next = 1 /\ stream # <<>>
    /\ buf # <<>> => BeginsBlock(kind, buf)
    /\ Cardinality(CutIn(shown, WholeFrames)) + 1 <= replays

StartsQuiet == stream # <<>> => stream[1].type \notin Chunks \cup {"garbled"}

TextOK == StartsQuiet /\ TextsIn(shown, BlockFrames) /\ (Fresh \/ Rerun)

(* What is added to s is no text. *)
TextFree(s, t) ==
    /\ t \in Seq(Frames)
    /\ \A G : CutIn(t, G) = CutIn(s, G)
    /\ \A B : TextsIn(s, B) => TextsIn(t, B)

LEMMA CutNext ==
  ASSUME NEW s \in Seq(Frames), NEW f \in Frames
  PROVE  /\ \A G : /\ CutIn(s \o <<f>>, G) \subseteq CutIn(s, G) \cup {Len(s) + 1}
                   /\ f.kind \notin Chunks \/ f \in G => CutIn(s \o <<f>>, G) = CutIn(s, G)
         /\ \A B : TextsIn(s, B) /\ (f.kind \in Chunks => f \in B) => TextsIn(s \o <<f>>, B)
  <1> DEFINE t == s \o <<f>>
             n == Len(s) + 1
  <1>1. /\ Len(s) \in Nat /\ Len(t) = n /\ t[n] = f /\ \A j \in 1..Len(s) : t[j] = s[j]
    BY OneMore
  <1>2. /\ n \in 1..Len(t) /\ n \notin 1..Len(s) /\ \A j \in 1..Len(s) : j \in 1..Len(t)
        /\ \A j \in 1..Len(t) : j \in 1..Len(s) \/ j = n
    BY <1>1
  <1> HIDE DEF t, n
  <1>3. \A G : CutIn(t, G) \subseteq CutIn(s, G) \cup {n}
    BY <1>1, <1>2 DEF CutIn
  <1>4. ASSUME NEW G, f.kind \notin Chunks \/ f \in G PROVE CutIn(t, G) = CutIn(s, G)
    BY <1>1, <1>2, <1>4 DEF CutIn
  <1>5. ASSUME NEW B, TextsIn(s, B), f.kind \in Chunks => f \in B PROVE TextsIn(t, B)
    BY <1>1, <1>2, <1>5 DEF TextsIn
  <1> QED BY <1>3, <1>4, <1>5 DEF t, n

LEMMA NoTextAdded ==
  ASSUME NEW s \in Seq(Frames), NEW w, \/ w = <<>>
                                       \/ \E f \in Frames : w = <<f>> /\ f.kind \notin Chunks
  PROVE  TextFree(s, s \o w)
  <1>1. CASE w = <<>>
    <2>1. s \o w = s
      BY <1>1, ConcatEmptySeq
    <2> QED BY <2>1 DEF TextFree
  <1>2. CASE w # <<>>
    <2>1. PICK f \in Frames : w = <<f>> /\ f.kind \notin Chunks
      BY <1>2
    <2>2. s \o w \in Seq(Frames)
      BY <2>1, OneMore
    <2> QED BY <2>1, <2>2, CutNext DEF TextFree
  <1> QED BY <1>1, <1>2

(* What is added to s is about no event. *)
Silent(s, t) ==
    /\ TextFree(s, t)
    /\ Back(t) = Back(s) /\ Said(t) = Said(s) /\ \A k : UpTo(t, k) <=> UpTo(s, k)

LEMMA NothingAdded ==
  ASSUME NEW s \in Seq(Frames), NEW w, \/ w = <<>>
                                       \/ \E f \in Frames : w = <<f>> /\ f.kind \notin Chunks /\ f.parts = <<>>
  PROVE  Silent(s, s \o w)
  <1>1. TextFree(s, s \o w)
    BY NoTextAdded
  <1>2. CASE w = <<>>
    <2>1. s \o w = s
      BY <1>2, ConcatEmptySeq
    <2> QED BY <1>1, <2>1 DEF Silent
  <1>3. CASE w # <<>>
    <2>1. PICK f \in Frames : w = <<f>> /\ f.parts = <<>>
      BY <1>3
    <2>2. /\ Said(s \o w) = Said(s) \cup ToSet(f.parts) /\ Back(s \o w) = Back(s)
          /\ \A k : UpTo(s \o w, k) <=> UpTo(s, k)
      BY <2>1, BackNext
    <2>3. ToSet(f.parts) = {}
      BY <2>1 DEF ToSet
    <2> QED BY <1>1, <2>2, <2>3 DEF Silent
  <1> QED BY <1>2, <1>3

LEMMA SilentTwice ==
  ASSUME NEW s, NEW t, NEW u, Silent(s, t), Silent(t, u)
  PROVE  Silent(s, u)
  BY DEF Silent, TextFree

LEMMA OpenStays ==
  ASSUME IInv, NEW b \in OpenAt(next), NEW m \in 1..next - 1
  PROVE  (IsText(m) /\ SameRun(m, b)) <=> (m \in OpenAt(next) /\ stream[m].type = stream[b].type)
  <1>1. b \in 1..next - 1 /\ next \in Nat /\ IsText(b)
        /\ \A i \in b..next - 1 : stream[i].type \in {stream[b].type, "garbled"}
    <2>1. next \in Nat
      <3>1. Len(stream) \in Nat /\ next \in 1..Len(stream) + 1
        BY LenProperties DEF IInv, TypeOK
      <3> QED BY <3>1
    <2> QED BY <2>1 DEF OpenAt
  <1>2. ASSUME IsText(m), SameRun(m, b) PROVE m \in OpenAt(next) /\ stream[m].type = stream[b].type
    <2>1. \A i \in m..b \cup b..m : stream[i].type \in {stream[m].type, "garbled"}
      BY <1>2 DEF SameRun
    <2>2. b \in m..b \cup b..m
      BY <1>1
    <2>3. stream[m].type = stream[b].type
      BY <1>1, <2>1, <2>2 DEF IsText, Chunks
    <2>4. ASSUME NEW i \in m..next - 1 PROVE stream[i].type \in {stream[m].type, "garbled"}
      <3>1. i \in m..b \/ i \in b..next - 1
        BY <1>1
      <3> QED BY <1>1, <2>1, <2>3, <3>1
    <2> QED BY <1>2, <2>3, <2>4 DEF OpenAt
  <1>3. ASSUME m \in OpenAt(next), stream[m].type = stream[b].type PROVE IsText(m) /\ SameRun(m, b)
    <2>1. IsText(m) /\ \A i \in m..next - 1 : stream[i].type \in {stream[m].type, "garbled"}
      BY <1>3 DEF OpenAt
    <2>2. ASSUME NEW i \in m..b \cup b..m PROVE stream[i].type \in {stream[m].type, "garbled"}
      <3>1. i \in m..next - 1 \/ i \in b..next - 1
        BY <1>1
      <3> QED BY <1>1, <1>3, <2>1, <3>1
    <2> QED BY <2>1, <2>2 DEF SameRun
  <1> QED BY <1>2, <1>3

LEMMA FreshBegins ==
  ASSUME IInv, Fresh, buf # <<>>
  PROVE  BeginsBlock(kind, buf)
  <1>1. /\ buf \in Seq(1..MaxEvents) /\ Len(buf) \in Nat /\ Len(buf) > 0 /\ DOMAIN buf = 1..Len(buf)
        /\ 1 \in DOMAIN buf /\ Len(buf) \in DOMAIN buf
    <2>1. buf \in Seq(1..MaxEvents)
      BY DEF IInv, TypeOK
    <2>2. Len(buf) \in Nat /\ Len(buf) # 0 /\ DOMAIN buf = 1..Len(buf)
      BY <2>1, LenProperties, EmptySeq
    <2> QED BY <2>1, <2>2
  <1>2. /\ stream \in Seq(Events) /\ Len(stream) \in Nat /\ DOMAIN stream = 1..Len(stream)
        /\ next \in 1..Len(stream) + 1
    BY LenProperties DEF IInv, TypeOK
  <1>3. /\ ToSet(buf) = OpenAt(next) /\ Ascending(buf) /\ \A n \in ToSet(buf) : stream[n].type = kind
    BY DEF Fresh
  <1>4. buf[1] \in OpenAt(next) /\ Last(buf) \in OpenAt(next)
    BY <1>1, <1>3 DEF ToSet, Last
  <1>5. OpenAt(next) \subseteq 1..next - 1 /\ 1..next - 1 \subseteq DOMAIN stream
    BY <1>2 DEF OpenAt
  <1>6. \A n \in ToSet(buf) : n <= Last(buf)
    <2> SUFFICES ASSUME NEW i \in DOMAIN buf PROVE buf[i] <= buf[Len(buf)]
      BY DEF ToSet, Last
    <2>1. buf[i] \in 1..MaxEvents
      BY <1>1, ElementOfSeq
    <2>2. i < Len(buf) => buf[i] < buf[Len(buf)]
      BY <1>1, <1>3 DEF Ascending
    <2>3. i < Len(buf) \/ i = Len(buf)
      BY <1>1
    <2>4. buf[Len(buf)] \in 1..MaxEvents
      BY <1>1, ElementOfSeq
    <2> QED BY <2>1, <2>2, <2>3, <2>4
  <1>7. ToSet(buf) = {n \in RunOf(buf[1]) : n <= Last(buf)}
    <2>1. ASSUME NEW n \in ToSet(buf) PROVE n \in RunOf(buf[1]) /\ n <= Last(buf)
      BY <1>3, <1>4, <1>5, <1>6, OpenStays DEF RunOf
    <2>2. ASSUME NEW n \in RunOf(buf[1]), n <= Last(buf) PROVE n \in ToSet(buf)
      <3>1. n \in 1..next - 1
        BY <1>2, <1>4, <1>5, <2>2 DEF RunOf
      <3> QED BY <1>3, <1>4, <3>1, OpenStays DEF RunOf
    <2> QED BY <2>1, <2>2
  <1>8. stream[buf[1]].type = kind /\ ToSet(buf) \subseteq DOMAIN stream
    BY <1>3, <1>4, <1>5
  <1> QED BY <1>3, <1>7, <1>8 DEF BeginsBlock, Ascending

(* The next event leaves what the stream was. *)
LEMMA StreamGrows ==
  ASSUME IInv, NEW e \in Events, IsNext(e)
  PROVE  /\ next \in Nat /\ next >= 1 /\ 1..next - 1 \subseteq DOMAIN stream
         /\ DOMAIN stream \subseteq DOMAIN stream' /\ DOMAIN stream \subseteq Nat
         /\ DOMAIN stream' \subseteq Nat
         /\ \A m \in DOMAIN stream : (IsText(m))' = IsText(m)
         /\ \A m, n \in DOMAIN stream : m..n \cup n..m \subseteq DOMAIN stream
         /\ \A m, n \in DOMAIN stream : (SameRun(m, n))' = SameRun(m, n)
  <1>1. /\ Len(stream) \in Nat /\ DOMAIN stream = 1..Len(stream) /\ next \in 1..Len(stream) + 1
        /\ DOMAIN stream' = DOMAIN stream \cup {next}
        /\ \A m \in DOMAIN stream : stream'[m] = stream[m]
    BY LenProperties DEF IInv, TypeOK, IsNext
  <1>2. next \in Nat /\ next >= 1 /\ 1..next - 1 \subseteq DOMAIN stream /\ DOMAIN stream \subseteq Nat
    BY <1>1
  <1>3. \A m \in DOMAIN stream : (IsText(m))' = IsText(m)
    BY <1>1 DEF IsText
  <1>4. \A m, n \in DOMAIN stream : m..n \cup n..m \subseteq DOMAIN stream
    BY <1>1
  <1>5. \A m, n \in DOMAIN stream : (SameRun(m, n))' = SameRun(m, n)
    BY <1>1, <1>4 DEF SameRun
  <1> QED BY <1>1, <1>2, <1>3, <1>4, <1>5

LEMMA PartsOfBlock ==
  ASSUME IInv, NEW k, NEW parts \in Seq(1..MaxEvents), parts # <<>>, BeginsBlock(k, parts)
  PROVE  parts[1] \in DOMAIN stream /\ Last(parts) \in DOMAIN stream /\ stream[parts[1]].type = k
  <1>1. Len(parts) \in Nat /\ Len(parts) # 0 /\ DOMAIN parts = 1..Len(parts)
    BY LenProperties, EmptySeq
  <1>2. 1 \in DOMAIN parts /\ Len(parts) \in DOMAIN parts
    BY <1>1
  <1>3. parts[1] \in ToSet(parts) /\ Last(parts) \in ToSet(parts)
    BY <1>2 DEF ToSet, Last
  <1> QED BY <1>3 DEF BeginsBlock

LEMMA BeginsStays ==
  ASSUME IInv, NEW e \in Events, IsNext(e), NEW k, NEW parts \in Seq(1..MaxEvents), parts # <<>>,
         BeginsBlock(k, parts)
  PROVE  (BeginsBlock(k, parts))'
  <1>1. parts[1] \in DOMAIN stream /\ Last(parts) \in DOMAIN stream /\ stream[parts[1]].type = k
    BY PartsOfBlock
  <1>2. /\ ToSet(parts) = {n \in RunOf(parts[1]) : n <= Last(parts)}
        /\ ToSet(parts) \subseteq DOMAIN stream
        /\ \A i, j \in DOMAIN parts : i < j => parts[i] < parts[j]
    BY DEF BeginsBlock
  <1>3. ASSUME NEW n \in DOMAIN stream', n <= Last(parts) PROVE n \in DOMAIN stream
    <2>1. Len(stream) \in Nat /\ DOMAIN stream = 1..Len(stream) /\ n \in Nat \ {0}
      <3>1. stream \in Seq(Events) /\ stream' \in Seq(Events)
        BY DEF IInv, TypeOK, IsNext
      <3> QED BY <3>1, LenProperties
    <2> QED BY <1>1, <1>3, <2>1
  <1>4. {n \in (RunOf(parts[1]))' : n <= Last(parts)} = {n \in RunOf(parts[1]) : n <= Last(parts)}
    BY <1>1, <1>3, StreamGrows DEF RunOf
  <1>5. stream'[parts[1]].type = k /\ ToSet(parts) \subseteq DOMAIN stream'
    BY <1>1, <1>2, StreamGrows DEF IsNext
  <1> QED BY <1>2, <1>4, <1>5 DEF BeginsBlock

LEMMA WholeStays ==
  ASSUME IInv, NEW e \in Events, IsNext(e)
  PROVE  BlockFrames \subseteq BlockFrames' /\ WholeFrames \subseteq WholeFrames'
  <1>1. ASSUME NEW f \in Frames PROVE f.parts \in Seq(1..MaxEvents)
    BY <1>1 DEF Frames
  <1>2. ASSUME NEW f \in BlockFrames PROVE f \in BlockFrames'
    <2>1. /\ f \in Frames /\ f.kind \in Chunks /\ f.parts # <<>> /\ f.parts \in Seq(1..MaxEvents)
          /\ BeginsBlock(f.kind, f.parts)
      BY <1>1 DEF BlockFrames
    <2>2. (BeginsBlock(f.kind, f.parts))'
      BY <2>1, BeginsStays
    <2> QED BY <2>1, <2>2 DEF BlockFrames
  <1>3. ASSUME NEW f \in WholeFrames PROVE f \in WholeFrames'
    <2> DEFINE b == f.parts[1]
    <2>1. /\ f \in BlockFrames /\ f.kind \in Chunks /\ f.parts # <<>> /\ f.parts \in Seq(1..MaxEvents)
          /\ BeginsBlock(f.kind, f.parts) /\ ToSet(f.parts) = RunOf(b)
      BY <1>1 DEF WholeFrames, BlockFrames
    <2>2. PICK c \in DOMAIN stream : b < c /\ stream[c].type \notin {f.kind, "garbled"}
      BY DEF WholeFrames
    <2>3. b \in DOMAIN stream /\ stream[b].type = f.kind
      BY <2>1, PartsOfBlock
    <2> HIDE DEF b
    <2>4. /\ DOMAIN stream \subseteq DOMAIN stream' /\ DOMAIN stream \subseteq Nat
          /\ DOMAIN stream' = DOMAIN stream \cup {next}
          /\ \A m \in DOMAIN stream : stream'[m] = stream[m]
      BY StreamGrows DEF IsNext
    <2>5. ASSUME NEW n \in DOMAIN stream' \ DOMAIN stream, (IsText(n))', (SameRun(n, b))' PROVE FALSE
      <3>1. n > c /\ n \in Nat
        <4>1. next = Len(stream) + 1 /\ Len(stream) \in Nat /\ DOMAIN stream = 1..Len(stream)
          BY <2>4, <2>5, LenProperties DEF IsNext, IInv, TypeOK
        <4>2. n = next
          BY <2>4, <2>5
        <4> QED BY <4>1, <4>2
      <3>2. b \in b..n /\ c \in b..n
        BY <2>2, <2>3, <2>4, <3>1
      <3>3. /\ stream'[b].type \in {stream'[n].type, "garbled"}
            /\ stream'[c].type \in {stream'[n].type, "garbled"}
        BY <2>5, <3>2 DEF SameRun
      <3>4. f.kind \in {stream'[n].type, "garbled"} /\ stream[c].type \in {stream'[n].type, "garbled"}
        BY <2>2, <2>3, <2>4, <3>3
      <3> QED BY <2>1, <2>2, <3>4 DEF Chunks
    <2>6. (RunOf(b))' = RunOf(b)
      BY <2>3, <2>4, <2>5, StreamGrows DEF RunOf
    <2>7. c \in DOMAIN stream' /\ stream'[c].type \notin {f.kind, "garbled"}
      BY <2>2, <2>4
    <2> QED BY <1>2, <2>1, <2>2, <2>6, <2>7 DEF WholeFrames, b
  <1> QED BY <1>2, <1>3

(* What the next event leaves open. *)
LEMMA OpenNext ==
  ASSUME IInv, NEW e \in Events, IsNext(e)
  PROVE  (OpenAt(next))' = {n \in OpenAt(next) : e.type \in {stream[n].type, "garbled"}}
                            \cup {n \in {next} : e.type \in Chunks /\ e.text}
  <1>1. /\ next' = next + 1 /\ stream'[next] = e /\ next \in Nat /\ next >= 1
        /\ 1..next - 1 \subseteq DOMAIN stream
        /\ \A m \in 1..next - 1 : stream'[m] = stream[m]
    BY StreamGrows DEF IsNext
  <1>2. \A n : n \in 1..next' - 1 <=> (n \in 1..next - 1 \/ n = next)
    BY <1>1
  <1>3. ASSUME NEW n \in 1..next - 1
        PROVE  n \in (OpenAt(next))' <=> (n \in OpenAt(next) /\ e.type \in {stream[n].type, "garbled"})
    <2>1. \A i : i \in n..next' - 1 <=> (i \in n..next - 1 \/ i = next)
      BY <1>1
    <2>2. \A i \in n..next - 1 : i \in 1..next - 1
      BY <1>1
    <2>3. (IsText(n))' = IsText(n)
      BY <1>1 DEF IsText
    <2> QED BY <1>1, <1>2, <2>1, <2>2, <2>3 DEF OpenAt
  <1>4. ASSUME NEW n, n = next
        PROVE  n \in (OpenAt(next))' <=> (e.type \in Chunks /\ e.text)
    <2>1. \A i : i \in n..next' - 1 <=> i = n
      BY <1>1, <1>4
    <2>2. (IsText(n))' <=> (e.type \in Chunks /\ e.text)
      BY <1>1, <1>4 DEF IsText
    <2> QED BY <1>1, <1>2, <1>4, <2>1, <2>2 DEF OpenAt
  <1>5. next \notin OpenAt(next) /\ OpenAt(next) \subseteq 1..next - 1
    BY <1>1 DEF OpenAt
  <1> QED BY <1>2, <1>3, <1>4, <1>5 DEF OpenAt

LEMMA TextIsFrame ==
  ASSUME IInv, buf # <<>>
  PROVE  Text(kind, buf) \in Frames /\ kind \in Chunks /\ Flushed = <<Text(kind, buf)>>
  <1>1. kind \in Chunks /\ buf \in Seq(1..MaxEvents)
    BY DEF IInv, TypeOK
  <1>2. Text(kind, buf) \in Frames
    BY <1>1 DEF Text, Frames
  <1> QED BY <1>1, <1>2 DEF Flushed

(* What another event than a chunk of the same kind flushes is a block.    *)
LEMMA FlushedIsWhole ==
  ASSUME IInv, Fresh, NEW e \in Events, IsNext(e), e.type \notin {kind, "garbled"},
         NEW parts, parts = buf, parts # <<>>, NEW k, k = kind
  PROVE  Text(k, parts) \in WholeFrames'
  <1> DEFINE f == Text(k, parts)
             b == parts[1]
  <1>1. f \in Frames /\ k \in Chunks /\ f.kind = k /\ f.parts = parts /\ parts \in Seq(1..MaxEvents)
    BY TextIsFrame DEF Text, IInv, TypeOK
  <1>2. BeginsBlock(k, parts)
    BY FreshBegins
  <1>3. (BeginsBlock(k, parts))'
    BY <1>1, <1>2, BeginsStays
  <1>4. b \in DOMAIN stream /\ stream[b].type = k /\ b \in ToSet(parts)
    <2>1. 1 \in DOMAIN parts
      <3>1. Len(parts) \in Nat /\ Len(parts) # 0 /\ DOMAIN parts = 1..Len(parts)
        BY <1>1, LenProperties, EmptySeq
      <3> QED BY <3>1
    <2> QED BY <1>1, <1>2, <2>1, PartsOfBlock DEF ToSet
  <1>5. ToSet(parts) = OpenAt(next) /\ \A n \in OpenAt(next) : stream[n].type = k
    BY DEF Fresh
  <1> HIDE DEF f, b
  <1>6. /\ next \in DOMAIN stream' /\ stream'[next] = e /\ next \in Nat
        /\ OpenAt(next) \subseteq 1..next - 1 /\ 1..next - 1 \subseteq DOMAIN stream
        /\ DOMAIN stream \subseteq DOMAIN stream' /\ DOMAIN stream \subseteq Nat /\ DOMAIN stream' \subseteq Nat \ {0}
        /\ \A m \in DOMAIN stream : stream'[m] = stream[m]
    <2>1. DOMAIN stream' \subseteq Nat \ {0}
      BY LenProperties DEF IsNext
    <2> QED BY <2>1, StreamGrows DEF IsNext, OpenAt
  <1>7. ASSUME NEW m \in 1..next - 1
        PROVE  m \in (RunOf(b))' <=> m \in OpenAt(next)
    <2>1. m \in DOMAIN stream /\ m \in DOMAIN stream'
      BY <1>6
    <2>2. m \in (RunOf(b))' <=> (IsText(m) /\ SameRun(m, b))
      BY <1>4, <2>1, StreamGrows DEF RunOf
    <2>3. (IsText(m) /\ SameRun(m, b)) <=> (m \in OpenAt(next) /\ stream[m].type = stream[b].type)
      BY <1>4, <1>5, OpenStays
    <2> QED BY <1>4, <1>5, <2>2, <2>3
  <1>8. ASSUME NEW m \in (RunOf(b))' PROVE m \in 1..next - 1
    <2> SUFFICES ASSUME m >= next PROVE FALSE
      BY <1>6, <1>8 DEF RunOf
    <2>1. /\ m \in DOMAIN stream' /\ m \in Nat /\ b < next
          /\ \A i \in m..b \cup b..m : stream'[i].type \in {stream'[m].type, "garbled"}
      BY <1>4, <1>5, <1>6, <1>8 DEF RunOf, SameRun
    <2>2. b \in Nat /\ b \in b..m /\ next \in b..m
      BY <1>4, <1>6, <2>1
    <2>3. stream'[b].type = k
      BY <1>4, <1>6
    <2>4. k \in {stream'[m].type, "garbled"} /\ e.type \in {stream'[m].type, "garbled"}
      BY <1>6, <2>1, <2>2, <2>3
    <2> QED BY <1>1, <2>4 DEF Chunks
  <1>9. ToSet(parts) = (RunOf(b))'
    BY <1>5, <1>6, <1>7, <1>8
  <1>10. \E c \in DOMAIN stream' : b < c /\ stream'[c].type \notin {k, "garbled"}
    <2>1. b < next
      BY <1>4, <1>5, <1>6
    <2> QED BY <1>6, <2>1
  <1> QED BY <1>1, <1>3, <1>9, <1>10 DEF WholeFrames, BlockFrames, b, f

LEMMA FrameOfEvent ==
  ASSUME IInv, NEW e \in Events, IsNext(e)
  PROVE  /\ Block(next) \in Frames /\ Block(next).kind = "block"
         /\ e.type = "tool_call" => Card(next, e) \in Frames /\ Card(next, e).kind = "card"
  <1>1. next \in 1..MaxEvents /\ <<next>> \in Seq(1..MaxEvents)
    BY DEF IsNext
  <1>2. Block(next) \in Frames /\ Block(next).kind = "block"
    BY <1>1 DEF Block, Frames
  <1>3. ASSUME e.type = "tool_call" PROVE Card(next, e) \in Frames /\ Card(next, e).kind = "card"
    <2>1. e.id \in ToolIDs \cup {NoID} /\ e.name \in Names
      BY <1>3, EventIsTyped
    <2> QED BY <1>1, <2>1 DEF Card, Frames
  <1> QED BY <1>2, <1>3

LEMMA SwapsAreSilent ==
  ASSUME IInv, FramesOK, NEW e \in Events, IsNext(e), IndexChanges(e)
  PROVE  Silent(shown, shown \o Swaps(tools[toolIdx[e.id]], next, e))
  <1> DEFINE r == tools[toolIdx[e.id]]
             u == Updated(r, next, e)
             A == IF e.status # "" THEN <<Status(u)>> ELSE <<>>
             B == IF Refines(r, e) THEN <<Refine(u)>> ELSE <<>>
  <1>1. r \in Refs
    <2>1. toolIdx[e.id] \in 1..Len(tools) /\ tools \in Seq(Refs)
      BY DEF IndexChanges, IInv, FoldOK, IndexOK, TypeOK
    <2> QED BY <2>1, ElementOfSeq
  <1> HIDE DEF r
  <1>2. u \in Refs
    <2>1. /\ e.status \in {"", "completed"} /\ e.name \in Names \cup {NoName} /\ next \in 1..MaxEvents
      BY EventIsTyped DEF IsNext, IndexChanges
    <2> QED BY <1>1, <2>1 DEF Updated, Refs
  <1> HIDE DEF u
  <1>3. /\ Status(u) \in Frames /\ Refine(u) \in Frames
        /\ Status(u).kind \notin Chunks /\ Refine(u).kind \notin Chunks
        /\ Status(u).parts = <<>> /\ Refine(u).parts = <<>>
    BY <1>2, SwapIsFrame DEF Status, Refine, Chunks
  <1>4. shown \in Seq(Frames)
    BY DEF FramesOK
  <1>5. Silent(shown, shown \o A)
    <2>1. A = <<>> \/ A = <<Status(u)>>
      OBVIOUS
    <2> HIDE DEF A
    <2> QED BY <1>3, <1>4, <2>1, NothingAdded
  <1>6. Silent(shown \o A, (shown \o A) \o B)
    <2>1. B = <<>> \/ B = <<Refine(u)>>
      OBVIOUS
    <2>2. shown \o A \in Seq(Frames)
      BY <1>5 DEF Silent, TextFree
    <2> HIDE DEF A, B
    <2> QED BY <1>3, <2>1, <2>2, NothingAdded
  <1>7. Swaps(r, next, e) = A \o B
    BY DEF Swaps, u
  <1>8. A \in Seq(Frames) /\ B \in Seq(Frames)
    <2>1. <<>> \in Seq(Frames) /\ <<Status(u)>> \in Seq(Frames) /\ <<Refine(u)>> \in Seq(Frames)
      BY <1>3, EmptySeq
    <2> QED BY <2>1
  <1> HIDE DEF A, B
  <1>9. (shown \o A) \o B = shown \o Swaps(r, next, e)
    BY <1>4, <1>7, <1>8, ConcatAssociative
  <1>10. Silent(shown, shown \o Swaps(r, next, e))
    BY <1>5, <1>6, <1>9, SilentTwice
  <1> QED BY <1>10 DEF r

(* A chunk of the same kind goes to the buffer; anything else flushes it,  *)
(* and broadcasts nothing but swaps before, and the frame of the event     *)
(* after what is flushed.                                                  *)
Adds(e, w) ==
    \/ w = <<>> /\ e.type \notin {"block", "tool_call"}
    \/ /\ e.type \in {"block", "tool_call"}
       /\ \E f \in Frames : w = <<f>> /\ f.kind \notin Chunks /\ f.parts = <<next>>

Gathers(e) ==
    /\ e.type \in {kind, "garbled"} /\ kind' = kind /\ shown' = shown
    /\ buf' = IF e.type \in Chunks /\ e.text THEN Append(buf, next) ELSE buf
Flushes(e) ==
    /\ e.type \notin {kind, "garbled"}
    /\ \E s \in Seq(Frames) : \E w : Silent(shown, s) /\ shown' = s \o Flushed \o w /\ Adds(e, w)
    /\ kind' = IF e.type \in Chunks THEN e.type ELSE ""
    /\ buf' = IF e.type \in Chunks /\ e.text THEN <<next>> ELSE <<>>

LEMMA GathersOrFlushes ==
  ASSUME IInv, FramesOK, NEW e \in Events, IsNext(e)
  PROVE  Gathers(e) \/ Flushes(e)
  <1> DEFINE flushed == shown \o Flushed
  <1>1. shown \in Seq(Frames) /\ shown \o <<>> = shown /\ flushed \o <<>> = flushed
    <2>1. shown \in Seq(Frames) /\ flushed \in Seq(Frames)
      BY FlushKeeps DEF Keeps, FramesOK
    <2> QED BY <2>1, ConcatEmptySeq
  <1>2. Silent(shown, shown)
    BY <1>1 DEF Silent, TextFree
  <1> HIDE DEF flushed
  <1>3. kind \in {"message", "thought", ""}
    BY DEF IInv, TypeOK, Chunks
  <1>4. CASE Chunk(next, e)
    <2>1. CASE kind = e.type
      BY <1>4, <2>1 DEF Chunk, Gathers
    <2>2. CASE kind # e.type
      <3>1. e.type \notin {kind, "garbled"} /\ kind' = e.type /\ e.type \in Chunks
        BY <1>4, <2>2 DEF Chunk, Chunks
      <3>2. shown' = flushed \o <<>> /\ buf' = IF e.text THEN <<next>> ELSE <<>>
        BY <1>1, <1>4, <2>2 DEF Chunk, flushed
      <3>3. Adds(e, <<>>)
        BY <3>1 DEF Adds, Chunks
      <3> QED BY <1>1, <1>2, <3>1, <3>2, <3>3 DEF Flushes, flushed
    <2> QED BY <2>1, <2>2
  <1>5. CASE GarbledChunk(e)
    BY <1>5 DEF GarbledChunk, Gathers, Chunks
  <1>6. ASSUME e.type \in {"block", "other", "usage", "tool_call", "tool_call_update"},
               NEW s \in Seq(Frames), NEW w, Silent(shown, s), shown' = s \o Flushed \o w, Adds(e, w),
               buf' = <<>>, kind' = ""
        PROVE  Flushes(e)
    BY <1>3, <1>6 DEF Flushes, Chunks
  <1>7. CASE Discrete(next, e)
    <2> DEFINE w == IF e.type = "block" THEN <<Block(next)>> ELSE <<>>
    <2>1. e.type \in {"block", "other"} /\ buf' = <<>> /\ kind' = "" /\ shown' = flushed \o w
      BY <1>1, <1>7 DEF Discrete, FlushBetween, flushed
    <2>2. Block(next) \in Frames /\ Block(next).kind \notin Chunks /\ Block(next).parts = <<next>>
      BY FrameOfEvent DEF Chunks, Block
    <2>3. Adds(e, w)
      BY <2>1, <2>2 DEF Adds
    <2> HIDE DEF w
    <2> QED BY <1>1, <1>2, <1>6, <2>1, <2>3 DEF flushed
  <1>8. CASE UsageEvent(next, e)
    <2>1. e.type = "usage" /\ buf' = <<>> /\ kind' = "" /\ shown' = flushed \o <<>>
      BY <1>1, <1>8 DEF UsageEvent, FlushBetween, flushed
    <2>2. Adds(e, <<>>)
      BY <2>1 DEF Adds
    <2> QED BY <1>1, <1>2, <1>6, <2>1, <2>2 DEF flushed
  <1>9. CASE ToolCall(next, e)
    <2>1. e.type = "tool_call" /\ buf' = <<>> /\ kind' = "" /\ shown' = flushed \o <<Card(next, e)>>
      BY <1>1, <1>9 DEF ToolCall, FlushBetween, flushed
    <2>2. /\ Card(next, e) \in Frames /\ Card(next, e).kind \notin Chunks
          /\ Card(next, e).parts = <<next>>
      BY <2>1, FrameOfEvent DEF Chunks, Card
    <2>3. Adds(e, <<Card(next, e)>>)
      BY <2>1, <2>2 DEF Adds
    <2> QED BY <1>1, <1>2, <1>6, <2>1, <2>3 DEF flushed
  <1>10. CASE ToolCallUpdate(next, e)
    <2>1. e.type = "tool_call_update" /\ e.id \in ToolIDs /\ DOMAIN toolIdx = Called
      BY <1>10, EventIsTyped DEF ToolCallUpdate, IInv, FoldOK, IndexOK
    <2>2. Adds(e, <<>>)
      BY <2>1 DEF Adds
    <2>3. CASE e.id \in DOMAIN toolIdx
      <3> DEFINE s == shown \o Swaps(tools[toolIdx[e.id]], next, e)
      <3>1. buf' = <<>> /\ kind' = "" /\ shown' = s \o Flushed \o <<>>
        BY <1>10, <2>3 DEF ToolCallUpdate, FlushBetween
      <3>2. IndexChanges(e)
        BY <1>10, <2>1, <2>3 DEF ToolCallUpdate, IndexChanges
      <3>3. Silent(shown, s) /\ s \in Seq(Frames)
        BY <3>2, SwapsAreSilent DEF Silent, TextFree
      <3> HIDE DEF s
      <3> QED BY <1>6, <2>1, <2>2, <3>1, <3>3
    <2>4. CASE e.id \notin DOMAIN toolIdx
      <3>1. buf' = <<>> /\ kind' = "" /\ shown' = flushed \o <<>>
        BY <1>1, <1>10, <2>4 DEF ToolCallUpdate, FlushBetween, flushed
      <3> QED BY <1>1, <1>2, <1>6, <2>1, <2>2, <3>1 DEF flushed
    <2> QED BY <2>3, <2>4
  <1> QED BY <1>4, <1>5, <1>7, <1>8, <1>9, <1>10 DEF IsNext, OnPush

(* The set of frames that are cut short is finite, and does not grow with  *)
(* the stream.                                                             *)
LEMMA CutIsFinite ==
  ASSUME NEW s \in Seq(Frames), NEW G, NEW H, G \subseteq H
  PROVE  /\ IsFiniteSet(CutIn(s, G)) /\ Cardinality(CutIn(s, G)) \in Nat
         /\ CutIn(s, H) \subseteq CutIn(s, G)
         /\ IsFiniteSet(CutIn(s, H)) /\ Cardinality(CutIn(s, H)) <= Cardinality(CutIn(s, G))
         /\ Cardinality(CutIn(s, H)) \in Nat
  <1>1. Len(s) \in Nat
    BY LenProperties
  <1>2. CutIn(s, G) \subseteq 1..Len(s) /\ CutIn(s, H) \subseteq CutIn(s, G)
    BY DEF CutIn
  <1>3. IsFiniteSet(1..Len(s))
    BY <1>1, FS_Interval
  <1>4. IsFiniteSet(CutIn(s, G))
    BY <1>2, <1>3, FS_Subset
  <1>5. IsFiniteSet(CutIn(s, H)) /\ Cardinality(CutIn(s, H)) <= Cardinality(CutIn(s, G))
    BY <1>2, <1>4, FS_Subset
  <1> QED BY <1>2, <1>4, <1>5, FS_CardinalityType

LEMMA TextsGrow ==
  ASSUME NEW s, NEW B, NEW C, B \subseteq C, TextsIn(s, B)
  PROVE  TextsIn(s, C)
  BY DEF TextsIn

LEMMA NotEmptyType ==
  ASSUME NEW e \in Events
  PROVE  e.type # ""
  BY DEF Events, EventTypes, Chunks

LEMMA StartStays ==
  ASSUME IInv, StartsQuiet, NEW e \in Events, IsNext(e)
  PROVE  StartsQuiet'
  <1>1. Len(stream) \in Nat /\ DOMAIN stream = 1..Len(stream) /\ stream \in Seq(Events)
    BY LenProperties DEF IInv, TypeOK
  <1>2. CASE stream = <<>>
    <2>1. ~(next \in DOMAIN stream) /\ Len(stream) = 0
      BY <1>2, EmptySeq
    <2>2. next = 1 /\ MayFollow(stream, e) /\ stream'[1] = e
      BY <2>1 DEF IsNext
    <2> QED BY <1>2, <2>2 DEF MayFollow, StartsQuiet
  <1>3. CASE stream # <<>>
    <2>1. 1 \in DOMAIN stream
      BY <1>1, <1>3, EmptySeq
    <2> QED BY <1>3, <2>1 DEF StartsQuiet, IsNext
  <1> QED BY <1>2, <1>3

(* The first event of a replay is no chunk. *)
LEMMA RerunFlushes ==
  ASSUME IInv, StartsQuiet, Rerun, NEW e \in Events, IsNext(e)
  PROVE  e.type \notin Chunks \cup {"garbled"} /\ ~Gathers(e) /\ OpenAt(next) = {}
  <1>1. Len(stream) \in Nat /\ Len(stream) # 0 /\ DOMAIN stream = 1..Len(stream)
    BY LenProperties, EmptySeq DEF IInv, TypeOK, Rerun
  <1>2. 1 \in DOMAIN stream /\ next = 1
    BY <1>1 DEF Rerun
  <1>3. e = stream[1]
    BY <1>2 DEF IsNext
  <1>4. e.type \notin Chunks \cup {"garbled"}
    BY <1>3 DEF StartsQuiet, Rerun
  <1>5. ~Gathers(e)
    BY <1>4, NotEmptyType DEF Gathers, IInv, TypeOK
  <1>6. OpenAt(next) = {}
    BY <1>2 DEF OpenAt
  <1> QED BY <1>4, <1>5, <1>6

LEMMA GathersText ==
  ASSUME IInv, FramesOK, Fresh, TextsIn(shown, BlockFrames), NEW e \in Events, IsNext(e), Gathers(e)
  PROVE  TextsIn(shown', BlockFrames') /\ Fresh'
  <1>1. /\ shown' = shown /\ kind' = kind /\ replays' = replays /\ shown \in Seq(Frames)
        /\ next \in Nat /\ stream'[next] = e /\ 1..next - 1 \subseteq DOMAIN stream
        /\ \A m \in DOMAIN stream : stream'[m] = stream[m]
    BY StreamGrows DEF Gathers, IsNext, FramesOK
  <1>2. BlockFrames \subseteq BlockFrames' /\ WholeFrames \subseteq WholeFrames'
    BY WholeStays
  <1>3. TextsIn(shown', BlockFrames')
    BY <1>1, <1>2, TextsGrow
  <1>4. Cardinality(CutIn(shown', WholeFrames')) <= replays'
    <2>1. Cardinality(CutIn(shown, WholeFrames')) <= Cardinality(CutIn(shown, WholeFrames))
      BY <1>1, <1>2, CutIsFinite
    <2>2. Cardinality(CutIn(shown, WholeFrames')) \in Nat /\ Cardinality(CutIn(shown, WholeFrames)) \in Nat
      BY <1>1, <1>2, CutIsFinite
    <2>3. Cardinality(CutIn(shown, WholeFrames)) <= replays /\ replays \in 0..MaxReplays
      BY DEF Fresh, IInv, TypeOK
    <2>4. Cardinality(CutIn(shown, WholeFrames')) <= replays
      BY <2>1, <2>2, <2>3
    <2> QED BY <1>1, <2>4
  <1>5. /\ ToSet(buf) = OpenAt(next) /\ Ascending(buf) /\ \A n \in OpenAt(next) : stream[n].type = kind
        /\ OpenAt(next) \subseteq 1..next - 1
    BY DEF Fresh, OpenAt
  <1>6. e.type \in {kind, "garbled"} /\ (e.type \in Chunks /\ e.text => e.type = kind)
    BY DEF Gathers, Chunks
  <1>7. (OpenAt(next))' = OpenAt(next) \cup {n \in {next} : e.type \in Chunks /\ e.text}
    BY <1>5, <1>6, OpenNext
  <1>8. buf \in Seq(1..MaxEvents) /\ next \in 1..MaxEvents
    BY DEF IInv, TypeOK, IsNext
  <1>9. ToSet(buf') = (OpenAt(next))' /\ Ascending(buf')
    <2>1. CASE e.type \in Chunks /\ e.text
      <3>1. buf' = Append(buf, next)
        BY <2>1 DEF Gathers
      <3>2. /\ Len(buf) \in Nat /\ Len(buf') = Len(buf) + 1 /\ buf'[Len(buf) + 1] = next
            /\ \A i \in 1..Len(buf) : buf'[i] = buf[i]
            /\ DOMAIN buf = 1..Len(buf) /\ DOMAIN buf' = 1..Len(buf')
        BY <1>8, <3>1, AppendProperties, LenProperties
      <3>3. \A i \in DOMAIN buf' : i \in DOMAIN buf \/ i = Len(buf) + 1
        BY <3>2
      <3>4. DOMAIN buf \subseteq DOMAIN buf' /\ Len(buf) + 1 \in DOMAIN buf'
        BY <3>2
      <3>5. ToSet(buf') = ToSet(buf) \cup {next}
        BY <3>2, <3>3, <3>4 DEF ToSet
      <3>6. \A i \in DOMAIN buf : buf[i] < next
        BY <1>1, <1>5 DEF ToSet
      <3>7. \A i \in DOMAIN buf : ~(Len(buf) + 1 < i)
        BY <3>2
      <3>8. Ascending(buf')
        BY <1>5, <3>2, <3>3, <3>6, <3>7 DEF Ascending
      <3> QED BY <1>5, <1>7, <2>1, <3>5, <3>8
    <2>2. CASE ~(e.type \in Chunks /\ e.text)
      <3>1. buf' = buf
        BY <2>2 DEF Gathers
      <3> QED BY <1>5, <1>7, <2>2, <3>1
    <2> QED BY <2>1, <2>2
  <1>10. \A n \in (OpenAt(next))' : stream'[n].type = kind'
    BY <1>1, <1>5, <1>6, <1>7
  <1> QED BY <1>3, <1>4, <1>9, <1>10 DEF Fresh

(* The frame that is flushed is a block, but at the beginning of a replay. *)
LEMMA FlushedText ==
  ASSUME IInv, FramesOK, TextOK, NEW e \in Events, IsNext(e), e.type \notin {kind, "garbled"},
         NEW s \in Seq(Frames), TextsIn(s, BlockFrames'),
         Cardinality(CutIn(s, WholeFrames')) <= Cardinality(CutIn(shown, WholeFrames))
  PROVE  /\ TextsIn(s \o Flushed, BlockFrames')
         /\ Cardinality(CutIn(s \o Flushed, WholeFrames')) <= replays
  <1> DEFINE G == WholeFrames'
             n == Cardinality(CutIn(s, G))
             m == Cardinality(CutIn(shown, WholeFrames))
  <1>1. n \in Nat /\ m \in Nat /\ n <= m /\ IsFiniteSet(CutIn(s, G)) /\ replays \in Nat
    <2>1. n \in Nat /\ IsFiniteSet(CutIn(s, G))
      BY CutIsFinite
    <2>2. m \in Nat
      BY CutIsFinite DEF FramesOK
    <2>3. replays \in 0..MaxReplays
      BY DEF IInv, TypeOK
    <2> QED BY <2>1, <2>2, <2>3
  <1>2. m <= replays
    <2>1. (Fresh => m <= replays) /\ (Rerun => m + 1 <= replays)
      BY DEF Fresh, Rerun
    <2> HIDE DEF m
    <2> QED BY <1>1, <2>1 DEF TextOK
  <1>3. CASE buf = <<>>
    <2>1. s \o Flushed = s
      BY <1>3, ConcatEmptySeq DEF Flushed
    <2>2. n <= replays
      <3> HIDE DEF m, n
      <3> QED BY <1>1, <1>2
    <2> QED BY <2>1, <2>2
  <1>4. CASE buf # <<>>
    <2> DEFINE f == Text(kind, buf)
    <2>1. f \in Frames /\ kind \in Chunks /\ Flushed = <<f>>
      BY <1>4, TextIsFrame
    <2>2. CASE Fresh
      <3>1. f \in G
        BY <1>4, <2>2, FlushedIsWhole
      <3>2. f \in BlockFrames'
        BY <3>1 DEF WholeFrames
      <3> HIDE DEF f, G
      <3>3. TextsIn(s \o <<f>>, BlockFrames') /\ CutIn(s \o <<f>>, G) = CutIn(s, G)
        BY <2>1, <3>1, <3>2, CutNext
      <3>4. n <= replays
        <4> HIDE DEF m, n
        <4> QED BY <1>1, <1>2
      <3> QED BY <2>1, <3>3, <3>4 DEF G
    <2>3. CASE Rerun
      <3>1. f \in BlockFrames'
        <4>1. PICK k, parts : k = kind /\ parts = buf
          OBVIOUS
        <4>2. BeginsBlock(k, parts) /\ parts \in Seq(1..MaxEvents) /\ parts # <<>>
          BY <1>4, <2>3, <4>1 DEF Rerun, IInv, TypeOK
        <4>3. (BeginsBlock(k, parts))'
          BY <4>2, BeginsStays
        <4>4. f.kind = k /\ f.parts = parts
          BY <4>1 DEF Text
        <4> HIDE DEF f
        <4> QED BY <2>1, <4>1, <4>2, <4>3, <4>4 DEF BlockFrames
      <3> HIDE DEF f
      <3>2. TextsIn(s \o <<f>>, BlockFrames')
        BY <2>1, <3>1, CutNext
      <3>3. CutIn(s \o <<f>>, G) \subseteq CutIn(s, G) \cup {Len(s) + 1}
        BY <2>1, CutNext
      <3>4. /\ IsFiniteSet(CutIn(s, G) \cup {Len(s) + 1})
            /\ Cardinality(CutIn(s, G) \cup {Len(s) + 1}) \in {n, n + 1}
        BY <1>1, FS_AddElement
      <3>5. Cardinality(CutIn(s \o <<f>>, G)) <= Cardinality(CutIn(s, G) \cup {Len(s) + 1})
        BY <3>3, <3>4, FS_Subset
      <3>6. Cardinality(CutIn(s \o <<f>>, G)) \in Nat
        BY <3>3, <3>4, FS_Subset, FS_CardinalityType
      <3>7. m + 1 <= replays
        BY <2>3 DEF Rerun
      <3>8. Cardinality(CutIn(s \o <<f>>, G)) <= replays
        <4> HIDE DEF m, n, G
        <4> QED BY <1>1, <3>4, <3>5, <3>6, <3>7
      <3> QED BY <2>1, <3>2, <3>8
    <2> QED BY <2>2, <2>3 DEF TextOK
  <1> QED BY <1>3, <1>4

LEMMA FlushesText ==
  ASSUME IInv, FramesOK, TextOK, NEW e \in Events, IsNext(e), Flushes(e)
  PROVE  TextsIn(shown', BlockFrames') /\ Fresh'
  <1>1. PICK s \in Seq(Frames) : TextFree(shown, s) /\ TextFree(s \o Flushed, shown')
    <2>1. PICK s \in Seq(Frames) : \E w : /\ Silent(shown, s) /\ Adds(e, w)
                                          /\ shown' = s \o Flushed \o w
      BY DEF Flushes
    <2>2. PICK w : Adds(e, w) /\ shown' = s \o Flushed \o w
      BY <2>1
    <2>3. s \o Flushed \in Seq(Frames)
      BY FlushKeeps DEF Keeps
    <2>4. TextFree(s \o Flushed, shown')
      BY <2>2, <2>3, NoTextAdded DEF Adds
    <2> QED BY <2>1, <2>4 DEF Silent
  <1>2. /\ e.type \notin {kind, "garbled"} /\ kind' = IF e.type \in Chunks THEN e.type ELSE ""
        /\ buf' = IF e.type \in Chunks /\ e.text THEN <<next>> ELSE <<>>
    BY DEF Flushes
  <1>3. BlockFrames \subseteq BlockFrames' /\ WholeFrames \subseteq WholeFrames'
    BY WholeStays
  <1>4. TextsIn(s, BlockFrames')
    <2>1. TextsIn(s, BlockFrames)
      BY <1>1 DEF TextFree, TextOK
    <2> QED BY <1>3, <2>1, TextsGrow
  <1>5. Cardinality(CutIn(s, WholeFrames')) <= Cardinality(CutIn(shown, WholeFrames))
    <2>1. CutIn(s, WholeFrames') = CutIn(shown, WholeFrames')
      BY <1>1 DEF TextFree
    <2>2. Cardinality(CutIn(shown, WholeFrames')) <= Cardinality(CutIn(shown, WholeFrames))
      BY <1>3, CutIsFinite DEF FramesOK
    <2> QED BY <2>1, <2>2
  <1>6. /\ TextsIn(s \o Flushed, BlockFrames')
        /\ Cardinality(CutIn(s \o Flushed, WholeFrames')) <= replays
    BY <1>2, <1>4, <1>5, FlushedText
  <1>7. TextsIn(shown', BlockFrames') /\ Cardinality(CutIn(shown', WholeFrames')) <= replays
    BY <1>1, <1>6 DEF TextFree
  <1>8. {n \in OpenAt(next) : e.type \in {stream[n].type, "garbled"}} = {}
    <2>1. CASE Fresh
      BY <1>2, <2>1 DEF Fresh
    <2>2. CASE Rerun
      BY <2>2, RerunFlushes DEF TextOK
    <2> QED BY <2>1, <2>2 DEF TextOK
  <1>9. (OpenAt(next))' = {n \in {next} : e.type \in Chunks /\ e.text}
    BY <1>8, OpenNext
  <1>10. ToSet(buf') = (OpenAt(next))' /\ Ascending(buf')
    <2>1. CASE e.type \in Chunks /\ e.text
      <3>1. buf' = <<next>>
        BY <1>2, <2>1
      <3>2. \A x : DOMAIN <<x>> = {1} /\ <<x>>[1] = x
        OBVIOUS
      <3>3. ToSet(buf') = {next} /\ Ascending(buf')
        BY <3>1, <3>2 DEF ToSet, Ascending
      <3> QED BY <1>9, <2>1, <3>3
    <2>2. CASE ~(e.type \in Chunks /\ e.text)
      <3>1. buf' = <<>>
        BY <1>2, <2>2
      <3>2. ToSet(buf') = {} /\ Ascending(buf')
        BY <3>1 DEF ToSet, Ascending
      <3> QED BY <1>9, <2>2, <3>2
    <2> QED BY <2>1, <2>2
  <1>11. \A n \in (OpenAt(next))' : stream'[n].type = kind'
    BY <1>2, <1>9 DEF IsNext
  <1>12. replays' = replays
    BY DEF IsNext
  <1> QED BY <1>7, <1>10, <1>11, <1>12 DEF Fresh

LEMMA NoText == (Empty /\ shown = <<>>) => TextOK
  <1> SUFFICES ASSUME Empty, shown = <<>> PROVE TextOK
    OBVIOUS
  <1>1. Len(shown) = 0 /\ stream = <<>> /\ next = 1 /\ replays = 0 /\ buf = <<>>
    BY EmptySeq DEF Empty
  <1>2. 1..Len(shown) = {}
    BY <1>1
  <1>3. CutIn(shown, WholeFrames) = {} /\ TextsIn(shown, BlockFrames)
    BY <1>2 DEF CutIn, TextsIn
  <1>4. OpenAt(next) = {}
    BY <1>1 DEF OpenAt
  <1>5. ToSet(buf) = {} /\ Ascending(buf)
    BY <1>1 DEF ToSet, Ascending
  <1>6. Cardinality(CutIn(shown, WholeFrames)) <= replays
    <2>1. Cardinality(CutIn(shown, WholeFrames)) = 0
      BY <1>3, FS_EmptySet
    <2> QED BY <1>1, <2>1
  <1> QED BY <1>1, <1>3, <1>4, <1>5, <1>6 DEF TextOK, Fresh, StartsQuiet

LEMMA TextStep ==
  ASSUME IInv, FramesOK, TextOK, [Next]_vars
  PROVE  TextOK'
  <1>1. CASE Deliver
    <2>1. PICK e \in Events : IsNext(e)
      BY <1>1, DeliverIsNext DEF IInv
    <2>2. StartsQuiet'
      BY <2>1, StartStays DEF TextOK
    <2>3. CASE Gathers(e)
      <3>1. Fresh
        BY <2>1, <2>3, RerunFlushes DEF TextOK
      <3> QED BY <2>1, <2>2, <2>3, <3>1, GathersText DEF TextOK
    <2>4. CASE Flushes(e)
      BY <2>1, <2>2, <2>4, FlushesText DEF TextOK
    <2> QED BY <2>1, <2>3, <2>4, GathersOrFlushes
  <1>2. CASE Replay
    <2>1. /\ stream' = stream /\ buf' = buf /\ kind' = kind /\ shown' = shown /\ next' = 1
          /\ replays' = replays + 1 /\ next > 1
      BY <1>2 DEF Replay
    <2>2. BlockFrames' = BlockFrames /\ WholeFrames' = WholeFrames
      BY <2>1 DEF BlockFrames, WholeFrames, BeginsBlock, RunOf, IsText, SameRun
    <2>3. Fresh
      BY <2>1 DEF TextOK, Rerun
    <2>4. stream' # <<>>
      <3>1. next \in 1..Len(stream) + 1 /\ Len(stream) \in Nat
        BY LenProperties DEF IInv, TypeOK
      <3>2. Len(stream) # 0
        BY <2>1, <3>1
      <3> QED BY <2>1, <3>2, EmptySeq
    <2>5. buf' # <<>> => (BeginsBlock(kind, buf))'
      <3> SUFFICES ASSUME buf # <<>> PROVE (BeginsBlock(kind, buf))'
        BY <2>1
      <3>1. BeginsBlock(kind, buf)
        BY <2>3, FreshBegins
      <3> QED BY <2>1, <3>1 DEF BeginsBlock, RunOf, IsText, SameRun
    <2>6. Cardinality(CutIn(shown, WholeFrames)) + 1 <= replays'
      <3>1. Cardinality(CutIn(shown, WholeFrames)) \in Nat
        BY CutIsFinite DEF FramesOK
      <3>2. replays \in 0..MaxReplays
        BY DEF IInv, TypeOK
      <3>3. Cardinality(CutIn(shown, WholeFrames)) <= replays
        BY <2>3 DEF Fresh
      <3> QED BY <2>1, <3>1, <3>2, <3>3
    <2>7. Rerun'
      BY <2>1, <2>2, <2>4, <2>5, <2>6 DEF Rerun
    <2>8. StartsQuiet' /\ TextsIn(shown', BlockFrames')
      BY <2>1, <2>2 DEF StartsQuiet, TextOK
    <2> QED BY <2>7, <2>8 DEF TextOK
  <1>3. CASE SetStream
    <2>1. Empty' /\ (shown = <<>>)'
      BY <1>3 DEF SetStream, Empty
    <2> QED BY <2>1, NoText, PTL
  <1>4. CASE UNCHANGED vars
    <2>1. BlockFrames' = BlockFrames /\ WholeFrames' = WholeFrames
      BY <1>4 DEF BlockFrames, WholeFrames, BeginsBlock, RunOf, IsText, SameRun, vars, externalVars
    <2>2. (OpenAt(next))' = OpenAt(next)
      BY <1>4 DEF OpenAt, IsText, vars, externalVars
    <2>3. (BeginsBlock(kind, buf))' = BeginsBlock(kind, buf)
      BY <1>4 DEF BeginsBlock, RunOf, IsText, SameRun, vars, externalVars
    <2> QED BY <1>4, <2>1, <2>2, <2>3 DEF TextOK, StartsQuiet, Fresh, Rerun, vars, externalVars
  <1> QED BY <1>1, <1>2, <1>3, <1>4 DEF Next

LEMMA TextInvariant == Spec => []TextOK
  <1>1. Init => TextOK
    BY NoText DEF Init, Empty
  <1>2. IInv /\ FramesOK /\ TextOK /\ [Next]_vars => TextOK'
    BY TextStep
  <1> QED BY <1>1, <1>2, InductiveInvariant, FramesInvariant, PTL DEF Spec

(* The package comment of coalesce.go: the blocks of text are the runs of  *)
(* chunks of one kind, in order, none left out and none twice; each replay *)
(* cuts at most one of them short.                                         *)
THEOREM TextIsCoalesced == Spec => []Coalesced
  <1>1. IInv /\ FramesOK /\ TextOK => Coalesced
    <2> SUFFICES ASSUME IInv, FramesOK, TextOK PROVE Coalesced
      OBVIOUS
    <2>1. shown \in Seq(Frames) /\ DOMAIN shown = 1..Len(shown)
      BY LenProperties DEF FramesOK
    <2>2. \A i \in TextFrames : shown[i] \in BlockFrames
      BY <2>1 DEF TextOK, TextsIn, TextFrames
    <2>3. \A i \in TextFrames : BeginsBlock(shown[i].kind, shown[i].parts)
      BY <2>2 DEF BlockFrames
    <2>4. buf # <<>> => BeginsBlock(kind, buf)
      BY FreshBegins DEF TextOK, Rerun
    <2>5. Cardinality({i \in TextFrames : ToSet(shown[i].parts) # RunOf(shown[i].parts[1])}) <= replays
      <3> DEFINE C == {i \in TextFrames : ToSet(shown[i].parts) # RunOf(shown[i].parts[1])}
                 D == CutIn(shown, WholeFrames)
      <3>1. C \subseteq D
        BY <2>1 DEF CutIn, WholeFrames, TextFrames
      <3>2. IsFiniteSet(D) /\ Cardinality(D) \in Nat
        BY <2>1, CutIsFinite
      <3>3. (Fresh => Cardinality(D) <= replays) /\ (Rerun => Cardinality(D) + 1 <= replays)
        BY DEF Fresh, Rerun
      <3>4. replays \in 0..MaxReplays
        BY DEF IInv, TypeOK
      <3> HIDE DEF C, D
      <3>5. Cardinality(C) <= Cardinality(D) /\ Cardinality(C) \in Nat
        BY <3>1, <3>2, FS_Subset, FS_CardinalityType
      <3>6. Cardinality(D) <= replays
        BY <3>2, <3>3, <3>4 DEF TextOK
      <3>7. Cardinality(C) <= replays
        BY <3>2, <3>4, <3>5, <3>6
      <3> QED BY <3>7 DEF C
    <2> QED BY <2>3, <2>4, <2>5 DEF Coalesced
  <1> QED BY <1>1, InductiveInvariant, FramesInvariant, TextInvariant, PTL

-----------------------------------------------------------------------------
(* No part of the timeline is lost *)

(* What is to come does not go back, or one of the replays has not yet     *)
(* gone back.                                                              *)
OrderOK ==
    /\ NothingLost
    /\ \/ UpTo(AllFrames, next) /\ Cardinality(Back(AllFrames)) <= replays
       \/ Cardinality(Back(AllFrames)) + 1 <= replays

(* A frame about event k is added, or k is added to the last one.          *)
Says(t, u, k) ==
    /\ Said(t) \subseteq Said(u) /\ k \in Said(u) /\ UpTo(u, k + 1)
    /\ \/ Cardinality(Back(u)) = Cardinality(Back(t))
       \/ ~UpTo(t, k) /\ Cardinality(Back(u)) = Cardinality(Back(t)) + 1

SaysNothing(t, u) ==
    /\ Said(t) = Said(u) /\ \A k : UpTo(u, k) <=> UpTo(t, k)
    /\ Cardinality(Back(u)) = Cardinality(Back(t))

LEMMA SaysNext ==
  ASSUME NEW s \in Seq(Frames), NEW k \in 1..MaxEvents, NEW f \in Frames, f.parts = <<k>>
  PROVE  Says(s, s \o <<f>>, k)
  <1>1. /\ f.parts # <<>> /\ f.parts[1] = k /\ Last(f.parts) = k /\ k \in ToSet(f.parts)
    <2>1. f.parts # <<>> /\ f.parts[1] = k /\ Last(f.parts) = k
      BY DEF Last
    <2> QED BY <2>1, PartsOfFrame
  <1>2. k < k + 1
    OBVIOUS
  <1>3. /\ Said(s \o <<f>>) = Said(s) \cup ToSet(f.parts)
        /\ \A m : UpTo(s \o <<f>>, m) <=> k < m
    BY <1>1, BackNext
  <1>4. \/ Cardinality(Back(s \o <<f>>)) = Cardinality(Back(s))
        \/ ~UpTo(s, k) /\ Cardinality(Back(s \o <<f>>)) = Cardinality(Back(s)) + 1
    BY <1>1, CountBack
  <1> QED BY <1>1, <1>2, <1>3, <1>4 DEF Says

LEMMA SaysMore ==
  ASSUME NEW s \in Seq(Frames), NEW k \in 1..MaxEvents, NEW f \in Frames, NEW g \in Frames,
         f.parts # <<>>, g.parts = Append(f.parts, k)
  PROVE  Says(s \o <<f>>, s \o <<g>>, k)
  <1>1. f.parts \in Seq(1..MaxEvents)
    BY PartsOfFrame
  <1>2. /\ g.parts # <<>> /\ g.parts[1] = f.parts[1] /\ Last(g.parts) = k
        /\ ToSet(f.parts) \subseteq ToSet(g.parts) /\ k \in ToSet(g.parts)
    <2>1. \A p \in Seq(1..MaxEvents) : p # <<>> => 1 \in 1..Len(p)
      BY LenProperties, EmptySeq
    <2> DEFINE p == f.parts
               q == g.parts
    <2>2. /\ q \in Seq(1..MaxEvents) /\ Len(p) \in Nat /\ Len(q) = Len(p) + 1 /\ q[Len(p) + 1] = k
          /\ \A i \in 1..Len(p) : q[i] = p[i]
          /\ DOMAIN p = 1..Len(p) /\ DOMAIN q = 1..Len(q) /\ 1 \in 1..Len(p)
      BY <1>1, <2>1, AppendProperties, LenProperties
    <2> HIDE DEF p, q
    <2>3. q[1] = p[1] /\ Last(q) = k /\ q # <<>>
      BY <2>2, EmptySeq DEF Last
    <2>4. DOMAIN p \subseteq DOMAIN q /\ Len(p) + 1 \in DOMAIN q
      BY <2>2
    <2>5. ToSet(p) \subseteq ToSet(q) /\ k \in ToSet(q)
      BY <2>2, <2>4 DEF ToSet
    <2> QED BY <2>3, <2>5 DEF p, q
  <1>3. k < k + 1
    OBVIOUS
  <1>4. /\ Said(s \o <<f>>) = Said(s) \cup ToSet(f.parts)
        /\ Said(s \o <<g>>) = Said(s) \cup ToSet(g.parts)
        /\ \A m : UpTo(s \o <<g>>, m) <=> k < m
    BY <1>2, BackNext
  <1>5. Cardinality(Back(s \o <<g>>)) = Cardinality(Back(s \o <<f>>))
    BY <1>2, CountBack
  <1> QED BY <1>2, <1>3, <1>4, <1>5 DEF Says

(* The swaps before what is flushed. *)
LEMMA FlushedAfter ==
  ASSUME IInv, FramesOK, NEW s \in Seq(Frames), Silent(shown, s)
  PROVE  SaysNothing(AllFrames, s \o Flushed) /\ AllFrames \in Seq(Frames) /\ s \o Flushed \in Seq(Frames)
  <1>1. shown \in Seq(Frames) /\ AllFrames \in Seq(Frames) /\ s \o Flushed \in Seq(Frames)
    BY FlushKeeps DEF Keeps, FramesOK, AllFrames
  <1>2. Said(s) = Said(shown) /\ Back(s) = Back(shown) /\ \A k : UpTo(s, k) <=> UpTo(shown, k)
    BY DEF Silent
  <1>3. CASE buf = <<>>
    <2>1. AllFrames = shown /\ s \o Flushed = s
      BY <1>1, <1>3, ConcatEmptySeq DEF Flushed, AllFrames
    <2> QED BY <1>1, <1>2, <2>1 DEF SaysNothing
  <1>4. CASE buf # <<>>
    <2> DEFINE f == Text(kind, buf)
    <2>1. f \in Frames /\ Flushed = <<f>> /\ f.parts # <<>>
      BY <1>4, TextIsFrame DEF Text
    <2>2. AllFrames = shown \o <<f>>
      BY <2>1 DEF AllFrames
    <2> HIDE DEF f
    <2>3. Said(shown \o <<f>>) = Said(s \o <<f>>) /\ \A k : UpTo(s \o <<f>>, k) <=> UpTo(shown \o <<f>>, k)
      <3>1. /\ Said(shown \o <<f>>) = Said(shown) \cup ToSet(f.parts)
            /\ \A k : UpTo(shown \o <<f>>, k) <=> Last(f.parts) < k
        BY <1>1, <2>1, BackNext
      <3>2. /\ Said(s \o <<f>>) = Said(s) \cup ToSet(f.parts)
            /\ \A k : UpTo(s \o <<f>>, k) <=> Last(f.parts) < k
        BY <2>1, BackNext
      <3> QED BY <1>2, <3>1, <3>2
    <2>4. Cardinality(Back(s \o <<f>>)) = Cardinality(Back(shown \o <<f>>))
      BY <1>1, <1>2, <2>1, CountBack
    <2> QED BY <1>1, <2>1, <2>2, <2>3, <2>4 DEF SaysNothing
  <1> QED BY <1>3, <1>4

LEMMA SaysAfter ==
  ASSUME NEW t, NEW u, NEW v, NEW k, SaysNothing(t, u)
  PROVE  (SaysNothing(u, v) => SaysNothing(t, v)) /\ (Says(u, v, k) => Says(t, v, k))
  BY DEF SaysNothing, Says

(* The events that have something to show. *)
Speaks(e) == (e.type \in Chunks /\ e.text) \/ e.type \in {"block", "tool_call"}

LEMMA GathersSays ==
  ASSUME IInv, FramesOK, NEW e \in Events, IsNext(e), Gathers(e),
         NEW u, u = AllFrames', NEW k, k = next
  PROVE  Says(AllFrames, u, k) \/ (~Speaks(e) /\ SaysNothing(AllFrames, u))
  <1>1. /\ shown \in Seq(Frames) /\ shown' = shown /\ kind' = kind /\ k \in 1..MaxEvents
        /\ buf' = IF e.type \in Chunks /\ e.text THEN Append(buf, k) ELSE buf
        /\ kind \in Chunks \cup {""} /\ e.type \in {kind, "garbled"} /\ buf \in Seq(1..MaxEvents)
    BY DEF Gathers, FramesOK, IsNext, IInv, TypeOK
  <1>2. u = shown \o (IF buf' = <<>> THEN <<>> ELSE <<Text(kind, buf')>>)
    BY <1>1 DEF AllFrames, Flushed
  <1>3. CASE ~(e.type \in Chunks /\ e.text)
    <2>1. u = AllFrames
      BY <1>1, <1>2, <1>3 DEF AllFrames, Flushed
    <2>2. ~Speaks(e)
      BY <1>1, <1>3 DEF Speaks, Chunks
    <2> QED BY <2>1, <2>2 DEF SaysNothing
  <1>4. CASE e.type \in Chunks /\ e.text
    <2> DEFINE g == Text(kind, buf')
    <2>1. /\ buf' = Append(buf, k) /\ buf' \in Seq(1..MaxEvents) /\ buf' # <<>>
      <3>1. buf' = Append(buf, k)
        BY <1>1, <1>4
      <3>2. Append(buf, k) \in Seq(1..MaxEvents) /\ Append(buf, k) # <<>>
        BY <1>1, AppendProperties
      <3> QED BY <3>1, <3>2
    <2>2. g \in Frames /\ g.parts = Append(buf, k) /\ u = shown \o <<g>>
      <3>1. kind \in Chunks
        BY <1>1, <1>4 DEF Chunks
      <3> QED BY <1>2, <2>1, <3>1 DEF Text, Frames
    <2> HIDE DEF g
    <2>3. CASE buf = <<>>
      <3>1. AllFrames = shown
        BY <1>1, <2>3, ConcatEmptySeq DEF AllFrames, Flushed
      <3>2. g.parts = <<k>>
        BY <2>2, <2>3
      <3>3. Says(shown, shown \o <<g>>, k)
        BY <1>1, <2>2, <3>2, SaysNext
      <3> QED BY <2>2, <3>1, <3>3
    <2>4. CASE buf # <<>>
      <3> DEFINE f == Text(kind, buf)
      <3>1. f \in Frames /\ f.parts = buf /\ AllFrames = shown \o <<f>>
        BY <2>4, TextIsFrame DEF Text, AllFrames
      <3> HIDE DEF f
      <3>2. Says(shown \o <<f>>, shown \o <<g>>, k)
        BY <1>1, <2>2, <2>4, <3>1, SaysMore
      <3> QED BY <2>2, <3>1, <3>2
    <2> QED BY <2>3, <2>4
  <1> QED BY <1>3, <1>4

LEMMA FlushesSays ==
  ASSUME IInv, FramesOK, NEW e \in Events, IsNext(e), Flushes(e),
         NEW u, u = AllFrames', NEW k, k = next
  PROVE  Says(AllFrames, u, k) \/ (~Speaks(e) /\ SaysNothing(AllFrames, u))
  <1>1. PICK s \in Seq(Frames) : \E w : Silent(shown, s) /\ shown' = s \o Flushed \o w /\ Adds(e, w)
    BY DEF Flushes
  <1>2. PICK w : Silent(shown, s) /\ shown' = s \o Flushed \o w /\ Adds(e, w)
    BY <1>1
  <1>3. k \in 1..MaxEvents /\ kind' = (IF e.type \in Chunks THEN e.type ELSE "")
        /\ buf' = IF e.type \in Chunks /\ e.text THEN <<k>> ELSE <<>>
    BY DEF Flushes, IsNext
  <1> DEFINE t == s \o Flushed
  <1>4. SaysNothing(AllFrames, t) /\ t \in Seq(Frames)
    BY <1>2, FlushedAfter
  <1>5. u = t \o w \o (IF buf' = <<>> THEN <<>> ELSE <<Text(kind', buf')>>)
    BY <1>2 DEF AllFrames, Flushed
  <1> HIDE DEF t
  <1>6. CASE e.type \in Chunks /\ e.text
    <2> DEFINE f == Text(e.type, <<k>>)
    <2>1. f \in Frames /\ f.parts = <<k>>
      BY <1>3, <1>6 DEF Text, Frames
    <2>2. w = <<>> /\ kind' = e.type /\ buf' = <<k>>
      BY <1>2, <1>3, <1>6 DEF Adds, Chunks
    <2>3. u = t \o <<>> \o <<f>>
      BY <1>5, <2>2
    <2> HIDE DEF f
    <2>4. u = t \o <<f>>
      BY <1>4, <2>3, ConcatEmptySeq
    <2>5. Says(t, u, k)
      BY <1>3, <1>4, <2>1, <2>4, SaysNext
    <2> QED BY <1>4, <2>5, SaysAfter
  <1>7. CASE e.type \in {"block", "tool_call"}
    <2>1. PICK f \in Frames : w = <<f>> /\ f.parts = <<k>>
      BY <1>2, <1>7 DEF Adds
    <2>2. buf' = <<>>
      BY <1>3, <1>7 DEF Chunks
    <2>3. t \o <<f>> \in Seq(Frames)
      BY <1>4, BackNext
    <2>4. u = t \o <<f>>
      BY <1>5, <2>1, <2>2, <2>3, ConcatEmptySeq
    <2>5. Says(t, u, k)
      BY <1>3, <1>4, <2>1, <2>4, SaysNext
    <2> QED BY <1>4, <2>5, SaysAfter
  <1>8. CASE ~Speaks(e)
    <2>1. w = <<>> /\ buf' = <<>>
      BY <1>2, <1>3, <1>8 DEF Adds, Speaks
    <2>2. u = t
      BY <1>4, <1>5, <2>1, ConcatEmptySeq
    <2> QED BY <1>4, <1>8, <2>2
  <1> QED BY <1>6, <1>7, <1>8 DEF Speaks

(* The events of the stream that have something to show are in frames. *)
LEMMA NothingLostNext ==
  ASSUME IInv, NothingLost, NEW e \in Events, IsNext(e), NEW u, u = AllFrames', NEW k, k = next,
         Says(AllFrames, u, k) \/ (~Speaks(e) /\ SaysNothing(AllFrames, u))
  PROVE  NothingLost'
  <1>1. Said(AllFrames) \subseteq Said(u) /\ (Speaks(e) => k \in Said(u))
    BY DEF Says, SaysNothing
  <1>2. Said(u) = UNION {ToSet(f.parts) : f \in ToSet(AllFrames')}
    BY DEF Said
  <1>3. SUFFICES ASSUME NEW n \in DOMAIN stream',
                        (IsText(n))' \/ stream'[n].type \in {"block", "tool_call"}
                 PROVE  n \in Said(u)
    BY <1>2 DEF NothingLost
  <1>4. CASE n = k
    <2>1. stream'[n] = e
      BY <1>4 DEF IsNext
    <2>2. Speaks(e)
      BY <1>3, <2>1 DEF IsText, Speaks
    <2> QED BY <1>1, <1>4, <2>2
  <1>5. CASE n # k
    <2>1. n \in DOMAIN stream /\ stream'[n] = stream[n]
      BY <1>5 DEF IsNext
    <2>2. IsText(n) \/ stream[n].type \in {"block", "tool_call"}
      BY <1>3, <2>1 DEF IsText
    <2>3. n \in Said(AllFrames)
      BY <2>1, <2>2 DEF NothingLost, Said
    <2> QED BY <1>1, <2>3
  <1> QED BY <1>4, <1>5

LEMMA UpToGrows ==
  ASSUME NEW s \in Seq(Frames), NEW k \in Nat, UpTo(s, k)
  PROVE  UpTo(s, k + 1)
  <1>1. ASSUME NEW j \in 1..Len(s), s[j].parts # <<>>, Last(s[j].parts) < k
        PROVE  Last(s[j].parts) < k + 1
    <2>1. s[j] \in Frames
      BY ElementOfSeq
    <2>2. Last(s[j].parts) \in 1..MaxEvents
      BY <1>1, <2>1, PartsOfFrame
    <2> QED BY <1>1, <2>2
  <1> QED BY <1>1 DEF UpTo

LEMMA CountType ==
  ASSUME NEW s \in Seq(Frames)
  PROVE  Cardinality(Back(s)) \in Nat
  <1>1. Len(s) \in Nat
    BY LenProperties
  <1>2. IsFiniteSet(1..Len(s)) /\ Back(s) \subseteq 1..Len(s)
    BY <1>1, FS_Interval DEF Back
  <1> QED BY <1>2, FS_Subset, FS_CardinalityType

LEMMA NothingShown == (Empty /\ shown = <<>>) => OrderOK
  <1> SUFFICES ASSUME Empty, shown = <<>> PROVE OrderOK
    OBVIOUS
  <1>1. stream = <<>> /\ next = 1 /\ replays = 0 /\ buf = <<>>
    BY DEF Empty
  <1>2. AllFrames = <<>> /\ 1..Len(AllFrames) = {} /\ DOMAIN stream = {}
    BY <1>1 DEF AllFrames, Flushed
  <1>3. NothingLost
    BY <1>2 DEF NothingLost
  <1>4. UpTo(AllFrames, next) /\ Back(AllFrames) = {}
    BY <1>2 DEF UpTo, Back
  <1>5. Cardinality(Back(AllFrames)) <= replays
    BY <1>1, <1>4, FS_EmptySet
  <1> QED BY <1>3, <1>4, <1>5 DEF OrderOK

LEMMA OrderStep ==
  ASSUME IInv, FramesOK, OrderOK, [Next]_vars
  PROVE  OrderOK'
  <1> DEFINE t == AllFrames
             u == AllFrames'
             b == Cardinality(Back(t))
             c == Cardinality(Back(u))
  <1>1. t \in Seq(Frames) /\ b \in Nat
    <2>1. AllFrames \in Seq(Frames)
      BY FlushKeeps DEF Keeps, FramesOK, AllFrames
    <2> QED BY <2>1, CountType
  <1>2. replays \in Nat /\ next \in Nat
    <2>1. replays \in 0..MaxReplays /\ next \in 1..Len(stream) + 1 /\ Len(stream) \in Nat
      BY LenProperties DEF IInv, TypeOK
    <2> QED BY <2>1
  <1>3. (UpTo(t, next) /\ b <= replays) \/ b + 1 <= replays
    BY DEF OrderOK
  <1>4. CASE Deliver
    <2>1. PICK e \in Events : IsNext(e)
      BY <1>4, DeliverIsNext DEF IInv
    <2>2. PICK k : k = next
      OBVIOUS
    <2>3. Says(t, u, k) \/ (~Speaks(e) /\ SaysNothing(t, u))
      BY <2>1, <2>2, GathersOrFlushes, GathersSays, FlushesSays
    <2>4. NothingLost'
      BY <2>1, <2>2, <2>3, NothingLostNext DEF OrderOK
    <2>5. next' = k + 1 /\ replays' = replays /\ k \in Nat
      BY <1>2, <2>1, <2>2 DEF IsNext
    <2>6. (UpTo(u, k + 1) /\ c <= replays) \/ c + 1 <= replays
      <3>1. CASE Says(t, u, k)
        <4>1. UpTo(u, k + 1) /\ (c = b \/ (~UpTo(t, k) /\ c = b + 1))
          BY <3>1 DEF Says
        <4> HIDE DEF b, c
        <4> QED BY <1>1, <1>2, <1>3, <2>2, <4>1
      <3>2. CASE SaysNothing(t, u)
        <4>1. c = b /\ (UpTo(t, k) => UpTo(t, k + 1)) /\ (UpTo(t, k + 1) => UpTo(u, k + 1))
          BY <1>1, <2>5, <3>2, UpToGrows DEF SaysNothing
        <4> HIDE DEF b, c
        <4> QED BY <1>3, <2>2, <4>1
      <3> QED BY <2>3, <3>1, <3>2
    <2> QED BY <2>4, <2>5, <2>6 DEF OrderOK
  <1>5. CASE Replay
    <2>1. /\ stream' = stream /\ u = t /\ replays' = replays + 1
      BY <1>5 DEF Replay, AllFrames, Flushed
    <2>2. NothingLost'
      BY <1>5 DEF Replay, OrderOK, NothingLost, AllFrames, Flushed, IsText
    <2>3. b + 1 <= replays + 1
      <3> HIDE DEF b
      <3> QED BY <1>1, <1>2, <1>3
    <2>4. c + 1 <= replays'
      BY <2>1, <2>3
    <2> QED BY <2>2, <2>4 DEF OrderOK
  <1>6. CASE SetStream
    <2>1. Empty' /\ (shown = <<>>)'
      BY <1>6 DEF SetStream, Empty
    <2> QED BY <2>1, NothingShown, PTL
  <1>7. CASE UNCHANGED vars
    <2>1. u = t /\ next' = next /\ replays' = replays
      BY <1>7 DEF AllFrames, Flushed, vars, externalVars
    <2>2. NothingLost'
      BY <1>7 DEF OrderOK, NothingLost, AllFrames, Flushed, IsText, vars, externalVars
    <2> QED BY <1>3, <2>1, <2>2 DEF OrderOK
  <1> QED BY <1>4, <1>5, <1>6, <1>7 DEF Next

LEMMA OrderInvariant == Spec => []OrderOK
  <1>1. Init => OrderOK
    BY NothingShown DEF Init, Empty
  <1>2. IInv /\ FramesOK /\ OrderOK /\ [Next]_vars => OrderOK'
    BY OrderStep
  <1> QED BY <1>1, <1>2, InductiveInvariant, FramesInvariant, PTL DEF Spec

(* What handle and accumulate of coalesce.go broadcast and keep: whatever  *)
(* an event has to show is in a frame or in the buffer, and the frames are *)
(* in the order of the events but for one step back per replay.            *)
THEOREM TimelineIsComplete == Spec => []Complete
  <1>1. IInv /\ FramesOK /\ OrderOK => Complete
    <2> SUFFICES ASSUME IInv, FramesOK, OrderOK PROVE Complete
      OBVIOUS
    <2> DEFINE b == Cardinality(Back(AllFrames))
    <2>1. AllFrames \in Seq(Frames)
      BY FlushKeeps DEF Keeps, FramesOK, AllFrames
    <2>2. {i \in DOMAIN AllFrames : GoesBack(AllFrames, i)} = Back(AllFrames)
      BY <2>1, LenProperties DEF Back
    <2>3. b \in Nat /\ replays \in 0..MaxReplays /\ (b <= replays \/ b + 1 <= replays)
      BY <2>1, CountType DEF OrderOK, IInv, TypeOK
    <2>4. b <= replays
      <3> HIDE DEF b
      <3> QED BY <2>3
    <2>5. InOrder
      BY <2>2, <2>4 DEF InOrder
    <2> QED BY <2>5 DEF Complete, OrderOK
  <1> QED BY <1>1, InductiveInvariant, FramesInvariant, OrderInvariant, PTL
=============================================================================
