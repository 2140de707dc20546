----------------------------- MODULE DaemonProofs -----------------------------
(***************************************************************************)
(* Lemmas about Daemon that the proofs about its followers rest on: what   *)
(* every daemon and connection keeps (DaemonInv), and how the frames on    *)
(* their way continue what a follower has (Continues, Reaches).            *)
(***************************************************************************)
EXTENDS Daemon, SequenceTheorems, TLAPS

(* What can become of the wire: a frame is sent, one is read, the last     *)
(* ones are lost.                                                          *)
Sends(w, v, f) ==
    /\ v \in Seq(Frames) /\ Len(v) = Len(w) + 1
    /\ \A i \in 1..Len(w) : v[i] = w[i]
    /\ v[Len(w) + 1] = f
Reads(w, v) ==
    /\ v \in Seq(Frames) /\ Len(w) = Len(v) + 1
    /\ \A i \in 1..Len(v) : v[i] = w[i + 1]
Loses(w, v) ==
    /\ v \in Seq(Frames) /\ Len(v) <= Len(w)
    /\ \A i \in 1..Len(v) : v[i] = w[i]

(* A range that is summed up has more than one event, all of them old. *)
RangeOK(r, h) == r = NoRange \/ (1 <= r.from /\ r.from < r.to /\ r.to <= h)
SummaryOK == \A s \in Streams : RangeOK(summary[s], head[s])

(* Nothing is subscribed but on a connection. *)
LinkOK ==
    /\ link # "open" => \A s \in Streams : pos[s] = -1
    /\ link = "none" => wire = <<>>

(* A refusal names a boundary before the cursor that was asked for. *)
RpcOK ==
    /\ rpc.result = "compacted" => rpc.boundary < rpc.from
    /\ rpc.at = "idle" => rpc = Idle

FramesOK(w) ==
    \A i \in 1..Len(w) : w[i].kind = "push" => 1 <= w[i].first /\ w[i].first <= w[i].cursor

DaemonInv == DaemonTypeOK /\ SummaryOK /\ LinkOK /\ RpcOK /\ FramesOK(wire)
-----------------------------------------------------------------------------
LEMMA AppendSends ==
  ASSUME NEW w \in Seq(Frames), NEW f \in Frames
  PROVE  Sends(w, Append(w, f), f)
  BY AppendProperties DEF Sends

LEMMA TailReads ==
  ASSUME NEW w \in Seq(Frames), w # <<>>
  PROVE  Reads(w, Tail(w)) /\ Head(w) = w[1] /\ Head(w) \in Frames /\ 1 \in 1..Len(w)
  <1>1. Len(w) \in Nat \ {0}
    BY EmptySeq
  <1>2. Tail(w) \in Seq(Frames) /\ Len(Tail(w)) = Len(w) - 1 /\ Head(w) \in Frames
        /\ \A i \in 1..Len(Tail(w)) : Tail(w)[i] = w[i + 1]
    BY HeadTailProperties
  <1>3. Len(w) = Len(Tail(w)) + 1
    BY <1>1, <1>2
  <1> QED BY <1>1, <1>2, <1>3 DEF Reads

LEMMA SubSeqLoses ==
  ASSUME NEW w \in Seq(Frames), NEW n \in 0..Len(w)
  PROVE  Loses(w, SubSeq(w, 1, n))
  <1>1. Len(w) \in Nat
    BY LenProperties
  <1>2. \A i \in 1..n : w[i] \in Frames
    BY <1>1, ElementOfSeq
  <1>3. /\ SubSeq(w, 1, n) \in Seq(Frames)
        /\ Len(SubSeq(w, 1, n)) = IF 1 <= n THEN n - 1 + 1 ELSE 0
        /\ \A i \in 1..n - 1 + 1 : SubSeq(w, 1, n)[i] = w[1 + i - 1]
    BY <1>1, <1>2, SubSeqProperties
  <1>4. Len(SubSeq(w, 1, n)) = n
    BY <1>1, <1>3
  <1> QED BY <1>1, <1>3, <1>4 DEF Loses

LEMMA SendsFramesOK ==
  ASSUME NEW w \in Seq(Frames), NEW v, NEW f, FramesOK(w), Sends(w, v, f),
         f.kind = "push" => 1 <= f.first /\ f.first <= f.cursor
  PROVE  FramesOK(v)
  <1>1. Len(w) \in Nat
    BY LenProperties
  <1> QED BY <1>1 DEF FramesOK, Sends

LEMMA ReadsFramesOK ==
  ASSUME NEW w \in Seq(Frames), NEW v, FramesOK(w), Reads(w, v)
  PROVE  FramesOK(v)
  <1>1. Len(v) \in Nat
    BY LenProperties DEF Reads
  <1>2. \A i \in 1..Len(v) : i + 1 \in 1..Len(w)
    BY <1>1 DEF Reads
  <1> QED BY <1>2 DEF FramesOK, Reads

LEMMA LosesFramesOK ==
  ASSUME NEW w \in Seq(Frames), NEW v, FramesOK(w), Loses(w, v)
  PROVE  FramesOK(v)
  <1>1. Len(v) \in Nat /\ Len(w) \in Nat
    BY LenProperties DEF Loses
  <1> QED BY <1>1 DEF FramesOK, Loses

LEMMA IdleOK == ASSUME Streams # {} PROVE Idle \in Calls
  BY DaemonAssumption DEF Idle, Calls

LEMMA DaemonInvInit == ASSUME DaemonInit, Streams # {} PROVE DaemonInv
  <1> USE DEF DaemonInit
  <1>1. wire \in Seq(Frames) /\ Len(wire) = 0
    BY EmptySeq
  <1>2. DaemonTypeOK
    BY <1>1, DaemonAssumption, IdleOK DEF DaemonTypeOK, Ranges, NoRange
  <1>3. SummaryOK /\ LinkOK /\ RpcOK
    BY DEF SummaryOK, RangeOK, LinkOK, RpcOK, Idle
  <1>4. FramesOK(wire)
    BY <1>1 DEF FramesOK
  <1> QED BY <1>2, <1>3, <1>4 DEF DaemonInv

-----------------------------------------------------------------------------
(* The daemon's steps keep DaemonInv. *)

LEMMA FaultOK == ASSUME DaemonTypeOK, Fault PROVE faults' \in 0..MaxFaults
  BY DaemonAssumption DEF DaemonTypeOK, Fault

LEMMA EmitKeepsDaemonInv ==
  ASSUME DaemonInv, NEW s \in Streams, Emit(s)
  PROVE  DaemonInv'
  <1> USE DEF DaemonInv, Emit
  <1>1. head' \in [Streams -> 0..MaxSeq] /\ \A t \in Streams : head[t] <= head'[t]
    BY DaemonAssumption DEF DaemonTypeOK
  <1>2. DaemonTypeOK'
    BY <1>1 DEF DaemonTypeOK
  <1>3. SummaryOK'
    <2> SUFFICES ASSUME NEW t \in Streams PROVE RangeOK(summary[t], head'[t])
      BY DEF SummaryOK
    <2>1. RangeOK(summary[t], head[t]) /\ head[t] <= head'[t]
      BY <1>1 DEF SummaryOK
    <2>2. head[t] \in Int /\ head'[t] \in Int /\ summary[t] \in Ranges
      BY <1>1 DEF DaemonTypeOK
    <2> QED BY <2>1, <2>2 DEF RangeOK, Ranges
  <1> QED BY <1>2, <1>3 DEF LinkOK, RpcOK

LEMMA CompactKeepsDaemonInv ==
  ASSUME DaemonInv, NEW s \in Streams, Compact(s)
  PROVE  DaemonInv'
  <1> USE DEF DaemonInv
  <1>1. PICK r \in [from : 1..head[s], to : 1..head[s]] :
           r.from < r.to /\ summary' = [summary EXCEPT ![s] = r]
    BY DEF Compact
  <1>2. head[s] \in 0..MaxSeq
    BY DEF DaemonTypeOK
  <1>3. r.from \in 1..head[s] /\ r.to \in 1..head[s] /\ r = [from |-> r.from, to |-> r.to]
    OBVIOUS
  <1>4. r.from \in 0..MaxSeq /\ r.to \in 0..MaxSeq
    BY <1>2, <1>3, DaemonAssumption
  <1>5. r \in Ranges /\ RangeOK(r, head[s])
    BY <1>1, <1>2, <1>3, <1>4 DEF Ranges, RangeOK
  <1>6. DaemonTypeOK'
    BY <1>1, <1>5 DEF DaemonTypeOK, Compact
  <1>7. SummaryOK'
    BY <1>1, <1>5 DEF SummaryOK, DaemonTypeOK, Compact
  <1> QED BY <1>6, <1>7 DEF LinkOK, RpcOK, Compact

LEMMA CrashKeepsDaemonInv ==
  ASSUME DaemonInv, Crash
  PROVE  DaemonInv'
  <1> USE DEF DaemonInv
  <1>1. PICK n \in 0..Len(wire) : wire' = SubSeq(wire, 1, n)
    BY DEF Crash
  <1>2. wire \in Seq(Frames)
    BY DEF DaemonTypeOK
  <1>3. Loses(wire, wire')
    BY <1>1, <1>2, SubSeqLoses
  <1>4. FramesOK(wire')
    BY <1>2, <1>3, LosesFramesOK
  <1>5. epoch' \in 1..MaxEpoch
    BY DaemonAssumption DEF DaemonTypeOK, Crash
  <1>6. DaemonTypeOK'
    <2>1. NoRange \in Ranges /\ 0 \in 0..MaxSeq /\ -1 \in -1..MaxSeq
      BY DaemonAssumption DEF Ranges, NoRange
    <2>2. /\ head' \in [Streams -> 0..MaxSeq] /\ summary' \in [Streams -> Ranges]
          /\ pos' \in [Streams -> -1..MaxSeq]
      BY <2>1 DEF Crash
    <2>3. link' \in {"none", "open", "broken"} /\ up' \in BOOLEAN /\ rpc' = rpc
      BY DEF Crash, DaemonTypeOK
    <2>4. faults' \in 0..MaxFaults
      BY FaultOK DEF Crash
    <2>5. wire' \in Seq(Frames)
      BY <1>3 DEF Loses
    <2> QED BY <1>5, <2>2, <2>3, <2>4, <2>5 DEF DaemonTypeOK
  <1>7. SummaryOK'
    BY DEF SummaryOK, RangeOK, Crash
  <1>8. link = "none" => wire' = <<>>
    <2>1. link = "none" => Len(wire) = 0
      BY <1>2, EmptySeq DEF LinkOK
    <2>2. n \in Int /\ (Len(wire) = 0 => n < 1)
      BY <1>2, LenProperties
    <2> QED BY <1>1, <2>1, <2>2, SubSeqEmpty
  <1>9. LinkOK' /\ RpcOK'
    BY <1>8 DEF LinkOK, RpcOK, Crash
  <1> QED BY <1>4, <1>6, <1>7, <1>9

LEMMA RestartKeepsDaemonInv ==
  ASSUME DaemonInv, Restart
  PROVE  DaemonInv'
  BY DEF DaemonInv, DaemonTypeOK, SummaryOK, LinkOK, RpcOK, Restart

LEMMA BreakKeepsDaemonInv ==
  ASSUME DaemonInv, Break
  PROVE  DaemonInv'
  <1> USE DEF DaemonInv
  <1>1. PICK n \in 0..Len(wire) : wire' = SubSeq(wire, 1, n)
    BY DEF Break
  <1>2. wire \in Seq(Frames)
    BY DEF DaemonTypeOK
  <1>3. Loses(wire, wire')
    BY <1>1, <1>2, SubSeqLoses
  <1>4. FramesOK(wire')
    BY <1>2, <1>3, LosesFramesOK
  <1>5. DaemonTypeOK'
    BY <1>3, FaultOK, DaemonAssumption DEF DaemonTypeOK, Break, Loses
  <1>6. SummaryOK' /\ LinkOK' /\ RpcOK'
    BY DEF SummaryOK, LinkOK, RpcOK, Break
  <1> QED BY <1>4, <1>5, <1>6

(* The record that a subscription at pos gets: it follows pos and is not   *)
(* longer than the stream.                                                 *)
LEMMA RecordOK ==
  ASSUME DaemonInv, NEW s \in Streams, pos[s] # -1, pos[s] < head[s]
  PROVE  LET r == RecordAfter(s, pos[s])
         IN  /\ r \in Ranges /\ r.from = pos[s] + 1 /\ r.from <= r.to
             /\ Push(s, r) \in Frames
             /\ Push(s, r).kind = "push" /\ Push(s, r).stream = s
             /\ Push(s, r).first = r.from /\ Push(s, r).cursor = r.to
  <1> DEFINE r == RecordAfter(s, pos[s])
  <1>1. pos[s] \in 0..MaxSeq /\ head[s] \in 0..MaxSeq /\ summary[s] \in Ranges
    BY DaemonAssumption DEF DaemonInv, DaemonTypeOK
  <1>2. pos[s] + 1 \in 1..MaxSeq
    BY <1>1, DaemonAssumption
  <1>3. RangeOK(summary[s], head[s])
    BY DEF DaemonInv, SummaryOK
  <1>4. r \in Ranges /\ r.from = pos[s] + 1 /\ r.from <= r.to
    BY <1>1, <1>2, <1>3, DaemonAssumption DEF RecordAfter, RangeOK, NoRange, Ranges
  <1>5. Push(s, r) \in Frames /\ Push(s, r).kind = "push" /\ Push(s, r).stream = s
        /\ Push(s, r).first = r.from /\ Push(s, r).cursor = r.to
    <2> HIDE DEF r
    <2> QED BY <1>4 DEF Push, Frames, Ranges
  <1> HIDE DEF r
  <1> QED BY <1>4, <1>5 DEF r

LEMMA PushNextKeepsDaemonInv ==
  ASSUME DaemonInv, NEW s \in Streams, PushNext(s)
  PROVE  /\ DaemonInv'
         /\ LET r == RecordAfter(s, pos[s])
            IN  Sends(wire, wire', Push(s, r)) /\ pos' = [pos EXCEPT ![s] = r.to]
  <1> DEFINE r == RecordAfter(s, pos[s])
  <1>1. /\ pos[s] # -1 /\ pos[s] < head[s] /\ link = "open"
        /\ wire' = Append(wire, Push(s, r)) /\ pos' = [pos EXCEPT ![s] = r.to]
        /\ UNCHANGED <<epoch, up, head, summary, link, rpc, faults>>
    BY DEF PushNext
  <1>2. /\ r \in Ranges /\ r.from = pos[s] + 1 /\ r.from <= r.to
        /\ Push(s, r) \in Frames
        /\ Push(s, r).first = r.from /\ Push(s, r).cursor = r.to
    BY <1>1, RecordOK
  <1> HIDE DEF r
  <1>3. wire \in Seq(Frames) /\ pos[s] \in 0..MaxSeq
    BY <1>1, DaemonAssumption DEF DaemonInv, DaemonTypeOK
  <1>4. Sends(wire, wire', Push(s, r))
    BY <1>1, <1>2, <1>3, AppendSends
  <1>5. 1 <= r.from
    BY <1>2, <1>3
  <1>6. FramesOK(wire')
    BY <1>2, <1>3, <1>4, <1>5, SendsFramesOK DEF DaemonInv
  <1>7. r.to \in -1..MaxSeq
    BY <1>2, DaemonAssumption DEF Ranges
  <1>8. DaemonTypeOK'
    BY <1>1, <1>4, <1>7 DEF DaemonInv, DaemonTypeOK, Sends
  <1>9. SummaryOK' /\ LinkOK' /\ RpcOK'
    BY <1>1 DEF DaemonInv, SummaryOK, LinkOK, RpcOK
  <1>10. DaemonInv'
    BY <1>6, <1>8, <1>9 DEF DaemonInv
  <1> QED BY <1>1, <1>4, <1>10 DEF r

LEMMA CloseSubscriptionKeepsDaemonInv ==
  ASSUME DaemonInv, NEW s \in Streams, CloseSubscription(s)
  PROVE  DaemonInv' /\ Sends(wire, wire', Closed(s))
  <1> USE DEF CloseSubscription
  <1>1. Closed(s) \in Frames /\ Closed(s).kind = "closed"
    BY DaemonAssumption DEF Closed, Frames
  <1>2. wire \in Seq(Frames)
    BY DEF DaemonInv, DaemonTypeOK
  <1>3. Sends(wire, wire', Closed(s))
    BY <1>1, <1>2, AppendSends
  <1>4. FramesOK(wire')
    BY <1>1, <1>2, <1>3, SendsFramesOK DEF DaemonInv
  <1>5. DaemonTypeOK'
    BY <1>3, FaultOK, DaemonAssumption DEF DaemonInv, DaemonTypeOK, Sends
  <1>6. SummaryOK' /\ LinkOK' /\ RpcOK'
    BY DEF DaemonInv, SummaryOK, LinkOK, RpcOK
  <1> QED BY <1>3, <1>4, <1>5, <1>6 DEF DaemonInv

(* The daemon answers the Call in progress. *)
LEMMA AnswerKeepsDaemonInv ==
  ASSUME DaemonInv, NEW result \in {"ok", "compacted", "error"}, NEW boundary \in 0..MaxSeq,
         result = "compacted" => boundary < rpc.from,
         Answer(result, boundary),
         pos' \in [Streams -> -1..MaxSeq], link = "open",
         faults' \in 0..MaxFaults,
         UNCHANGED <<epoch, up, head, summary, link, wire>>
  PROVE  /\ DaemonInv'
         /\ rpc'.at = "due" /\ rpc'.result = result /\ rpc'.boundary = boundary
         /\ rpc'.op = rpc.op /\ rpc'.stream = rpc.stream /\ rpc'.from = rpc.from
  <1>1. rpc \in Calls
    BY DEF DaemonInv, DaemonTypeOK
  <1>2. /\ rpc' \in Calls
        /\ rpc'.at = "due" /\ rpc'.result = result /\ rpc'.boundary = boundary
        /\ rpc'.op = rpc.op /\ rpc'.stream = rpc.stream /\ rpc'.from = rpc.from
    BY <1>1 DEF Calls, Answer
  <1>3. DaemonTypeOK'
    BY <1>2 DEF DaemonInv, DaemonTypeOK
  <1>4. SummaryOK' /\ LinkOK' /\ RpcOK' /\ FramesOK(wire')
    BY <1>2 DEF DaemonInv, SummaryOK, LinkOK, RpcOK
  <1> QED BY <1>2, <1>3, <1>4 DEF DaemonInv

(* What HandleSubscribe comes to: a refusal of a cursor inside the range,  *)
(* another refusal, or a subscription from the cursor.                     *)
LEMMA HandleSubscribeKeepsDaemonInv ==
  ASSUME DaemonInv, HandleSubscribe
  PROVE  /\ DaemonInv'
         /\ rpc.at = "sent" /\ pos[rpc.stream] = -1 /\ link = "open"
         /\ UNCHANGED <<epoch, up, head, summary, link, wire, faults>>
         /\ rpc'.at = "due" /\ rpc'.op = rpc.op /\ rpc'.stream = rpc.stream
         /\ rpc'.from = rpc.from
         /\ \/ /\ rpc'.result = "compacted" /\ UNCHANGED pos
               /\ Inside(rpc.from, summary[rpc.stream])
               /\ rpc'.boundary = summary[rpc.stream].from - 1
            \/ rpc'.result = "error" /\ UNCHANGED pos
            \/ /\ rpc'.result = "ok" /\ ~Inside(rpc.from, summary[rpc.stream])
               /\ pos' = [pos EXCEPT ![rpc.stream] = rpc.from]
  <1> DEFINE s == rpc.stream
  <1>0. /\ link = "open" /\ rpc.at = "sent" /\ pos[s] = -1
        /\ UNCHANGED <<epoch, up, head, summary, link, wire, faults>>
    BY DEF HandleSubscribe
  <1>1. /\ s \in Streams /\ rpc.from \in 0..MaxSeq /\ summary[s] \in Ranges
        /\ pos \in [Streams -> -1..MaxSeq] /\ faults \in 0..MaxFaults /\ head[s] \in 0..MaxSeq
    BY DEF DaemonInv, DaemonTypeOK, Calls
  <1>2. RangeOK(summary[s], head[s])
    BY <1>1 DEF DaemonInv, SummaryOK
  <1>3. CASE Inside(rpc.from, summary[s])
    <2>1. Answer("compacted", summary[s].from - 1) /\ UNCHANGED pos
      BY <1>3 DEF HandleSubscribe
    <2>2. summary[s].from - 1 \in 0..MaxSeq /\ summary[s].from - 1 < rpc.from
      BY <1>1, <1>2, <1>3, DaemonAssumption DEF RangeOK, Inside, Ranges, NoRange
    <2> QED BY <1>0, <1>1, <1>3, <2>1, <2>2, AnswerKeepsDaemonInv
  <1>4. CASE ~Inside(rpc.from, summary[s]) /\ rpc.from > head[s]
    <2>1. Answer("error", 0) /\ UNCHANGED pos
      BY <1>4 DEF HandleSubscribe
    <2> QED BY <1>0, <1>1, <2>1, AnswerKeepsDaemonInv, DaemonAssumption
  <1>5. CASE ~Inside(rpc.from, summary[s]) /\ ~(rpc.from > head[s])
    <2>1. Answer("ok", 0) /\ pos' = [pos EXCEPT ![s] = rpc.from]
      BY <1>5 DEF HandleSubscribe
    <2>2. pos' \in [Streams -> -1..MaxSeq]
      BY <1>1, <2>1, DaemonAssumption
    <2> QED BY <1>0, <1>1, <1>5, <2>1, <2>2, AnswerKeepsDaemonInv, DaemonAssumption
  <1> QED BY <1>3, <1>4, <1>5

LEMMA HandleSecondSubscribeKeepsDaemonInv ==
  ASSUME DaemonInv, HandleSecondSubscribe
  PROVE  /\ DaemonInv'
         /\ rpc.at = "sent" /\ pos[rpc.stream] # -1 /\ link = "open"
         /\ UNCHANGED <<epoch, up, head, summary, link, wire, faults>>
         /\ rpc'.at = "due" /\ rpc'.op = rpc.op /\ rpc'.stream = rpc.stream
         /\ rpc'.from = rpc.from
         /\ \/ rpc'.result = "error" /\ UNCHANGED pos
            \/ rpc'.result = "ok" /\ pos' = [pos EXCEPT ![rpc.stream] = rpc.from]
  <1>0. /\ link = "open" /\ rpc.at = "sent" /\ pos[rpc.stream] # -1
        /\ UNCHANGED <<epoch, up, head, summary, link, wire, faults>>
    BY DEF HandleSecondSubscribe
  <1>1. /\ rpc.stream \in Streams /\ rpc.from \in 0..MaxSeq
        /\ pos \in [Streams -> -1..MaxSeq] /\ faults \in 0..MaxFaults
    BY DEF DaemonInv, DaemonTypeOK, Calls
  <1>2. CASE Answer("error", 0) /\ UNCHANGED pos
    BY <1>0, <1>1, <1>2, AnswerKeepsDaemonInv, DaemonAssumption
  <1>3. CASE Answer("ok", 0) /\ pos' = [pos EXCEPT ![rpc.stream] = rpc.from]
    <2>1. pos' \in [Streams -> -1..MaxSeq]
      BY <1>1, <1>3, DaemonAssumption
    <2> QED BY <1>0, <1>1, <1>3, <2>1, AnswerKeepsDaemonInv, DaemonAssumption
  <1> QED BY <1>2, <1>3 DEF HandleSecondSubscribe

LEMMA RefuseKeepsDaemonInv ==
  ASSUME DaemonInv, Refuse
  PROVE  /\ DaemonInv'
         /\ rpc.at = "sent" /\ link = "open"
         /\ UNCHANGED <<epoch, up, head, summary, pos, link, wire>>
         /\ rpc'.at = "due" /\ rpc'.op = rpc.op /\ rpc'.stream = rpc.stream
         /\ rpc'.from = rpc.from /\ rpc'.result = "error"
  <1>1. faults' \in 0..MaxFaults /\ pos \in [Streams -> -1..MaxSeq]
    BY FaultOK DEF Refuse, DaemonInv, DaemonTypeOK
  <1> QED BY <1>1, AnswerKeepsDaemonInv, DaemonAssumption DEF Refuse

LEMMA HandleUnsubscribeKeepsDaemonInv ==
  ASSUME DaemonInv, HandleUnsubscribe
  PROVE  /\ DaemonInv'
         /\ rpc.at = "sent" /\ rpc.op = "unsubscribe" /\ link = "open"
         /\ UNCHANGED <<epoch, up, head, summary, link, wire, faults>>
         /\ rpc'.at = "due" /\ rpc'.op = rpc.op /\ rpc'.stream = rpc.stream
         /\ rpc'.from = rpc.from /\ rpc'.result \in {"ok", "error"}
         /\ pos' = [pos EXCEPT ![rpc.stream] = -1]
  <1>0. -1 \in -1..MaxSeq
    BY DaemonAssumption
  <1>1. pos' \in [Streams -> -1..MaxSeq] /\ faults' \in 0..MaxFaults
    BY <1>0 DEF HandleUnsubscribe, DaemonInv, DaemonTypeOK
  <1>2. CASE Answer("ok", 0)
    BY <1>1, <1>2, AnswerKeepsDaemonInv, DaemonAssumption DEF HandleUnsubscribe
  <1>3. CASE Answer("error", 0)
    BY <1>1, <1>3, AnswerKeepsDaemonInv, DaemonAssumption DEF HandleUnsubscribe
  <1> QED BY <1>2, <1>3 DEF HandleUnsubscribe

LEMMA SendReplyKeepsDaemonInv ==
  ASSUME DaemonInv, SendReply
  PROVE  /\ DaemonInv'
         /\ Sends(wire, wire', Reply(rpc.stream)) /\ Reply(rpc.stream).kind = "reply"
         /\ rpc' = [rpc EXCEPT !.at = "wired"] /\ rpc.at = "due"
         /\ UNCHANGED <<epoch, up, head, summary, pos, link, faults>>
  <1> USE DEF SendReply
  <1>1. wire \in Seq(Frames) /\ rpc \in Calls
    BY DEF DaemonInv, DaemonTypeOK
  <1>2. Reply(rpc.stream) \in Frames /\ Reply(rpc.stream).kind = "reply"
    BY <1>1, DaemonAssumption DEF Reply, Frames, Calls
  <1>3. Sends(wire, wire', Reply(rpc.stream))
    BY <1>1, <1>2, AppendSends
  <1>4. FramesOK(wire')
    BY <1>1, <1>2, <1>3, SendsFramesOK DEF DaemonInv
  <1>5. rpc' \in Calls /\ rpc'.at = "wired" /\ rpc'.result = rpc.result
        /\ rpc'.boundary = rpc.boundary /\ rpc'.from = rpc.from
    BY <1>1 DEF Calls
  <1>6. DaemonTypeOK'
    BY <1>3, <1>5 DEF DaemonInv, DaemonTypeOK, Sends
  <1>7. SummaryOK' /\ LinkOK' /\ RpcOK'
    BY <1>5 DEF DaemonInv, SummaryOK, LinkOK, RpcOK
  <1> QED BY <1>2, <1>3, <1>4, <1>6, <1>7 DEF DaemonInv
-----------------------------------------------------------------------------
(* The client library's parts keep it, too. *)

LEMMA ConnectKeepsDaemonInv ==
  ASSUME DaemonInv, Connect
  PROVE  DaemonInv' /\ wire' = <<>> /\ pos' = pos /\ \A s \in Streams : pos[s] = -1
  BY DEF DaemonInv, DaemonTypeOK, SummaryOK, LinkOK, RpcOK, Connect

LEMMA DisconnectKeepsDaemonInv ==
  ASSUME DaemonInv, Disconnect, Streams # {}
  PROVE  DaemonInv'
  <1> USE DEF Disconnect
  <1>1. wire' \in Seq(Frames) /\ Len(wire') = 0
    BY EmptySeq
  <1>2. FramesOK(wire')
    BY <1>1 DEF FramesOK
  <1>3. pos' \in [Streams -> -1..MaxSeq] /\ rpc' \in Calls
    BY DaemonAssumption, IdleOK
  <1>4. DaemonTypeOK'
    BY <1>1, <1>3 DEF DaemonInv, DaemonTypeOK
  <1>5. SummaryOK' /\ LinkOK' /\ RpcOK'
    BY DEF DaemonInv, SummaryOK, LinkOK, RpcOK, Idle
  <1> QED BY <1>2, <1>4, <1>5 DEF DaemonInv

(* A Call is sent, or has come to an end. *)
LEMMA CallerKeepsDaemonInv ==
  ASSUME DaemonInv,
         \/ rpc' = Idle
         \/ \E op \in {"subscribe", "unsubscribe"}, s \in Streams, from \in 0..MaxSeq :
               Request(op, s, from),
         UNCHANGED <<epoch, up, head, summary, pos, link, wire, faults>>
  PROVE  DaemonInv'
  <1>1. Streams # {}
    BY DEF DaemonInv, DaemonTypeOK, Calls
  <1>2. Idle \in Calls
    BY <1>1, IdleOK
  <1>3. rpc' \in Calls /\ rpc'.result # "compacted" /\ (rpc'.at = "idle" => rpc' = Idle)
    BY <1>2 DEF Calls, Request, Idle
  <1>4. DaemonTypeOK'
    BY <1>3 DEF DaemonInv, DaemonTypeOK
  <1>5. SummaryOK' /\ LinkOK' /\ RpcOK'
    BY <1>3 DEF DaemonInv, SummaryOK, LinkOK, RpcOK
  <1> QED BY <1>4, <1>5 DEF DaemonInv

LEMMA TakeKeepsDaemonInv ==
  ASSUME DaemonInv, wire # <<>>, wire' = Tail(wire), link # "none",
         UNCHANGED <<epoch, up, head, summary, pos, link, rpc, faults>>
  PROVE  DaemonInv' /\ Reads(wire, wire')
  <1>1. wire \in Seq(Frames)
    BY DEF DaemonInv, DaemonTypeOK
  <1>2. Reads(wire, wire')
    BY <1>1, TailReads
  <1>3. FramesOK(wire')
    BY <1>1, <1>2, ReadsFramesOK DEF DaemonInv
  <1>4. DaemonTypeOK'
    BY <1>2 DEF DaemonInv, DaemonTypeOK, Reads
  <1>5. SummaryOK' /\ LinkOK' /\ RpcOK'
    BY DEF DaemonInv, SummaryOK, LinkOK, RpcOK
  <1> QED BY <1>2, <1>3, <1>4, <1>5 DEF DaemonInv

LEMMA ReadReplyKeepsDaemonInv ==
  ASSUME DaemonInv, ReadReply
  PROVE  /\ DaemonInv' /\ Reads(wire, wire')
         /\ rpc' = rpc \/ (rpc.at = "wired" /\ rpc' = [rpc EXCEPT !.at = "answered"])
  <1> USE DEF ReadReply, Incoming
  <1>1. wire \in Seq(Frames) /\ rpc \in Calls
    BY DEF DaemonInv, DaemonTypeOK
  <1>2. Reads(wire, wire')
    BY <1>1, TailReads
  <1>3. FramesOK(wire')
    BY <1>1, <1>2, ReadsFramesOK DEF DaemonInv
  <1>4. /\ rpc' \in Calls /\ rpc'.result = rpc.result /\ rpc'.boundary = rpc.boundary
        /\ rpc'.from = rpc.from /\ (rpc'.at = "idle" => rpc' = rpc)
    BY <1>1 DEF Calls
  <1>5. DaemonTypeOK'
    BY <1>2, <1>4 DEF DaemonInv, DaemonTypeOK, Reads
  <1>6. SummaryOK' /\ LinkOK' /\ RpcOK'
    BY <1>4 DEF DaemonInv, SummaryOK, LinkOK, RpcOK
  <1> QED BY <1>2, <1>3, <1>5, <1>6 DEF DaemonInv
-----------------------------------------------------------------------------
(* What a follower has, and what is on its way to it.  S is the set of the *)
(* events of stream s that it was given.                                   *)

(* f brings event n of stream s. *)
Covers(f, s, n) == f.kind = "push" /\ f.stream = s /\ f.first <= n /\ n <= f.cursor

Comes(w, s, n) == \E j \in 1..Len(w) : Covers(w[j], s, n)

(* Every frame is preceded by the events before its first one. *)
Continues(w, s, S) ==
    \A i \in 1..Len(w) : w[i].kind = "push" /\ w[i].stream = s =>
        \A n \in 1..(w[i].first - 1) : n \in S \/ \E j \in 1..(i - 1) : Covers(w[j], s, n)

(* With what is on its way the follower has the first p events. *)
Reaches(p, w, s, S) == \A n \in 1..p : n \in S \/ Comes(w, s, n)

LEMMA SendsContinues ==
  ASSUME NEW w \in Seq(Frames), NEW v, NEW f, NEW s, NEW S, Sends(w, v, f),
         Continues(w, s, S),
         f.kind = "push" /\ f.stream = s => Reaches(f.first - 1, w, s, S)
  PROVE  Continues(v, s, S)
  <1>1. Len(w) \in Nat
    BY LenProperties
  <1> SUFFICES ASSUME NEW i \in 1..Len(v), v[i].kind = "push", v[i].stream = s,
                      NEW n \in 1..(v[i].first - 1)
               PROVE  n \in S \/ \E j \in 1..(i - 1) : Covers(v[j], s, n)
    BY DEF Continues
  <1>2. CASE i \in 1..Len(w)
    <2>1. v[i] = w[i]
      BY <1>2 DEF Sends
    <2>2. n \in S \/ \E j \in 1..(i - 1) : Covers(w[j], s, n)
      BY <1>2, <2>1 DEF Continues
    <2>3. \A j \in 1..(i - 1) : v[j] = w[j]
      BY <1>1, <1>2 DEF Sends
    <2> QED BY <2>2, <2>3
  <1>3. CASE i = Len(w) + 1
    <2>1. v[i] = f /\ i - 1 = Len(w)
      BY <1>1, <1>3 DEF Sends
    <2>2. n \in S \/ \E j \in 1..Len(w) : Covers(w[j], s, n)
      BY <2>1 DEF Reaches, Comes
    <2>3. \A j \in 1..Len(w) : v[j] = w[j]
      BY DEF Sends
    <2> QED BY <2>1, <2>2, <2>3
  <1> QED BY <1>1, <1>2, <1>3 DEF Sends

LEMMA SendsReaches ==
  ASSUME NEW w \in Seq(Frames), NEW v, NEW f, NEW s, NEW S, NEW p, Sends(w, v, f),
         Reaches(p, w, s, S)
  PROVE  Reaches(p, v, s, S)
  <1>1. Len(w) \in Nat /\ Len(v) = Len(w) + 1 /\ \A i \in 1..Len(w) : v[i] = w[i]
    BY LenProperties DEF Sends
  <1>2. \A j \in 1..Len(w) : j \in 1..Len(v)
    BY <1>1
  <1>3. \A n : Comes(w, s, n) => Comes(v, s, n)
    BY <1>1, <1>2 DEF Comes
  <1> QED BY <1>3 DEF Reaches

LEMMA PushReaches ==
  ASSUME NEW w \in Seq(Frames), NEW v, NEW f \in Frames, NEW s, NEW S, Sends(w, v, f),
         f.kind = "push", f.stream = s, Reaches(f.first - 1, w, s, S)
  PROVE  Reaches(f.cursor, v, s, S)
  <1>1. Len(w) \in Nat /\ f.first \in Nat /\ f.cursor \in Nat
    BY LenProperties DEF Frames
  <1>2. Reaches(f.first - 1, v, s, S)
    BY SendsReaches
  <1>3. Len(w) + 1 \in 1..Len(v) /\ v[Len(w) + 1] = f
    BY <1>1 DEF Sends
  <1>4. ASSUME NEW n \in 1..f.cursor PROVE n \in S \/ Comes(v, s, n)
    <2>1. CASE n < f.first
      BY <1>1, <1>2, <2>1 DEF Reaches
    <2>2. CASE f.first <= n
      BY <1>3, <2>2 DEF Comes, Covers
    <2> QED BY <1>1, <2>1, <2>2
  <1> QED BY <1>4 DEF Reaches

(* A frame is read: what it brings, of this stream, is had from now on. *)
LEMMA ReadsContinues ==
  ASSUME NEW w \in Seq(Frames), NEW v, NEW s, NEW S, NEW T, Reads(w, v), Continues(w, s, S),
         S \subseteq T, \A n \in Int : Covers(w[1], s, n) => n \in T
  PROVE  Continues(v, s, T)
  <1>1. Len(w) \in Nat /\ Len(v) \in Nat
    BY LenProperties DEF Reads
  <1> SUFFICES ASSUME NEW i \in 1..Len(v), v[i].kind = "push", v[i].stream = s,
                      NEW n \in 1..(v[i].first - 1)
               PROVE  n \in T \/ \E j \in 1..(i - 1) : Covers(v[j], s, n)
    BY DEF Continues
  <1>2. i + 1 \in 1..Len(w) /\ v[i] = w[i + 1] /\ (i + 1) - 1 = i
    BY <1>1 DEF Reads
  <1>3. n \in S \/ \E j \in 1..i : Covers(w[j], s, n)
    BY <1>2 DEF Continues
  <1>4. ASSUME NEW j \in 1..i, Covers(w[j], s, n)
        PROVE  n \in T \/ \E k \in 1..(i - 1) : Covers(v[k], s, n)
    <2>1. CASE j = 1
      BY <1>4, <2>1
    <2>2. CASE j # 1
      <3>1. j - 1 \in 1..(i - 1) /\ j - 1 \in 1..Len(v) /\ (j - 1) + 1 = j
        BY <1>1, <2>2
      <3>2. v[j - 1] = w[j]
        BY <3>1 DEF Reads
      <3> QED BY <1>4, <3>1, <3>2
    <2> QED BY <2>1, <2>2
  <1> QED BY <1>3, <1>4

LEMMA ReadsReaches ==
  ASSUME NEW w \in Seq(Frames), NEW v, NEW s, NEW S, NEW T, NEW p, Reads(w, v),
         Reaches(p, w, s, S), S \subseteq T, \A n \in Int : Covers(w[1], s, n) => n \in T
  PROVE  Reaches(p, v, s, T)
  <1>1. Len(w) \in Nat /\ Len(v) \in Nat
    BY LenProperties DEF Reads
  <1>2. ASSUME NEW n \in 1..p, NEW j \in 1..Len(w), Covers(w[j], s, n)
        PROVE  n \in T \/ Comes(v, s, n)
    <2>1. CASE j = 1
      BY <1>2, <2>1
    <2>2. CASE j # 1
      <3>1. j - 1 \in 1..Len(v) /\ (j - 1) + 1 = j
        BY <1>1, <2>2 DEF Reads
      <3>2. v[j - 1] = w[j]
        BY <3>1 DEF Reads
      <3> QED BY <1>2, <3>1, <3>2 DEF Comes
    <2> QED BY <2>1, <2>2
  <1> QED BY <1>2 DEF Reaches, Comes

LEMMA LosesContinues ==
  ASSUME NEW w \in Seq(Frames), NEW v, NEW s, NEW S, Loses(w, v), Continues(w, s, S)
  PROVE  Continues(v, s, S)
  <1>1. Len(w) \in Nat /\ Len(v) \in Nat
    BY LenProperties DEF Loses
  <1> SUFFICES ASSUME NEW i \in 1..Len(v), v[i].kind = "push", v[i].stream = s,
                      NEW n \in 1..(v[i].first - 1)
               PROVE  n \in S \/ \E j \in 1..(i - 1) : Covers(v[j], s, n)
    BY DEF Continues
  <1>2. i \in 1..Len(w) /\ \A j \in 1..i : v[j] = w[j]
    BY <1>1 DEF Loses
  <1>3. n \in S \/ \E j \in 1..(i - 1) : Covers(w[j], s, n)
    BY <1>2 DEF Continues
  <1> QED BY <1>2, <1>3

LEMMA EmptyContinues ==
  ASSUME NEW s, NEW S
  PROVE  Continues(<<>>, s, S) /\ FramesOK(<<>>)
  <1>1. Len(<<>>) = 0
    BY EmptySeq
  <1> QED BY <1>1 DEF Continues, FramesOK
-----------------------------------------------------------------------------
(* The frames on their way, by kind *)

PushAt(w, i) == i \in 1..Len(w) /\ w[i].kind = "push"
ClosedAt(w, i) == i \in 1..Len(w) /\ w[i].kind = "closed"
ReplyAt(w, i) == i \in 1..Len(w) /\ w[i].kind = "reply"

LEMMA SendsAt ==
  ASSUME NEW w \in Seq(Frames), NEW v, NEW f, Sends(w, v, f)
  PROVE  /\ Len(w) \in Nat /\ Len(v) = Len(w) + 1
         /\ \A i : PushAt(v, i) <=> PushAt(w, i) \/ (i = Len(w) + 1 /\ f.kind = "push")
         /\ \A i : ClosedAt(v, i) <=> ClosedAt(w, i) \/ (i = Len(w) + 1 /\ f.kind = "closed")
         /\ \A i : ReplyAt(v, i) <=> ReplyAt(w, i) \/ (i = Len(w) + 1 /\ f.kind = "reply")
         /\ \A i \in 1..Len(w) : v[i] = w[i] /\ i < Len(w) + 1 /\ i \in 1..Len(v)
         /\ \A i \in 1..Len(v) : i \in 1..Len(w) \/ i = Len(w) + 1
         /\ Len(w) + 1 \in 1..Len(v) /\ v[Len(w) + 1] = f
  <1>1. Len(w) \in Nat /\ Len(v) = Len(w) + 1
    BY LenProperties DEF Sends
  <1>2. /\ \A i \in 1..Len(w) : v[i] = w[i] /\ i < Len(w) + 1 /\ i \in 1..Len(v)
        /\ Len(w) + 1 \in 1..Len(v) /\ v[Len(w) + 1] = f
    BY <1>1 DEF Sends
  <1>3. \A i : i \in 1..Len(v) <=> i \in 1..Len(w) \/ i = Len(w) + 1
    BY <1>1
  <1> QED BY <1>1, <1>2, <1>3 DEF PushAt, ClosedAt, ReplyAt

LEMMA ReadsAt ==
  ASSUME NEW w \in Seq(Frames), NEW v, Reads(w, v)
  PROVE  /\ Len(w) \in Nat /\ Len(v) \in Nat /\ Len(w) = Len(v) + 1 /\ 1 \in 1..Len(w)
         /\ \A i \in 1..Len(v) :
               /\ i + 1 \in 1..Len(w) /\ v[i] = w[i + 1] /\ 1 < i + 1
               /\ PushAt(v, i) <=> PushAt(w, i + 1)
               /\ ClosedAt(v, i) <=> ClosedAt(w, i + 1)
               /\ ReplyAt(v, i) <=> ReplyAt(w, i + 1)
         /\ \A j \in 1..Len(w) : j = 1 \/ (j - 1 \in 1..Len(v) /\ (j - 1) + 1 = j)
  <1>1. Len(w) \in Nat /\ Len(v) \in Nat /\ Len(w) = Len(v) + 1
    BY LenProperties DEF Reads
  <1>2. \A i \in 1..Len(v) : i + 1 \in 1..Len(w) /\ v[i] = w[i + 1] /\ 1 < i + 1
    BY <1>1 DEF Reads
  <1>3. 1 \in 1..Len(w) /\ \A j \in 1..Len(w) : j = 1 \/ (j - 1 \in 1..Len(v) /\ (j - 1) + 1 = j)
    BY <1>1
  <1> QED BY <1>1, <1>2, <1>3 DEF PushAt, ClosedAt, ReplyAt

LEMMA LosesAt ==
  ASSUME NEW w \in Seq(Frames), NEW v, Loses(w, v)
  PROVE  /\ Len(w) \in Nat /\ Len(v) \in Nat /\ Len(v) <= Len(w)
         /\ \A i \in 1..Len(v) :
               /\ i \in 1..Len(w) /\ v[i] = w[i]
               /\ PushAt(v, i) <=> PushAt(w, i)
               /\ ClosedAt(v, i) <=> ClosedAt(w, i)
               /\ ReplyAt(v, i) <=> ReplyAt(w, i)
         /\ w = <<>> => v = <<>>
  <1>1. Len(w) \in Nat /\ Len(v) \in Nat /\ Len(v) <= Len(w)
    BY LenProperties DEF Loses
  <1>2. \A i \in 1..Len(v) : i \in 1..Len(w) /\ v[i] = w[i]
    BY <1>1 DEF Loses
  <1>3. w = <<>> => v = <<>>
    BY <1>1, EmptySeq DEF Loses
  <1> QED BY <1>1, <1>2, <1>3 DEF PushAt, ClosedAt, ReplyAt
-----------------------------------------------------------------------------
(* What is on its way to a follower is new to it: no record stands for     *)
(* nothing but events that it was given.                                   *)

(* Event n is not behind a cursor p, or it is summed up in the record that *)
(* follows p, with events that were not there before.                      *)
Ahead(n, p, r) == n > p => r.from <= p + 1 /\ n < r.to

PushOf(w, s, i) == PushAt(w, i) /\ w[i].stream = s

(* Every record of stream s ends with an event that is not in S and does   *)
(* not come before.                                                        *)
AllNew(w, s, S) ==
    \A i \in 1..Len(w) : PushOf(w, s, i) =>
        /\ \A n \in S : n < w[i].cursor
        /\ \A j \in 1..Len(w) : PushOf(w, s, j) /\ j < i => w[j].cursor < w[i].cursor

(* So will the next ones of a subscription at p, if r is summed up.        *)
StaysNew(w, s, S, p, r) ==
    /\ ~Inside(p, r)
    /\ \A n \in S : Ahead(n, p, r)
    /\ \A i \in 1..Len(w) : PushOf(w, s, i) => Ahead(w[i].cursor, p, r)

(* No record of s comes to the wire. *)
KeepsPushes(w, v, s) == \A i : PushOf(v, s, i) => PushOf(w, s, i) /\ v[i] = w[i]

LEMMA SendsKeepsPushes ==
  ASSUME NEW w \in Seq(Frames), NEW v, NEW f, NEW s, Sends(w, v, f),
         f.kind # "push" \/ f.stream # s
  PROVE  KeepsPushes(w, v, s)
  <1> SUFFICES ASSUME NEW i, PushOf(v, s, i) PROVE PushOf(w, s, i) /\ v[i] = w[i]
    BY DEF KeepsPushes
  <1>1. PushAt(w, i)
    BY SendsAt DEF PushOf
  <1>2. v[i] = w[i]
    BY <1>1, SendsAt DEF PushAt
  <1> QED BY <1>1, <1>2 DEF PushOf

LEMMA LosesKeepsPushes ==
  ASSUME NEW w \in Seq(Frames), NEW v, NEW s, Loses(w, v)
  PROVE  KeepsPushes(w, v, s)
  BY LosesAt DEF KeepsPushes, PushOf, PushAt

LEMMA KeptNew ==
  ASSUME NEW w, NEW v, NEW s, NEW S, KeepsPushes(w, v, s)
  PROVE  /\ AllNew(w, s, S) => AllNew(v, s, S)
         /\ \A p, r : StaysNew(w, s, S, p, r) => StaysNew(v, s, S, p, r)
  <1>1. \A i \in 1..Len(v) : PushOf(v, s, i) => PushOf(w, s, i) /\ i \in 1..Len(w) /\ v[i] = w[i]
    BY DEF KeepsPushes, PushOf, PushAt
  <1> QED BY <1>1 DEF AllNew, StaysNew

(* A range grows: what was ahead of a cursor is still summed up after it. *)
LEMMA GrownAhead ==
  ASSUME NEW r \in Ranges, NEW t \in Ranges, NEW p \in Int, NEW n \in Nat,
         r = NoRange \/ (t.from <= r.from /\ r.to <= t.to),
         p \in Nat \/ p = -1, Ahead(n, p, r)
  PROVE  Ahead(n, p, t)
  <1>1. r.from \in Nat /\ r.to \in Nat /\ t.from \in Nat /\ t.to \in Nat
    BY DEF Ranges
  <1>2. CASE r = NoRange
    BY <1>1, <1>2 DEF Ahead, NoRange
  <1>3. CASE t.from <= r.from /\ r.to <= t.to
    BY <1>1, <1>3 DEF Ahead
  <1> QED BY <1>2, <1>3

LEMMA GrownStaysNew ==
  ASSUME NEW w \in Seq(Frames), NEW s, NEW S \in SUBSET Nat, NEW p \in Nat,
         NEW r \in Ranges, NEW t \in Ranges,
         r = NoRange \/ (t.from <= r.from /\ r.to <= t.to),
         ~Inside(p, t), StaysNew(w, s, S, p, r)
  PROVE  StaysNew(w, s, S, p, t)
  <1>1. \A n \in Nat : Ahead(n, p, r) => Ahead(n, p, t)
    BY GrownAhead
  <1>2. \A i \in 1..Len(w) : w[i].cursor \in Nat
    <2> SUFFICES ASSUME NEW i \in 1..Len(w) PROVE w[i].cursor \in Nat
      OBVIOUS
    <2>1. w[i] \in Frames
      BY ElementOfSeq
    <2> QED BY <2>1, DaemonAssumption DEF Frames
  <1> QED BY <1>1, <1>2 DEF StaysNew

(* A refused cursor is inside the range, and the boundary is before it. *)
LEMMA BoundaryAhead ==
  ASSUME NEW n \in Nat, NEW p \in Nat, NEW r \in Ranges, Inside(p, r), Ahead(n, p, r)
  PROVE  Ahead(n, r.from - 1, r)
  <1>1. r.from \in Nat /\ r.to \in Nat
    BY DEF Ranges
  <1> QED BY <1>1 DEF Inside, Ahead

(* The record that follows p is sent. *)
LEMMA SentNew ==
  ASSUME NEW w \in Seq(Frames), NEW v, NEW f \in Frames, NEW s, NEW S \in SUBSET Nat,
         NEW p \in Nat, NEW sum \in Ranges, NEW r \in Ranges, p < r.to,
         r = IF sum.from = p + 1 THEN sum ELSE [from |-> p + 1, to |-> p + 1],
         Sends(w, v, f), f.kind = "push", f.stream = s, f.cursor = r.to,
         AllNew(w, s, S), StaysNew(w, s, S, p, sum)
  PROVE  AllNew(v, s, S) /\ StaysNew(v, s, S, r.to, sum)
  <1> DEFINE k == Len(w) + 1
  <1>1. r.to \in Nat /\ sum.from \in Nat /\ sum.to \in Nat
    BY DEF Ranges
  <1>2. ASSUME NEW n \in Nat, Ahead(n, p, sum) PROVE n < r.to
    BY <1>1, <1>2 DEF Ahead, StaysNew, Inside
  <1>3. ~Inside(r.to, sum)
    BY <1>1 DEF Inside, StaysNew
  <1>4. \A n \in S : n < r.to
    BY <1>2 DEF StaysNew
  <1>5. \A i \in 1..Len(w) : PushOf(w, s, i) => w[i].cursor < r.to /\ w[i].cursor \in Nat
    <2> SUFFICES ASSUME NEW i \in 1..Len(w), PushOf(w, s, i)
                 PROVE  w[i].cursor < r.to /\ w[i].cursor \in Nat
      OBVIOUS
    <2>1. w[i] \in Frames
      BY ElementOfSeq
    <2>2. w[i].cursor \in Nat
      BY <2>1, DaemonAssumption DEF Frames
    <2> QED BY <1>2, <2>2 DEF StaysNew
  <1>6. \A n \in Nat : n <= r.to => Ahead(n, r.to, sum)
    BY <1>1 DEF Ahead
  <1>7. /\ \A i : PushOf(v, s, i) <=> PushOf(w, s, i) \/ i = k
        /\ \A i \in 1..Len(w) : v[i] = w[i] /\ i < k /\ i \in 1..Len(v)
        /\ k \in 1..Len(v) /\ v[k] = f /\ k \in Int
        /\ \A i \in 1..Len(v) : i \in Int
    <2>1. /\ \A i : PushAt(v, i) <=> PushAt(w, i) \/ i = k
          /\ \A i \in 1..Len(w) : v[i] = w[i] /\ i < k /\ i \in 1..Len(v)
          /\ k \in 1..Len(v) /\ v[k] = f
      BY SendsAt
    <2>2. \A i : PushAt(w, i) => v[i] = w[i]
      BY <2>1 DEF PushAt
    <2> QED BY <2>1, <2>2 DEF PushOf
  <1> HIDE DEF k
  <1>8. \A i \in 1..Len(v) : PushOf(v, s, i) => i = k \/ (i \in 1..Len(w) /\ PushOf(w, s, i))
    BY <1>7 DEF PushOf, PushAt
  <1>9. AllNew(v, s, S)
    <2> SUFFICES ASSUME NEW i \in 1..Len(v), PushOf(v, s, i)
                 PROVE  /\ \A n \in S : n < v[i].cursor
                        /\ \A j \in 1..Len(v) : PushOf(v, s, j) /\ j < i => v[j].cursor < v[i].cursor
      BY DEF AllNew
    <2>1. CASE i = k
      <3>1. \A j \in 1..Len(v) : PushOf(v, s, j) /\ j < k => j \in 1..Len(w) /\ PushOf(w, s, j)
        BY <1>7, <1>8
      <3> QED BY <1>4, <1>5, <1>7, <2>1, <3>1
    <2>2. CASE i # k
      <3>1. i \in 1..Len(w) /\ PushOf(w, s, i) /\ i < k /\ v[i] = w[i]
        BY <1>7, <1>8, <2>2
      <3>2. \A j \in 1..Len(v) : j < i => j # k
        BY <1>7, <3>1
      <3>3. \A j \in 1..Len(v) : PushOf(v, s, j) /\ j < i =>
               j \in 1..Len(w) /\ PushOf(w, s, j) /\ v[j] = w[j]
        BY <1>7, <1>8, <3>2
      <3> QED BY <3>1, <3>3 DEF AllNew
    <2> QED BY <2>1, <2>2
  <1>10. StaysNew(v, s, S, r.to, sum)
    <2>1. \A n \in S : Ahead(n, r.to, sum)
      BY <1>1, <1>4, <1>6
    <2>2. \A i \in 1..Len(v) : PushOf(v, s, i) => Ahead(v[i].cursor, r.to, sum)
      BY <1>1, <1>5, <1>6, <1>7, <1>8
    <2> QED BY <1>3, <2>1, <2>2 DEF StaysNew
  <1> QED BY <1>9, <1>10

(* A frame is read: with it come no events but those up to its cursor. *)
LEMMA ReadNew ==
  ASSUME NEW w \in Seq(Frames), NEW v, NEW s, NEW S \in SUBSET Nat, NEW T, Reads(w, v),
         \A n \in T : n \in S \/ (PushOf(w, s, 1) /\ n \in Nat /\ n <= w[1].cursor),
         AllNew(w, s, S)
  PROVE  /\ AllNew(v, s, T)
         /\ \A p \in Int, r \in Ranges : StaysNew(w, s, S, p, r) => StaysNew(v, s, T, p, r)
  <1>1. /\ 1 \in 1..Len(w)
        /\ \A i \in 1..Len(v) :
              /\ i \in Int /\ i + 1 \in 1..Len(w) /\ v[i] = w[i + 1] /\ 1 < i + 1
              /\ PushOf(v, s, i) <=> PushOf(w, s, i + 1)
    BY ReadsAt DEF PushOf
  <1>2. \A i \in 1..Len(w) : w[i].cursor \in Nat
    <2> SUFFICES ASSUME NEW i \in 1..Len(w) PROVE w[i].cursor \in Nat
      OBVIOUS
    <2>1. w[i] \in Frames
      BY ElementOfSeq
    <2> QED BY <2>1, DaemonAssumption DEF Frames
  <1>3. AllNew(v, s, T)
    <2> SUFFICES ASSUME NEW i \in 1..Len(v), PushOf(v, s, i)
                 PROVE  /\ \A n \in T : n < v[i].cursor
                        /\ \A j \in 1..Len(v) : PushOf(v, s, j) /\ j < i => v[j].cursor < v[i].cursor
      BY DEF AllNew
    <2>1. /\ i + 1 \in 1..Len(w) /\ PushOf(w, s, i + 1) /\ v[i] = w[i + 1]
          /\ \A n \in S : n < w[i + 1].cursor
          /\ \A j \in 1..Len(w) : PushOf(w, s, j) /\ j < i + 1 => w[j].cursor < w[i + 1].cursor
      BY <1>1 DEF AllNew
    <2>2. ASSUME NEW n \in T PROVE n < v[i].cursor
      <3>1. CASE n \in S
        BY <2>1, <3>1
      <3>2. CASE PushOf(w, s, 1) /\ n \in Nat /\ n <= w[1].cursor
        <4>1. w[1].cursor < w[i + 1].cursor
          BY <1>1, <2>1, <3>2
        <4> QED BY <1>1, <1>2, <2>1, <3>2, <4>1
      <3> QED BY <3>1, <3>2
    <2>3. \A j \in 1..Len(v) : j < i => j + 1 < i + 1
      BY <1>1
    <2> QED BY <1>1, <2>1, <2>2, <2>3
  <1>4. ASSUME NEW p \in Int, NEW r \in Ranges, StaysNew(w, s, S, p, r)
        PROVE  StaysNew(v, s, T, p, r)
    <2>1. r.from \in Nat /\ r.to \in Nat
      BY DEF Ranges
    <2>2. \A m, n \in Nat : n <= m /\ Ahead(m, p, r) => Ahead(n, p, r)
      BY <2>1 DEF Ahead
    <2>3. \A n \in T : Ahead(n, p, r)
      BY <1>1, <1>2, <1>4, <2>2 DEF StaysNew
    <2>4. \A i \in 1..Len(v) : PushOf(v, s, i) => Ahead(v[i].cursor, p, r)
      BY <1>1, <1>4 DEF StaysNew
    <2> QED BY <1>4, <2>3, <2>4 DEF StaysNew
  <1> QED BY <1>3, <1>4
=============================================================================
