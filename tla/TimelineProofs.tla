---------------------------- MODULE TimelineProofs ----------------------------
(***************************************************************************)
(* Theorems about Timeline, for any set of streams, any number of events,  *)
(* epochs, faults and selections, whether the daemon compacts its logs or  *)
(* not.                                                                    *)
(*                                                                         *)
(* Beside the types IInv says: where Run is and what it then has of the    *)
(* daemon (PlaceOK); that what comes over the connection is of the epoch   *)
(* that is followed (EpochOK) and of one stream, the old one while it is   *)
(* being left (OneStream); that the answer to an unsubscribe comes after   *)
(* the last frame of the old stream (Answers); what was folded and shown   *)
(* (Shown); that it and what is on its way have no holes (NoHoles); that a *)
(* subscription that ended leaves a notice or a token (Told); that a       *)
(* selection leaves a token or is picked (SelectOK); and that what is on   *)
(* its way is new until a fallback (Fresh).                                *)
(***************************************************************************)
EXTENDS Timeline, DaemonProofs

Offline == {"dial", "backoff", "done"}
Calling == {"call", "retry", "uncall"}
Leaving == {"clear", "unsubscribe", "uncall"}
Following == Leaving \cup {"subscribe", "call", "retry", "serve"}

Asked == rpc.at # "idle"
Asking == rpc.op = "subscribe" /\ rpc.at = "sent"
RefusalOnItsWay ==
    rpc.op = "subscribe" /\ rpc.at \in {"due", "wired", "answered"} /\ rpc.result # "ok"
ConsentOnItsWay ==
    rpc.op = "subscribe" /\ rpc.at \in {"due", "wired", "answered"} /\ rpc.result = "ok"
Subscribes == \E s \in Streams : pos[s] # -1

TimelineTypeOK ==
    /\ listed \subseteq Streams /\ over \subseteq Streams /\ listing \subseteq Streams
    /\ pc \in Places
    /\ wsEpoch \in 0..MaxEpoch /\ tEpoch \in 0..MaxEpoch
    /\ {prev, stream, selected, current} \subseteq Session
    /\ from \in 0..MaxSeq /\ lastSeq \in 0..MaxSeq
    /\ folded \subseteq Events /\ panel \subseteq Events
    /\ {switch, resub, cancelled} \subseteq BOOLEAN
    /\ selects \in 0..MaxSelects
    /\ fellBack \in {"no", "overlap", "refused", "broken"}

PlaceOK ==
    /\ pc \in Offline <=> link = "none"
    /\ pc \in Calling <=> Asked
    /\ pc \in {"call", "retry"} => rpc.op = "subscribe" /\ rpc.stream = stream
    /\ pc = "uncall" => rpc.op = "unsubscribe" /\ rpc.stream = prev
    /\ pc = "open" => wire = <<>> /\ ~Subscribes
    /\ pc \in Following => stream # None
    /\ pc \in {"unsubscribe", "uncall"} => prev \in Streams \ {stream}

EpochOK ==
    /\ tEpoch <= wsEpoch /\ wsEpoch <= epoch
    /\ pc \notin Offline \cup {"open", "close"} => wsEpoch # 0
    /\ link = "open" /\ pc \notin {"open", "close"} => wsEpoch = epoch
    /\ Subscribes => wsEpoch = epoch
    /\ wire # <<>> \/ Subscribes \/ pc \in Following => tEpoch = wsEpoch /\ wsEpoch # 0

OneStream ==
    /\ pc \notin Leaving \cup {"close"} =>
          /\ \A s \in Streams : pos[s] # -1 => s = stream
          /\ \A i \in 1..Len(wire) : wire[i].stream = stream
    /\ pc \in Leaving =>
          /\ \A s \in Streams : pos[s] # -1 => s = prev /\ s # stream
          /\ \A i \in 1..Len(wire) : wire[i].stream = prev /\ wire[i].stream # stream

(* Unless a call was given up, the only reply is the one that is awaited.  *)
Answers ==
    /\ pc \in {"pick"} \cup Leaving \/ (~cancelled /\ link # "broken") =>
          \A i \in 1..Len(wire) : ReplyAt(wire, i) =>
              rpc.at = "wired" /\ \A j \in 1..Len(wire) : ReplyAt(wire, j) => j = i
    /\ pc = "uncall" /\ rpc.at # "sent" => ~Subscribes
    /\ pc = "uncall" /\ rpc.at = "wired" =>
          \A i \in 1..Len(wire) : ReplyAt(wire, i) => i = Len(wire)
    /\ pc = "uncall" /\ rpc.at = "answered" => wire = <<>>

Shown ==
    /\ \A e \in folded : e[1] = stream /\ e[2] = tEpoch
    /\ pc # "clear" => panel = folded
    /\ pc = "clear" => folded = {}
    /\ \A e, f \in panel : e[1] = f[1] /\ e[2] = f[2]

(* The events of the followed stream that were folded, by number. *)
Had == {n \in 1..MaxSeq : <<stream, tEpoch, n>> \in folded}

NoHoles ==
    /\ 1..lastSeq \subseteq Had
    /\ \A n \in Had : 1..n \subseteq Had
    /\ Asked /\ rpc.op = "subscribe" => 1..rpc.from \subseteq Had
    /\ Continues(wire, stream, Had)
    /\ stream # None /\ pos[stream] # -1 => Reaches(pos[stream], wire, stream, Had)

Told ==
    link = "open" /\ (pc = "serve" \/ ConsentOnItsWay) =>
        \/ pos[stream] # -1 \/ resub
        \/ \E i \in 1..Len(wire) : ClosedAt(wire, i) /\ wire[i].stream = stream

(* A session that is over is not listed again, so what a list shows of the *)
(* selection stays true unless it ends.                                    *)
SelectOK ==
    /\ selected \in listed \cup over \cup {None}
    /\ listed \cap over = {}
    /\ pc = "pick" /\ selected \in listed => switch \/ selected \in listing
    /\ pc \in Following /\ selected \in listed => switch \/ current = selected

Fresh ==
    fellBack = "no" /\ stream # None =>
        /\ tEpoch = epoch => \A n \in Had : Ahead(n, lastSeq, summary[stream])
        /\ Asking \/ RefusalOnItsWay =>
              /\ rpc.from = lastSeq /\ pos[stream] = -1
              /\ \A i \in 1..Len(wire) : ~PushOf(wire, stream, i)
        /\ RefusalOnItsWay /\ rpc.result = "compacted" /\ tEpoch = epoch =>
              \A n \in Had : Ahead(n, rpc.boundary, summary[stream])
        /\ AllNew(wire, stream, Had)
        /\ pos[stream] # -1 => StaysNew(wire, stream, Had, pos[stream], summary[stream])

Core ==
    /\ DaemonInv /\ TimelineTypeOK /\ PlaceOK /\ EpochOK /\ OneStream /\ Answers
    /\ Shown /\ NoHoles /\ Told /\ Fresh
IInv == Core /\ SelectOK
-----------------------------------------------------------------------------
(* Facts about the types that most steps need. *)
LEMMA Types ==
  ASSUME DaemonTypeOK, TimelineTypeOK
  PROVE  /\ epoch \in Nat /\ wsEpoch \in Nat /\ tEpoch \in Nat /\ wire \in Seq(Frames)
         /\ rpc \in Calls /\ rpc.from \in 0..MaxSeq /\ rpc.boundary \in 0..MaxSeq
         /\ rpc.from \in Nat /\ rpc.boundary \in Nat /\ rpc.stream \in Streams
         /\ pos \in [Streams -> -1..MaxSeq] /\ summary \in [Streams -> Ranges]
         /\ lastSeq \in 0..MaxSeq /\ lastSeq \in Nat /\ MaxSeq \in Nat
         /\ Had \in SUBSET Nat /\ Had \subseteq 1..MaxSeq
         /\ None \notin Streams
         /\ stream # None => /\ stream \in Streams /\ pos[stream] \in Int
                             /\ pos[stream] # -1 => pos[stream] \in Nat
                             /\ summary[stream] \in Ranges
  <1> USE DaemonAssumption, TimelineAssumption
  <1>1. /\ epoch \in Nat /\ wire \in Seq(Frames) /\ rpc \in Calls
        /\ pos \in [Streams -> -1..MaxSeq] /\ summary \in [Streams -> Ranges]
    BY DEF DaemonTypeOK
  <1>2. wsEpoch \in Nat /\ tEpoch \in Nat /\ lastSeq \in 0..MaxSeq /\ stream \in Session
    BY DEF TimelineTypeOK
  <1>3. rpc.from \in 0..MaxSeq /\ rpc.boundary \in 0..MaxSeq /\ rpc.stream \in Streams
    BY <1>1 DEF Calls
  <1>4. Had \in SUBSET Nat /\ Had \subseteq 1..MaxSeq
    BY DEF Had
  <1>5. stream # None => /\ stream \in Streams /\ pos[stream] \in Int
                         /\ pos[stream] # -1 => pos[stream] \in Nat
                         /\ summary[stream] \in Ranges
    BY <1>1, <1>2 DEF Session
  <1> QED BY <1>1, <1>2, <1>3, <1>4, <1>5

LEMMA UnchangedAll ==
  ASSUME UNCHANGED timelineVars
  PROVE  /\ UNCHANGED <<listed, over, pc, wsEpoch, listing, prev, from, stream, tEpoch>>
         /\ UNCHANGED <<lastSeq, folded, selected, current, switch, resub, cancelled>>
         /\ UNCHANGED <<selects, panel, fellBack>>
         /\ Had' = Had
         /\ TimelineTypeOK => TimelineTypeOK'
         /\ Shown => Shown'
         /\ SelectOK => SelectOK'
  <1>1. /\ UNCHANGED <<listed, over, pc, wsEpoch, listing, prev, from, stream, tEpoch>>
        /\ UNCHANGED <<lastSeq, folded, selected, current, switch, resub, cancelled>>
        /\ UNCHANGED <<selects, panel, fellBack>>
    BY DEF timelineVars, sessionVars, localVars, streamVars, signalVars, historyVars
  <1> QED BY <1>1 DEF Had, TimelineTypeOK, Shown, SelectOK

LEMMA IInvInit == Init => IInv
  <1> SUFFICES ASSUME Init PROVE IInv
    OBVIOUS
  <1> USE TimelineAssumption DEF Init, DaemonInit
  <1>1. DaemonInv
    BY DaemonInvInit
  <1>2. wire = <<>> /\ Len(wire) = 0 /\ 1..Len(wire) = {}
    BY EmptySeq
  <1>3. rpc.at = "idle" /\ rpc.op = "none" /\ ~Subscribes /\ Had = {}
    BY DEF Idle, Subscribes, Had
  <1>4. TimelineTypeOK
    <2>1. 0 \in 0..MaxSeq /\ 0 \in 0..MaxEpoch /\ 0 \in 0..MaxSelects
      BY DaemonAssumption
    <2>2. {prev, stream, selected, current} \subseteq Session /\ {switch, resub, cancelled} \subseteq BOOLEAN
      BY DEF Session
    <2>3. listed \subseteq Streams
      OBVIOUS
    <2> QED BY <2>1, <2>2, <2>3 DEF TimelineTypeOK, Places
  <1>5. PlaceOK
    BY <1>2, <1>3 DEF PlaceOK, Offline, Calling, Following, Leaving, Asked
  <1>6. EpochOK
    BY <1>2, <1>3 DEF EpochOK, Offline, Following, Leaving
  <1>7. OneStream /\ Answers
    BY <1>2, <1>3 DEF OneStream, Answers, Leaving
  <1>8. Shown
    BY DEF Shown
  <1>9. NoHoles
    BY <1>2, <1>3, EmptyContinues DEF NoHoles, Asked
  <1>10. Told /\ Fresh
    BY <1>3 DEF Told, ConsentOnItsWay, Fresh
  <1>11. SelectOK
    BY DEF SelectOK, Following, Leaving
  <1> QED BY <1>1, <1>4, <1>5, <1>6, <1>7, <1>8, <1>9, <1>10, <1>11 DEF IInv, Core
-----------------------------------------------------------------------------
(* Steps that leave the daemon, the connection and what was folded alone. *)
LEMMA MoveKeepsCore ==
  ASSUME Core, TimelineTypeOK',
         UNCHANGED <<epoch, up, head, summary, pos, link, wire, rpc, faults>>,
         UNCHANGED <<wsEpoch, stream, tEpoch, lastSeq, folded, panel, fellBack>>,
         prev' = prev \/ pc' = "subscribe",
         cancelled => cancelled',
         resub' = resub \/ pc' = "subscribe",
         \/ pc' = pc
         \/ pc \in Offline /\ pc' \in Offline
         \/ pc \in {"open", "list", "serve", "wait"} /\ pc' = "close"
         \/ pc = "list" /\ pc' = "pick" /\ link = "open" /\ ~cancelled
         \/ pc = "pick" /\ pc' = "wait"
         \/ pc \in {"serve", "wait"} /\ pc' = "list"
         \/ pc = "serve" /\ pc' = "subscribe"
         \/ pc = "pick" /\ pc' = "subscribe" /\ stream # None /\ tEpoch = wsEpoch
  PROVE  Core'
  <1> USE DEF Core
  <1>0. Had' = Had /\ Subscribes' = Subscribes /\ Asked' = Asked
        /\ RefusalOnItsWay' = RefusalOnItsWay /\ ConsentOnItsWay' = ConsentOnItsWay
        /\ Asking' = Asking
    BY DEF Had, Subscribes, Asked, RefusalOnItsWay, ConsentOnItsWay, Asking
  <1>1. DaemonInv'
    BY DEF DaemonInv, DaemonTypeOK, SummaryOK, LinkOK, RpcOK
  <1>2. PlaceOK'
    BY <1>0 DEF PlaceOK, Offline, Calling, Following, Leaving
  <1>3. EpochOK'
    BY <1>0 DEF EpochOK, Offline, Following, Leaving
  <1>4. OneStream'
    BY DEF OneStream, Leaving, Offline
  <1>5. Answers'
    BY <1>0 DEF Answers, Leaving, Offline
  <1>6. Shown'
    BY DEF Shown, Offline
  <1>7. NoHoles'
    BY <1>0 DEF NoHoles
  <1>8. Told'
    <2>1. pc' = "serve" => pc = "serve"
      BY DEF Offline
    <2>2. pc' = "subscribe" => ~ConsentOnItsWay \/ resub' = resub
      BY DEF PlaceOK, Calling, Asked, ConsentOnItsWay, Offline
    <2> QED BY <1>0, <2>1, <2>2 DEF Told
  <1>9. Fresh'
    BY <1>0 DEF Fresh
  <1> QED BY <1>1, <1>2, <1>3, <1>4, <1>5, <1>6, <1>7, <1>8, <1>9

(* The actions of that kind. *)
LEMMA MovesKeepCore ==
  ASSUME Core,
         \/ DialFails \/ List \/ OpenOrListFails \/ NothingToFollow \/ WaitOver
         \/ Ends \/ ServeSwitch \/ ServeResub \/ Backoff \/ RunEnds \/ Cancel
         \/ \E s \in Streams : Select(s) \/ SessionStarts(s) \/ SessionEnds(s)
  PROVE  Core'
  <1> USE DEF daemonVars, sessionVars, localVars, streamVars, signalVars, historyVars,
              Core, Goto, Offline
  <1>1. CASE DialFails \/ OpenOrListFails \/ NothingToFollow \/ Ends \/ Backoff \/ RunEnds
    <2>1. TimelineTypeOK'
      BY <1>1 DEF TimelineTypeOK, Places, DialFails, OpenOrListFails, NothingToFollow, Ends,
                  Backoff, RunEnds
    <2> QED BY <1>1, <2>1, MoveKeepsCore DEF DialFails, OpenOrListFails, NothingToFollow, Ends,
                                             Backoff, RunEnds
  <1>2. CASE List
    <2>1. TimelineTypeOK'
      BY <1>2 DEF TimelineTypeOK, Places, List
    <2> QED BY <1>2, <2>1, MoveKeepsCore DEF List
  <1>3. CASE WaitOver \/ ServeSwitch \/ ServeResub
    <2>1. TimelineTypeOK'
      BY <1>3 DEF TimelineTypeOK, Places, WaitOver, ServeSwitch, ServeResub
    <2>2. CASE WaitOver
      BY <2>1, <2>2, MoveKeepsCore DEF WaitOver
    <2>3. CASE ServeSwitch
      BY <2>1, <2>3, MoveKeepsCore DEF ServeSwitch
    <2>4. CASE ServeResub
      BY <2>1, <2>4, MoveKeepsCore DEF ServeResub
    <2> QED BY <1>3, <2>2, <2>3, <2>4
  <1>4. CASE Cancel
    <2>1. TimelineTypeOK'
      BY <1>4 DEF TimelineTypeOK, Cancel
    <2> QED BY <1>4, <2>1, MoveKeepsCore DEF Cancel
  <1>5. CASE \E s \in Streams : Select(s)
    <2>1. TimelineTypeOK'
      BY <1>5, TimelineAssumption DEF TimelineTypeOK, Select, Session
    <2> QED BY <1>5, <2>1, MoveKeepsCore DEF Select
  <1>6. CASE \E s \in Streams : SessionStarts(s) \/ SessionEnds(s)
    <2>1. TimelineTypeOK'
      BY <1>6 DEF TimelineTypeOK, SessionStarts, SessionEnds
    <2> QED BY <1>6, <2>1, MoveKeepsCore DEF SessionStarts, SessionEnds
  <1> QED BY <1>1, <1>2, <1>3, <1>4, <1>5, <1>6

(* The selection is looked after apart from the rest. *)
LEMMA SelectOKStep ==
  ASSUME TimelineTypeOK, SelectOK, [Next]_vars
  PROVE  SelectOK'
  <1> USE DEF sessionVars, localVars, streamVars, signalVars, historyVars, Goto
  <1>1. ASSUME UNCHANGED <<listed, over, listing, selected, current, switch>>,
               pc' \in {"pick"} \cup Following => pc' = pc \/ (pc \in Following /\ pc' # "pick")
        PROVE  SelectOK'
    BY <1>1 DEF SelectOK, Following, Leaving
  <1>2. CASE \/ Dial \/ DialFails \/ Open \/ OpenOrListFails \/ Clear \/ NothingToFollow
             \/ Unsubscribe \/ Unsubscribed \/ Ends \/ ServeResub \/ Close \/ Backoff \/ RunEnds
    BY <1>1, <1>2 DEF Dial, DialFails, Open, OpenOrListFails, Clear, NothingToFollow,
       Unsubscribe, Unsubscribed, Ends, ServeResub, Close, Backoff, RunEnds, Following, Leaving
  <1>3. CASE \/ Subscribe \/ Subscribed \/ CallReturnsError \/ RetryAtBoundary \/ RetryFromStart
             \/ Cancel
    BY <1>1, <1>3 DEF Subscribe, Subscribed, CallReturnsError, RetryAtBoundary, RetryFromStart,
       Retry, Cancel, Following, Leaving
  <1>4. CASE Reader \/ (DaemonStep /\ UNCHANGED timelineVars) \/ UNCHANGED vars
    <2>1. CASE OnPush \/ OnClosed
      BY <1>1, <2>1 DEF OnPush, OnPushRest, OnClosed
    <2>2. CASE OnReply \/ (DaemonStep /\ UNCHANGED timelineVars) \/ UNCHANGED vars
      BY <2>2, UnchangedAll DEF OnReply, vars
    <2> QED BY <1>4, <2>1, <2>2 DEF Reader
  <1>5. CASE List
    BY <1>5 DEF List, SelectOK, Following, Leaving
  <1>6. CASE Pick
    <2>1. /\ UNCHANGED <<listed, over, listing, selected, switch>>
          /\ pc = "pick" /\ current' \in Choices /\ pc' # "pick"
      BY <1>6 DEF Pick
    <2> QED BY <2>1 DEF SelectOK, Choices
  <1>7. CASE WaitOver \/ ServeSwitch
    BY <1>7 DEF WaitOver, ServeSwitch, SelectOK, Following, Leaving
  <1>8. CASE \E s \in Streams : Select(s)
    BY <1>8 DEF Select, SelectOK
  <1>9. CASE \E s \in Streams : SessionStarts(s)
    <2>1. PICK s \in Streams : SessionStarts(s)
      BY <1>9
    <2>2. selected \in listed' => selected \in listed
      BY <2>1, TimelineAssumption DEF SessionStarts, SelectOK
    <2> QED BY <2>1, <2>2 DEF SessionStarts, SelectOK
  <1>10. CASE \E s \in Streams : SessionEnds(s)
    BY <1>10 DEF SessionEnds, SelectOK
  <1> QED BY <1>2, <1>3, <1>4, <1>5, <1>6, <1>7, <1>8, <1>9, <1>10 DEF Next, Run, Environment
-----------------------------------------------------------------------------
(* The daemon's steps *)

LEMMA EmitRestartKeepCore ==
  ASSUME Core, Restart \/ \E s \in Streams : Emit(s), UNCHANGED timelineVars
  PROVE  Core'
  <1> USE UnchangedAll DEF Core
  <1>1. DaemonInv'
    BY EmitKeepsDaemonInv, RestartKeepsDaemonInv
  <1>2. UNCHANGED <<epoch, summary, pos, link, wire, rpc>>
    BY DEF Emit, Restart
  <1>3. UNCHANGED <<Subscribes, Asked, Asking, RefusalOnItsWay, ConsentOnItsWay>>
    BY <1>2 DEF Subscribes, Asked, Asking, RefusalOnItsWay, ConsentOnItsWay
  <1>4. PlaceOK' /\ EpochOK'
    BY <1>2, <1>3 DEF PlaceOK, EpochOK
  <1>5. OneStream' /\ Answers'
    BY <1>2, <1>3 DEF OneStream, Answers
  <1>6. NoHoles' /\ Told'
    BY <1>2, <1>3 DEF NoHoles, Told
  <1>7. Fresh'
    BY <1>2, <1>3 DEF Fresh
  <1> QED BY <1>1, <1>4, <1>5, <1>6, <1>7

LEMMA CompactKeepsCore ==
  ASSUME Core, NEW s \in Streams, Compact(s), UNCHANGED timelineVars
  PROVE  Core'
  <1> USE UnchangedAll DEF Core
  <1>1. DaemonInv'
    BY CompactKeepsDaemonInv
  <1>2. UNCHANGED <<epoch, up, head, pos, link, wire, rpc, faults>>
    BY DEF Compact
  <1>3. UNCHANGED <<Subscribes, Asked, Asking, RefusalOnItsWay, ConsentOnItsWay>>
    BY <1>2 DEF Subscribes, Asked, Asking, RefusalOnItsWay, ConsentOnItsWay
  <1>4. PlaceOK' /\ EpochOK'
    BY <1>2, <1>3 DEF PlaceOK, EpochOK
  <1>5. OneStream' /\ Answers'
    BY <1>2, <1>3 DEF OneStream, Answers
  <1>6. NoHoles' /\ Told'
    BY <1>2, <1>3 DEF NoHoles, Told
  <1>7. Fresh'
    <2> SUFFICES ASSUME fellBack = "no", stream # None PROVE Fresh'
      BY DEF Fresh
    <2> DEFINE r == summary[stream]
               t == summary'[stream]
    <2>1. PICK c \in [from : 1..head[s], to : 1..head[s]] :
             /\ summary[s] = NoRange \/ (c.from <= summary[s].from /\ summary[s].to <= c.to)
             /\ ~Inside(pos[s], c)
             /\ summary' = [summary EXCEPT ![s] = c]
      BY DEF Compact
    <2>2. /\ stream \in Streams /\ summary \in [Streams -> Ranges]
          /\ pos[stream] # -1 => pos[stream] \in Nat
          /\ lastSeq \in Nat /\ rpc.boundary \in Nat /\ wire \in Seq(Frames) /\ Had \in SUBSET Nat
      BY Types DEF DaemonInv
    <2>3. r \in Ranges /\ t \in Ranges
      BY <1>1, <2>2 DEF DaemonInv, DaemonTypeOK
    <2>4. \/ t = r
          \/ /\ r = NoRange \/ (t.from <= r.from /\ r.to <= t.to)
             /\ ~Inside(pos[stream], t)
      BY <2>1, <2>2
    <2>5. r = summary[stream] /\ t = summary'[stream]
      OBVIOUS
    <2> HIDE DEF r, t
    <2>6. \A n \in Had :
             /\ Ahead(n, lastSeq, r) => Ahead(n, lastSeq, t)
             /\ Ahead(n, rpc.boundary, r) => Ahead(n, rpc.boundary, t)
      BY <2>2, <2>3, <2>4, GrownAhead
    <2>7. pos[stream] # -1 /\ StaysNew(wire, stream, Had, pos[stream], r) =>
             StaysNew(wire, stream, Had, pos[stream], t)
      BY <2>2, <2>3, <2>4, GrownStaysNew
    <2> QED BY <1>2, <1>3, <2>5, <2>6, <2>7 DEF Fresh
  <1> QED BY <1>1, <1>4, <1>5, <1>6, <1>7

(* The daemon dies or the connection breaks: nothing is subscribed, and    *)
(* the last frames may be lost.                                            *)
LEMMA CutKeepsCore ==
  ASSUME Core, Crash \/ Break, UNCHANGED timelineVars
  PROVE  Core'
  <1> USE UnchangedAll DEF Core
  <1>1. DaemonInv'
    BY CrashKeepsDaemonInv, BreakKeepsDaemonInv
  <1>2. /\ pos' = [s \in Streams |-> -1] /\ rpc' = rpc
        /\ link' = IF link = "open" THEN "broken" ELSE link
        /\ \/ epoch' = epoch + 1
           \/ epoch' = epoch /\ summary' = summary
    BY DEF Crash, Break
  <1>3. ~Subscribes' /\ \A s \in Streams : pos'[s] = -1
    BY <1>2 DEF Subscribes
  <1>4. wire \in Seq(Frames) /\ Loses(wire, wire')
    <2>1. wire \in Seq(Frames)
      BY DEF DaemonInv, DaemonTypeOK
    <2> QED BY <2>1, SubSeqLoses DEF Crash, Break
  <1>5. /\ \A i \in 1..Len(wire') :
              /\ i \in 1..Len(wire) /\ wire'[i] = wire[i]
              /\ ReplyAt(wire', i) <=> ReplyAt(wire, i)
        /\ wire = <<>> => wire' = <<>>
        /\ Len(wire) \in Nat /\ Len(wire') \in Nat /\ Len(wire') <= Len(wire)
    BY <1>4, LosesAt
  <1>6. link' # "open" /\ (link' = "none" <=> link = "none")
        /\ (link = "broken" => link' = "broken")
    BY <1>2
  <1>7. /\ epoch \in Nat /\ wsEpoch \in Nat /\ tEpoch \in Nat
        /\ stream # None => stream \in Streams
    BY Types DEF DaemonInv
  <1>8. /\ tEpoch <= wsEpoch /\ wsEpoch <= epoch'
        /\ tEpoch = epoch' => epoch' = epoch /\ summary' = summary
    BY <1>2, <1>7 DEF EpochOK
  <1>9. UNCHANGED <<Asked, Asking, RefusalOnItsWay, ConsentOnItsWay>>
    BY <1>2 DEF Asked, Asking, RefusalOnItsWay, ConsentOnItsWay
  <1>10. PlaceOK'
    BY <1>2, <1>3, <1>5, <1>6, <1>9 DEF PlaceOK
  <1>11. EpochOK'
    BY <1>3, <1>5, <1>6, <1>8 DEF EpochOK
  <1>12. OneStream'
    BY <1>3, <1>5 DEF OneStream
  <1>13. Answers'
    <2>1. pc = "uncall" /\ rpc.at = "wired" =>
             \A i \in 1..Len(wire') : ReplyAt(wire', i) => i = Len(wire')
      <3> SUFFICES ASSUME pc = "uncall", rpc.at = "wired", NEW i \in 1..Len(wire'), ReplyAt(wire', i)
                   PROVE  i = Len(wire')
        OBVIOUS
      <3>1. i = Len(wire)
        BY <1>5 DEF Answers
      <3> QED BY <1>5, <3>1
    <2>2. link' # "broken" => link # "broken"
      BY <1>2
    <2> QED BY <1>2, <1>3, <1>5, <2>1, <2>2 DEF Answers
  <1>14. NoHoles'
    <2>1. Continues(wire', stream, Had)
      BY <1>4, LosesContinues DEF NoHoles
    <2> QED BY <1>2, <1>3, <1>7, <1>9, <2>1 DEF NoHoles
  <1>15. Told'
    BY <1>6 DEF Told
  <1>16. Fresh'
    <2> SUFFICES ASSUME fellBack = "no", stream # None PROVE Fresh'
      BY DEF Fresh
    <2>1. KeepsPushes(wire, wire', stream)
      BY <1>4, LosesKeepsPushes
    <2>2. \A i \in 1..Len(wire') : PushOf(wire', stream, i) =>
             i \in 1..Len(wire) /\ PushOf(wire, stream, i)
      BY <1>5, <2>1 DEF KeepsPushes
    <2>3. AllNew(wire', stream, Had)
      BY <2>1, KeptNew DEF Fresh
    <2>4. pos'[stream] = -1
      BY <1>3, <1>7
    <2> QED BY <1>2, <1>8, <1>9, <2>2, <2>3, <2>4 DEF Fresh
  <1> QED BY <1>1, <1>10, <1>11, <1>12, <1>13, <1>14, <1>15, <1>16

(* The next record goes to the subscriber.  It goes on from the last one;  *)
(* if it is of the old stream, it does not matter.                         *)
LEMMA PushNextKeepsCore ==
  ASSUME Core, NEW s \in Streams, PushNext(s), UNCHANGED timelineVars
  PROVE  Core'
  <1> USE UnchangedAll DEF Core
  <1> DEFINE p == pos[s]
             sum == summary[s]
             r == RecordAfter(s, p)
             f == Push(s, r)
             k == Len(wire) + 1
  <1>1. p # -1 /\ link = "open" /\ p < head[s] /\ Subscribes
        /\ UNCHANGED <<epoch, summary, link, rpc>>
    BY DEF PushNext, Subscribes
  <1>2. /\ r \in Ranges /\ r.from = p + 1 /\ r.from <= r.to /\ f \in Frames
        /\ f.kind = "push" /\ f.stream = s /\ f.first = p + 1 /\ f.cursor = r.to
    BY <1>1, RecordOK
  <1>3. DaemonInv' /\ Sends(wire, wire', f) /\ pos' = [pos EXCEPT ![s] = r.to]
    BY PushNextKeepsDaemonInv
  <1>4. r = IF sum.from = p + 1 THEN sum ELSE [from |-> p + 1, to |-> p + 1]
    BY DEF RecordAfter
  <1>5. p \in Nat /\ r.to \in Nat /\ p < r.to /\ sum \in Ranges
    <2>1. p \in -1..MaxSeq /\ MaxSeq \in Nat /\ sum \in Ranges
      BY Types DEF DaemonInv
    <2>2. p \in Nat
      BY <1>1, <2>1
    <2>3. r.to \in Nat /\ r.from \in Nat
      BY <1>2 DEF Ranges
    <2> QED BY <1>2, <2>1, <2>2, <2>3
  <1>6. wire \in Seq(Frames) /\ pos \in [Streams -> -1..MaxSeq] /\ Had \in SUBSET Nat
        /\ (stream # None => stream \in Streams) /\ None \notin Streams
    BY Types DEF DaemonInv
  <1>7. /\ \A i : ClosedAt(wire', i) <=> ClosedAt(wire, i)
        /\ \A i : ReplyAt(wire', i) <=> ReplyAt(wire, i)
        /\ \A i \in 1..Len(wire) : wire'[i] = wire[i] /\ i \in 1..Len(wire')
        /\ \A i \in 1..Len(wire') : i \in 1..Len(wire) \/ i = k
        /\ k \in 1..Len(wire') /\ wire'[k] = f
    BY <1>2, <1>3, <1>6, SendsAt
  <1>8. pos'[s] = r.to /\ r.to # -1 /\ (\A t \in Streams \ {s} : pos'[t] = pos[t]) /\ Subscribes'
    <2>1. pos'[s] = r.to /\ r.to # -1 /\ \A t \in Streams \ {s} : pos'[t] = pos[t]
      BY <1>3, <1>5, <1>6
    <2> QED BY <2>1 DEF Subscribes
  <1>9. UNCHANGED <<Asked, Asking, RefusalOnItsWay, ConsentOnItsWay>>
    BY <1>1 DEF Asked, Asking, RefusalOnItsWay, ConsentOnItsWay
  <1> HIDE DEF p, sum, r, f, k
  <1>10. PlaceOK'
    BY <1>1, <1>9 DEF PlaceOK
  <1>11. EpochOK'
    BY <1>1 DEF EpochOK
  <1>12. OneStream'
    <2>1. /\ pc \notin Leaving \cup {"close"} => s = stream
          /\ pc \in Leaving => s = prev /\ s # stream
      BY <1>1 DEF OneStream, p
    <2>2. \A i \in 1..Len(wire') : wire'[i].stream = s \/ (i \in 1..Len(wire) /\ wire'[i] = wire[i])
      BY <1>2, <1>7
    <2> QED BY <1>8, <2>1, <2>2 DEF OneStream
  <1>13. Answers'
    <2>1. pc = "uncall" => rpc.at = "sent"
      BY <1>1 DEF Answers
    <2>2. \A i : ReplyAt(wire, i) => i \in 1..Len(wire)
      BY DEF ReplyAt
    <2> QED BY <1>1, <1>7, <2>1, <2>2 DEF Answers
  <1>14. NoHoles'
    <2>1. f.first - 1 = p
      BY <1>2, <1>5
    <2>2. s = stream => Reaches(p, wire, stream, Had)
      BY <1>1, <1>6 DEF NoHoles, p
    <2>3. Continues(wire', stream, Had)
      BY <1>2, <1>3, <1>6, <2>1, <2>2, SendsContinues DEF NoHoles
    <2>4. s = stream => Reaches(r.to, wire', stream, Had)
      BY <1>2, <1>3, <1>6, <2>1, <2>2, PushReaches
    <2>5. \A q : Reaches(q, wire, stream, Had) => Reaches(q, wire', stream, Had)
      BY <1>3, <1>6, SendsReaches
    <2> QED BY <1>1, <1>6, <1>8, <1>9, <2>3, <2>4, <2>5 DEF NoHoles
  <1>15. Told'
    <2>1. link = "open" /\ (pc = "serve" \/ ConsentOnItsWay) => stream # None
      BY DEF PlaceOK, Following, Leaving, Calling, Asked, ConsentOnItsWay
    <2>2. stream # None /\ pos[stream] # -1 => pos'[stream] # -1
      BY <1>6, <1>8
    <2>3. \A i \in 1..Len(wire) : ClosedAt(wire, i) =>
             i \in 1..Len(wire') /\ ClosedAt(wire', i) /\ wire'[i] = wire[i]
      BY <1>7
    <2> QED BY <1>1, <1>9, <2>1, <2>2, <2>3 DEF Told
  <1>16. Fresh'
    <2> SUFFICES ASSUME fellBack = "no", stream # None PROVE Fresh'
      BY DEF Fresh
    <2>1. CASE s = stream
      <3>1. AllNew(wire, stream, Had) /\ StaysNew(wire, stream, Had, p, sum)
        BY <1>1, <2>1 DEF Fresh, p, sum
      <3>2. AllNew(wire', stream, Had) /\ StaysNew(wire', stream, Had, r.to, sum)
        BY <1>2, <1>3, <1>4, <1>5, <1>6, <2>1, <3>1, SentNew
      <3>3. ~(Asking \/ RefusalOnItsWay)
        BY <1>1, <2>1 DEF Fresh, p
      <3> QED BY <1>1, <1>8, <1>9, <2>1, <3>2, <3>3 DEF Fresh, sum
    <2>2. CASE s # stream
      <3>1. KeepsPushes(wire, wire', stream)
        BY <1>2, <1>3, <1>6, <2>2, SendsKeepsPushes
      <3>2. pos'[stream] = pos[stream]
        BY <1>6, <1>8, <2>2
      <3>3. \A i \in 1..Len(wire') : PushOf(wire', stream, i) =>
               i \in 1..Len(wire) /\ PushOf(wire, stream, i)
        BY <3>1 DEF KeepsPushes, PushOf, PushAt
      <3>4. /\ AllNew(wire, stream, Had) => AllNew(wire', stream, Had)
            /\ StaysNew(wire, stream, Had, pos[stream], summary[stream]) =>
                  StaysNew(wire', stream, Had, pos[stream], summary[stream])
        BY <3>1, KeptNew
      <3> QED BY <1>1, <1>9, <3>2, <3>3, <3>4 DEF Fresh
    <2> QED BY <2>1, <2>2
  <1> QED BY <1>3, <1>10, <1>11, <1>12, <1>13, <1>14, <1>15, <1>16

LEMMA CloseSubscriptionKeepsCore ==
  ASSUME Core, NEW s \in Streams, CloseSubscription(s), UNCHANGED timelineVars
  PROVE  Core'
  <1> USE UnchangedAll DEF Core
  <1> DEFINE f == Closed(s)
             k == Len(wire) + 1
  <1>1. pos[s] # -1 /\ link = "open" /\ Subscribes
        /\ UNCHANGED <<epoch, summary, link, rpc>> /\ pos' = [pos EXCEPT ![s] = -1]
    BY DEF CloseSubscription, Subscribes
  <1>2. DaemonInv' /\ Sends(wire, wire', f) /\ f.kind = "closed" /\ f.stream = s
    BY CloseSubscriptionKeepsDaemonInv DEF Closed
  <1>3. wire \in Seq(Frames) /\ pos \in [Streams -> -1..MaxSeq]
        /\ (stream # None => stream \in Streams)
    BY Types DEF DaemonInv
  <1>4. /\ \A i : ClosedAt(wire', i) <=> ClosedAt(wire, i) \/ i = k
        /\ \A i : ReplyAt(wire', i) <=> ReplyAt(wire, i)
        /\ \A i \in 1..Len(wire) : wire'[i] = wire[i] /\ i \in 1..Len(wire')
        /\ \A i \in 1..Len(wire') : i \in 1..Len(wire) \/ i = k
        /\ k \in 1..Len(wire') /\ wire'[k] = f
    BY <1>2, <1>3, SendsAt
  <1>5. pos'[s] = -1 /\ (\A t \in Streams \ {s} : pos'[t] = pos[t]) /\ (Subscribes' => Subscribes)
    <2>1. pos'[s] = -1 /\ \A t \in Streams \ {s} : pos'[t] = pos[t]
      BY <1>1, <1>3
    <2> QED BY <1>1, <2>1
  <1>6. UNCHANGED <<Asked, Asking, RefusalOnItsWay, ConsentOnItsWay>>
    BY <1>1 DEF Asked, Asking, RefusalOnItsWay, ConsentOnItsWay
  <1> HIDE DEF f, k
  <1>7. PlaceOK'
    BY <1>1, <1>6 DEF PlaceOK
  <1>8. EpochOK'
    BY <1>1 DEF EpochOK
  <1>9. OneStream'
    <2>1. /\ pc \notin Leaving \cup {"close"} => s = stream
          /\ pc \in Leaving => s = prev /\ s # stream
      BY <1>1 DEF OneStream
    <2>2. \A i \in 1..Len(wire') : wire'[i].stream = s \/ (i \in 1..Len(wire) /\ wire'[i] = wire[i])
      BY <1>2, <1>4
    <2> QED BY <1>5, <2>1, <2>2 DEF OneStream
  <1>10. Answers'
    <2>1. pc = "uncall" => rpc.at = "sent"
      BY <1>1 DEF Answers
    <2>2. \A i : ReplyAt(wire, i) => i \in 1..Len(wire)
      BY DEF ReplyAt
    <2> QED BY <1>1, <1>4, <2>1, <2>2 DEF Answers
  <1>11. NoHoles'
    <2>1. Continues(wire', stream, Had)
      BY <1>2, <1>3, SendsContinues DEF NoHoles
    <2>2. \A q : Reaches(q, wire, stream, Had) => Reaches(q, wire', stream, Had)
      BY <1>2, <1>3, SendsReaches
    <2> QED BY <1>1, <1>3, <1>5, <1>6, <2>1, <2>2 DEF NoHoles
  <1>12. Told'
    <2>1. \A i \in 1..Len(wire) : ClosedAt(wire, i) =>
             i \in 1..Len(wire') /\ ClosedAt(wire', i) /\ wire'[i] = wire[i]
      BY <1>4
    <2>2. CASE s = stream
      BY <1>2, <1>4, <2>2 DEF Told
    <2>3. CASE s # stream
      <3>1. link = "open" /\ (pc = "serve" \/ ConsentOnItsWay) => stream # None
        BY DEF PlaceOK, Following, Leaving, Calling, Asked, ConsentOnItsWay
      <3>2. stream # None => pos'[stream] = pos[stream]
        BY <1>3, <1>5, <2>3
      <3> QED BY <1>1, <1>6, <2>1, <3>1, <3>2 DEF Told
    <2> QED BY <2>2, <2>3
  <1>13. Fresh'
    <2> SUFFICES ASSUME fellBack = "no", stream # None PROVE Fresh'
      BY DEF Fresh
    <2>1. KeepsPushes(wire, wire', stream)
      BY <1>2, <1>3, SendsKeepsPushes
    <2>2. pos'[stream] \in {pos[stream], -1}
      BY <1>3, <1>5
    <2>3. \A i \in 1..Len(wire') : PushOf(wire', stream, i) =>
             i \in 1..Len(wire) /\ PushOf(wire, stream, i)
      BY <2>1 DEF KeepsPushes, PushOf, PushAt
    <2>4. /\ AllNew(wire, stream, Had) => AllNew(wire', stream, Had)
          /\ StaysNew(wire, stream, Had, pos[stream], summary[stream]) =>
                StaysNew(wire', stream, Had, pos[stream], summary[stream])
      BY <2>1, KeptNew
    <2> QED BY <1>1, <1>6, <2>2, <2>3, <2>4 DEF Fresh
  <1> QED BY <1>2, <1>7, <1>8, <1>9, <1>10, <1>11, <1>12, <1>13

(* The answer to a subscribe: what all answers have in common. *)
LEMMA AnsweredKeepsPlace ==
  ASSUME Core, DaemonInv', UNCHANGED timelineVars, UNCHANGED <<epoch, link, wire>>,
         rpc.at = "sent", rpc.op = "subscribe", link = "open", rpc'.at = "due",
         rpc'.op = rpc.op, rpc'.stream = rpc.stream, rpc'.from = rpc.from,
         pos' = pos \/ pos' = [pos EXCEPT ![rpc.stream] = rpc.from]
  PROVE  /\ PlaceOK' /\ EpochOK' /\ OneStream' /\ Answers' /\ NoHoles'
         /\ rpc.stream = stream /\ stream \in Streams /\ stream # None
         /\ tEpoch = epoch /\ pc \in {"call", "retry"}
         /\ pos'[stream] \in {pos[stream], rpc.from}
  <1> USE UnchangedAll DEF Core
  <1>1. pc \in {"call", "retry"} /\ rpc.stream = stream /\ stream # None
    BY DEF PlaceOK, Asked, Calling, Following, Leaving
  <1>2. /\ stream \in Streams /\ pos \in [Streams -> -1..MaxSeq]
        /\ rpc.from \in Nat
    BY <1>1, Types DEF DaemonInv
  <1>3. tEpoch = epoch /\ wsEpoch = epoch /\ tEpoch = wsEpoch /\ wsEpoch # 0
    BY <1>1 DEF EpochOK, Following
  <1>4. /\ \A t \in Streams \ {stream} : pos'[t] = pos[t]
        /\ pos'[stream] \in {pos[stream], rpc.from}
    BY <1>1, <1>2
  <1>5. PlaceOK'
    BY <1>1 DEF PlaceOK, Asked
  <1>6. EpochOK'
    BY <1>3 DEF EpochOK
  <1>7. OneStream'
    BY <1>1, <1>4 DEF OneStream, Leaving
  <1>8. Answers'
    BY <1>1 DEF Answers
  <1>9. NoHoles'
    <2>1. 1..rpc.from \subseteq Had
      BY <1>1 DEF NoHoles, Asked
    <2>2. Reaches(rpc.from, wire, stream, Had)
      BY <2>1 DEF Reaches
    <2> QED BY <1>4, <2>1, <2>2 DEF NoHoles, Asked
  <1> QED BY <1>1, <1>2, <1>3, <1>4, <1>5, <1>6, <1>7, <1>8, <1>9

(* A refusal changes nothing that is subscribed. *)
LEMMA RefusalKeepsCore ==
  ASSUME Core, DaemonInv', UNCHANGED timelineVars,
         UNCHANGED <<epoch, summary, pos, link, wire>>,
         rpc.at = "sent", rpc.op = "subscribe", link = "open",
         rpc'.at = "due", rpc'.result # "ok",
         rpc'.op = rpc.op, rpc'.stream = rpc.stream, rpc'.from = rpc.from,
         rpc'.result = "compacted" =>
            /\ Inside(rpc.from, summary[rpc.stream])
            /\ rpc'.boundary = summary[rpc.stream].from - 1
  PROVE  Core'
  <1> USE UnchangedAll DEF Core
  <1>1. /\ PlaceOK' /\ EpochOK' /\ OneStream' /\ Answers' /\ NoHoles'
        /\ rpc.stream = stream /\ stream \in Streams /\ stream # None
        /\ tEpoch = epoch /\ pc \in {"call", "retry"}
    BY AnsweredKeepsPlace
  <1>2. Told'
    BY <1>1 DEF Told, ConsentOnItsWay
  <1>3. Fresh'
    <2> SUFFICES ASSUME fellBack = "no" PROVE Fresh'
      BY DEF Fresh
    <2>1. /\ rpc.from = lastSeq /\ \A n \in Had : Ahead(n, lastSeq, summary[stream])
          /\ pos[stream] = -1 /\ \A i \in 1..Len(wire) : ~PushOf(wire, stream, i)
          /\ AllNew(wire, stream, Had)
      BY <1>1 DEF Fresh, Asking
    <2>2. rpc'.result = "compacted" =>
             \A n \in Had : Ahead(n, rpc'.boundary, summary[stream])
      <3>1. Had \in SUBSET Nat /\ lastSeq \in Nat /\ summary[stream] \in Ranges
        BY <1>1, Types DEF DaemonInv
      <3> QED BY <1>1, <2>1, <3>1, BoundaryAhead
    <2> QED BY <1>1, <2>1, <2>2 DEF Fresh
  <1> QED BY <1>1, <1>2, <1>3

LEMMA RefuseKeepsCore ==
  ASSUME Core, Refuse, UNCHANGED timelineVars
  PROVE  Core'
  <1>1. rpc.op = "subscribe"
    BY DEF Refuse
  <1> QED BY <1>1, RefuseKeepsDaemonInv, RefusalKeepsCore DEF Core

LEMMA HandleSubscribeKeepsCore ==
  ASSUME Core, HandleSubscribe, UNCHANGED timelineVars
  PROVE  Core'
  <1>1. /\ DaemonInv'
        /\ rpc.at = "sent" /\ pos[rpc.stream] = -1 /\ link = "open"
        /\ UNCHANGED <<epoch, up, head, summary, link, wire, faults>>
        /\ rpc'.at = "due" /\ rpc'.op = rpc.op /\ rpc'.stream = rpc.stream
        /\ rpc'.from = rpc.from
    BY HandleSubscribeKeepsDaemonInv DEF Core
  <1>2. rpc.op = "subscribe"
    BY DEF HandleSubscribe
  <1>3. CASE /\ rpc'.result = "compacted" /\ UNCHANGED pos
             /\ Inside(rpc.from, summary[rpc.stream])
             /\ rpc'.boundary = summary[rpc.stream].from - 1
    BY <1>1, <1>2, <1>3, RefusalKeepsCore
  <1>4. CASE rpc'.result = "error" /\ UNCHANGED pos
    BY <1>1, <1>2, <1>4, RefusalKeepsCore
  <1>5. CASE /\ rpc'.result = "ok" /\ ~Inside(rpc.from, summary[rpc.stream])
             /\ pos' = [pos EXCEPT ![rpc.stream] = rpc.from]
    <2> USE UnchangedAll DEF Core
    <2>1. /\ PlaceOK' /\ EpochOK' /\ OneStream' /\ Answers' /\ NoHoles'
          /\ rpc.stream = stream /\ stream \in Streams /\ stream # None
          /\ tEpoch = epoch /\ pc \in {"call", "retry"}
      BY <1>1, <1>2, <1>5, AnsweredKeepsPlace
    <2>2. pos'[stream] = rpc.from /\ rpc.from # -1
      BY <1>5, <2>1, Types DEF DaemonInv
    <2>3. Told'
      BY <2>2 DEF Told
    <2>4. Fresh'
      <3> SUFFICES ASSUME fellBack = "no" PROVE Fresh'
        BY DEF Fresh
      <3>1. /\ rpc.from = lastSeq /\ \A n \in Had : Ahead(n, lastSeq, summary[stream])
            /\ \A i \in 1..Len(wire) : ~PushOf(wire, stream, i)
            /\ AllNew(wire, stream, Had)
        BY <1>1, <1>2, <2>1 DEF Fresh, Asking
      <3>2. StaysNew(wire, stream, Had, lastSeq, summary[stream])
        BY <1>5, <2>1, <3>1 DEF StaysNew
      <3>3. ~Asking' /\ ~RefusalOnItsWay'
        BY <1>1, <1>5 DEF Asking, RefusalOnItsWay
      <3> QED BY <1>1, <2>1, <2>2, <3>1, <3>2, <3>3 DEF Fresh
    <2> QED BY <1>1, <2>1, <2>3, <2>4
  <1> QED BY <1>3, <1>4, <1>5, HandleSubscribeKeepsDaemonInv DEF Core

(* The followed session was picked again, or a call was given up. *)
LEMMA HandleSecondSubscribeKeepsCore ==
  ASSUME Core, HandleSecondSubscribe, UNCHANGED timelineVars
  PROVE  Core'
  <1> USE UnchangedAll DEF Core
  <1>1. /\ DaemonInv'
        /\ rpc.at = "sent" /\ pos[rpc.stream] # -1 /\ link = "open"
        /\ UNCHANGED <<epoch, up, head, summary, link, wire, faults>>
        /\ rpc'.at = "due" /\ rpc'.op = rpc.op /\ rpc'.stream = rpc.stream
        /\ rpc'.from = rpc.from
        /\ \/ rpc'.result = "error" /\ UNCHANGED pos
           \/ rpc'.result = "ok" /\ pos' = [pos EXCEPT ![rpc.stream] = rpc.from]
    BY HandleSecondSubscribeKeepsDaemonInv
  <1>2. rpc.op = "subscribe"
    BY DEF HandleSecondSubscribe
  <1>3. /\ PlaceOK' /\ EpochOK' /\ OneStream' /\ Answers' /\ NoHoles'
        /\ rpc.stream = stream /\ stream # None
        /\ pos'[stream] \in {pos[stream], rpc.from}
    BY <1>1, <1>2, AnsweredKeepsPlace
  <1>4. fellBack # "no"
    BY <1>1, <1>2, <1>3 DEF Fresh, Asking
  <1>5. pos'[stream] # -1
    BY <1>1, <1>3, Types DEF DaemonInv
  <1>6. Told' /\ Fresh'
    BY <1>4, <1>5 DEF Told, Fresh
  <1> QED BY <1>1, <1>3, <1>6

(* The old stream is not subscribed any more, nor is another one. *)
LEMMA HandleUnsubscribeKeepsCore ==
  ASSUME Core, HandleUnsubscribe, UNCHANGED timelineVars
  PROVE  Core'
  <1> USE UnchangedAll DEF Core
  <1>1. /\ DaemonInv'
        /\ rpc.at = "sent" /\ rpc.op = "unsubscribe" /\ link = "open"
        /\ UNCHANGED <<epoch, up, head, summary, link, wire, faults>>
        /\ rpc'.at = "due" /\ rpc'.op = rpc.op /\ rpc'.stream = rpc.stream
        /\ pos' = [pos EXCEPT ![rpc.stream] = -1]
    BY HandleUnsubscribeKeepsDaemonInv
  <1>2. pc = "uncall" /\ rpc.stream = prev /\ stream # None
    BY <1>1 DEF PlaceOK, Asked, Calling, Following, Leaving
  <1>3. ~Subscribes' /\ \A s \in Streams : pos'[s] = -1
    <2>1. pos \in [Streams -> -1..MaxSeq] /\ \A s \in Streams : pos[s] # -1 => s = prev
      BY <1>2, Types DEF DaemonInv, OneStream, Leaving
    <2>2. \A s \in Streams : pos'[s] = -1
      BY <1>1, <1>2, <2>1
    <2> QED BY <2>2 DEF Subscribes
  <1>4. PlaceOK'
    BY <1>1, <1>2, <1>3 DEF PlaceOK, Asked
  <1>5. EpochOK'
    BY <1>1, <1>2, <1>3 DEF EpochOK, Following, Leaving
  <1>6. OneStream'
    BY <1>1, <1>3 DEF OneStream
  <1>7. Answers'
    BY <1>1, <1>2, <1>3 DEF Answers, Leaving
  <1>8. stream \in Streams /\ pos'[stream] = -1
    BY <1>2, <1>3, Types DEF DaemonInv
  <1>9. NoHoles'
    BY <1>1, <1>8 DEF NoHoles
  <1>10. Told'
    BY <1>1, <1>2 DEF Told, ConsentOnItsWay
  <1>11. Fresh'
    BY <1>1, <1>8 DEF Fresh, Asking, RefusalOnItsWay
  <1> QED BY <1>1, <1>4, <1>5, <1>6, <1>7, <1>9, <1>10, <1>11

(* The answer goes out: it is the only one on its way, and the last frame. *)
LEMMA SendReplyKeepsCore ==
  ASSUME Core, SendReply, UNCHANGED timelineVars
  PROVE  Core'
  <1> USE UnchangedAll DEF Core
  <1> DEFINE f == Reply(rpc.stream)
             k == Len(wire) + 1
  <1>1. /\ DaemonInv' /\ Sends(wire, wire', f) /\ f.kind = "reply" /\ rpc.at = "due"
        /\ rpc' = [rpc EXCEPT !.at = "wired"] /\ f.stream = rpc.stream /\ link = "open"
        /\ UNCHANGED <<epoch, up, head, summary, pos, link, faults>>
    BY SendReplyKeepsDaemonInv DEF SendReply, Reply
  <1>2. /\ rpc'.at = "wired" /\ rpc'.op = rpc.op /\ rpc'.stream = rpc.stream
        /\ rpc'.from = rpc.from /\ rpc'.result = rpc.result /\ rpc'.boundary = rpc.boundary
    BY <1>1, Types DEF Calls, DaemonInv
  <1>3. pc \in Calling /\ stream # None
    BY <1>1 DEF PlaceOK, Asked, Calling, Following, Leaving
  <1>4. f.stream = IF pc = "uncall" THEN prev ELSE stream
    BY <1>1, <1>3 DEF PlaceOK, Calling
  <1> HIDE DEF f
  <1>5. wire \in Seq(Frames)
    BY Types DEF DaemonInv
  <1>6. /\ Len(wire) \in Nat /\ Len(wire') = k
        /\ \A i : PushAt(wire', i) <=> PushAt(wire, i)
        /\ \A i : ClosedAt(wire', i) <=> ClosedAt(wire, i)
        /\ \A i : ReplyAt(wire', i) <=> ReplyAt(wire, i) \/ i = k
        /\ \A i \in 1..Len(wire) : wire'[i] = wire[i] /\ i < k /\ i \in 1..Len(wire')
        /\ \A i \in 1..Len(wire') : i \in 1..Len(wire) \/ i = k
        /\ k \in 1..Len(wire') /\ wire'[k] = f
    BY <1>1, <1>5, SendsAt
  <1> HIDE DEF k
  <1>7. UNCHANGED <<Subscribes, Asked, Asking, RefusalOnItsWay, ConsentOnItsWay>>
    BY <1>1, <1>2 DEF Subscribes, Asked, Asking, RefusalOnItsWay, ConsentOnItsWay
  <1>8. PlaceOK'
    BY <1>1, <1>2, <1>3, <1>7 DEF PlaceOK, Calling
  <1>9. EpochOK'
    BY <1>1, <1>3, <1>7 DEF EpochOK, Following, Leaving, Calling
  <1>10. OneStream'
    <2>1. pc = "uncall" => prev # stream
      BY DEF PlaceOK
    <2>2. \A i \in 1..Len(wire') : wire'[i].stream = f.stream
                                  \/ (wire'[i].stream = wire[i].stream /\ i \in 1..Len(wire))
      BY <1>6
    <2> QED BY <1>1, <1>3, <1>4, <2>1, <2>2 DEF OneStream, Leaving, Calling
  <1>11. Answers'
    <2>1. pc \in {"pick"} \cup Leaving \/ (~cancelled /\ link # "broken") =>
             \A i : ~ReplyAt(wire, i)
      BY <1>1 DEF Answers, ReplyAt
    <2>2. pc = "uncall" => ~Subscribes /\ \A i : ~ReplyAt(wire, i)
      BY <1>1, <2>1 DEF Answers, Leaving
    <2> QED BY <1>1, <1>2, <1>6, <1>7, <2>1, <2>2 DEF Answers
  <1>12. NoHoles'
    <2>1. Continues(wire', stream, Had)
      BY <1>1, <1>5, SendsContinues DEF NoHoles
    <2>2. \A q : Reaches(q, wire, stream, Had) => Reaches(q, wire', stream, Had)
      BY <1>1, <1>5, SendsReaches
    <2> QED BY <1>1, <1>2, <1>7, <2>1, <2>2 DEF NoHoles
  <1>13. Told'
    <2>1. \A i \in 1..Len(wire) : ClosedAt(wire, i) =>
             i \in 1..Len(wire') /\ ClosedAt(wire', i) /\ wire'[i] = wire[i]
      BY <1>6
    <2> QED BY <1>1, <1>7, <2>1 DEF Told
  <1>14. Fresh'
    <2> SUFFICES ASSUME fellBack = "no", stream # None PROVE Fresh'
      BY DEF Fresh
    <2>1. KeepsPushes(wire, wire', stream)
      BY <1>1, <1>5, SendsKeepsPushes
    <2>2. \A i \in 1..Len(wire') : PushOf(wire', stream, i) =>
             i \in 1..Len(wire) /\ PushOf(wire, stream, i)
      BY <2>1 DEF KeepsPushes, PushOf, PushAt
    <2> QED BY <1>1, <1>2, <1>7, <2>1, <2>2, KeptNew DEF Fresh
  <1> QED BY <1>1, <1>8, <1>9, <1>10, <1>11, <1>12, <1>13, <1>14

LEMMA DaemonStepKeepsCore ==
  ASSUME Core, DaemonStep, UNCHANGED timelineVars
  PROVE  Core'
  BY EmitRestartKeepCore, CompactKeepsCore, CutKeepsCore, PushNextKeepsCore,
     CloseSubscriptionKeepsCore, RefuseKeepsCore, HandleSubscribeKeepsCore,
     HandleSecondSubscribeKeepsCore, HandleUnsubscribeKeepsCore, SendReplyKeepsCore
     DEF DaemonStep
-----------------------------------------------------------------------------
(* Run's steps *)

(* A new connection: nothing is on the wire, and resub is a new channel. *)
LEMMA DialKeepsCore ==
  ASSUME Core, Dial
  PROVE  Core'
  <1> USE DEF Core
  <1>1. /\ pc = "dial" /\ pc' = "open" /\ link = "none" /\ link' = "open" /\ resub' = FALSE
        /\ UNCHANGED <<epoch, up, head, summary, pos, wire, rpc, faults>>
        /\ UNCHANGED <<listed, over, wsEpoch, listing, prev, from, stream, tEpoch>>
        /\ UNCHANGED <<lastSeq, folded, selected, current, switch, cancelled>>
        /\ UNCHANGED <<selects, panel, fellBack>>
    BY DEF Dial, Goto, Connect, sessionVars, localVars, streamVars, historyVars
  <1>2. DaemonInv' /\ wire' = <<>> /\ \A s \in Streams : pos[s] = -1
    BY ConnectKeepsDaemonInv DEF Dial
  <1>3. ~Subscribes /\ Len(wire) = 0 /\ 1..Len(wire) = {}
    BY <1>1, <1>2, EmptySeq DEF Subscribes
  <1>4. UNCHANGED <<Subscribes, Asked, Asking, RefusalOnItsWay, ConsentOnItsWay, Had>>
    BY <1>1 DEF Subscribes, Asked, Asking, RefusalOnItsWay, ConsentOnItsWay, Had
  <1>5. ~Asked
    BY <1>1 DEF PlaceOK, Calling
  <1>6. TimelineTypeOK'
    BY <1>1 DEF TimelineTypeOK, Places
  <1>7. PlaceOK'
    BY <1>1, <1>2, <1>3, <1>4, <1>5 DEF PlaceOK, Offline, Calling, Following, Leaving
  <1>8. EpochOK'
    BY <1>1, <1>2, <1>3, <1>4 DEF EpochOK, Offline, Following, Leaving
  <1>9. OneStream' /\ Answers'
    BY <1>1, <1>2, <1>3, <1>4 DEF OneStream, Answers, Leaving, Subscribes
  <1>10. Shown'
    BY <1>1 DEF Shown
  <1>11. NoHoles'
    BY <1>1, <1>4 DEF NoHoles
  <1>12. Told'
    BY <1>1, <1>4, <1>5 DEF Told, ConsentOnItsWay, Asked
  <1>13. Fresh'
    BY <1>1, <1>4 DEF Fresh
  <1> QED BY <1>2, <1>6, <1>7, <1>8, <1>9, <1>10, <1>11, <1>12, <1>13

(* The connection's epoch is known: it is not before the timeline's. *)
LEMMA OpenKeepsCore ==
  ASSUME Core, Open
  PROVE  Core'
  <1> USE DEF Core
  <1>1. /\ pc = "open" /\ pc' = "list" /\ link = "open" /\ wsEpoch' = epoch
        /\ UNCHANGED <<epoch, up, head, summary, pos, link, wire, rpc, faults>>
        /\ UNCHANGED <<listed, over, listing, prev, from, stream, tEpoch>>
        /\ UNCHANGED <<lastSeq, folded, selected, current, switch, resub, cancelled>>
        /\ UNCHANGED <<selects, panel, fellBack>>
    BY DEF Open, Goto, daemonVars, sessionVars, streamVars, signalVars, historyVars
  <1>2. wire = <<>> /\ ~Subscribes /\ Len(wire) = 0 /\ ~Asked
    BY <1>1, EmptySeq DEF PlaceOK, Calling
  <1>3. UNCHANGED <<Subscribes, Asked, Asking, RefusalOnItsWay, ConsentOnItsWay, Had>>
    BY <1>1 DEF Subscribes, Asked, Asking, RefusalOnItsWay, ConsentOnItsWay, Had
  <1>4. DaemonInv'
    BY <1>1 DEF DaemonInv, DaemonTypeOK, SummaryOK, LinkOK, RpcOK
  <1>5. epoch \in 1..MaxEpoch /\ epoch \in Nat /\ wsEpoch \in Nat /\ tEpoch \in Nat
    BY Types DEF DaemonInv, DaemonTypeOK
  <1>6. epoch \in 0..MaxEpoch /\ epoch # 0 /\ tEpoch <= epoch
    BY <1>5, DaemonAssumption DEF EpochOK
  <1>7. TimelineTypeOK'
    BY <1>1, <1>6 DEF TimelineTypeOK, Places
  <1>8. PlaceOK'
    BY <1>1, <1>2, <1>3 DEF PlaceOK, Offline, Calling, Following, Leaving
  <1>9. EpochOK'
    BY <1>1, <1>2, <1>3, <1>5, <1>6 DEF EpochOK, Offline, Following, Leaving
  <1>10. OneStream' /\ Answers'
    BY <1>1, <1>2, <1>3 DEF OneStream, Answers, Leaving, Subscribes
  <1>11. Shown' /\ NoHoles'
    BY <1>1, <1>3 DEF Shown, NoHoles
  <1>12. Told'
    BY <1>1, <1>2, <1>3 DEF Told, ConsentOnItsWay, Asked
  <1>13. Fresh'
    BY <1>1, <1>3 DEF Fresh
  <1> QED BY <1>4, <1>7, <1>8, <1>9, <1>10, <1>11, <1>12, <1>13

(* Another stream, or another epoch of the stream: whatever is subscribed  *)
(* or on its way is of the stream that was followed.                       *)
LEMMA PickKeepsCore ==
  ASSUME Core, Pick
  PROVE  Core'
  <1> USE DEF Core
  <1>1. PICK s \in Choices :
           /\ prev' = stream /\ current' = s
           /\ IF s = stream /\ wsEpoch = tEpoch
              THEN pc' = "subscribe" /\ UNCHANGED <<streamVars, fellBack>>
              ELSE /\ pc' = "clear" /\ stream' = s /\ tEpoch' = wsEpoch
                   /\ lastSeq' = 0 /\ folded' = {} /\ fellBack' = "no"
    BY DEF Pick
  <1>2. /\ pc = "pick"
        /\ UNCHANGED <<epoch, up, head, summary, pos, link, wire, rpc, faults>>
        /\ UNCHANGED <<listed, over, wsEpoch, listing, from, selected, switch, resub>>
        /\ UNCHANGED <<cancelled, selects, panel>>
    BY DEF Pick, daemonVars, sessionVars, signalVars
  <1>3. s \in Streams /\ s \in Session /\ s # None
    BY TimelineAssumption DEF Choices, TimelineTypeOK, Session
  <1>4. stream \in Session /\ {prev', current'} \subseteq Session /\ {selected, current} \subseteq Session
    BY <1>1, <1>3 DEF TimelineTypeOK
  <1>5. CASE s = stream /\ wsEpoch = tEpoch
    <2>1. /\ pc' = "subscribe" /\ UNCHANGED <<stream, tEpoch, lastSeq, folded, fellBack>>
      BY <1>1, <1>5 DEF streamVars
    <2>2. TimelineTypeOK'
      BY <1>2, <1>4, <2>1 DEF TimelineTypeOK, Places
    <2> QED BY <1>2, <1>3, <1>5, <2>1, <2>2, MoveKeepsCore
  <1>6. CASE ~(s = stream /\ wsEpoch = tEpoch)
    <2>1. /\ pc' = "clear" /\ stream' = s /\ tEpoch' = wsEpoch /\ prev' = stream
          /\ lastSeq' = 0 /\ folded' = {} /\ fellBack' = "no"
      BY <1>1, <1>6
    <2>2. 0 \in 0..MaxSeq
      BY DaemonAssumption
    <2>3. TimelineTypeOK'
      BY <1>2, <1>3, <1>4, <2>1, <2>2 DEF TimelineTypeOK, Places
    <2>4. rpc.at = "idle" /\ rpc' = rpc
      BY <1>2 DEF PlaceOK, Calling, Asked
    <2>5. /\ \A t \in Streams : pos[t] # -1 => t = stream /\ t # s
          /\ \A i \in 1..Len(wire) : wire[i].stream = stream /\ wire[i].stream # s
      <3>1. /\ \A t \in Streams : pos[t] # -1 => t = stream
            /\ \A i \in 1..Len(wire) : wire[i].stream = stream
        BY <1>2 DEF OneStream, Leaving
      <3>2. CASE s # stream
        BY <3>1, <3>2
      <3>3. CASE wsEpoch # tEpoch
        <4>1. wire = <<>> /\ ~Subscribes
          BY <3>3 DEF EpochOK
        <4> QED BY <4>1, EmptySeq DEF Subscribes
      <3> QED BY <1>6, <3>2, <3>3
    <2>6. pos[s] = -1 /\ \A i : ~PushOf(wire, s, i)
      BY <1>3, <2>5 DEF PushOf, PushAt
    <2>7. Had' = {} /\ 1..0 = {}
      BY <2>1 DEF Had
    <2>8. Subscribes' = Subscribes
      BY <1>2 DEF Subscribes
    <2>9. DaemonInv'
      BY <1>2 DEF DaemonInv, DaemonTypeOK, SummaryOK, LinkOK, RpcOK
    <2>10. PlaceOK'
      BY <1>2, <1>3, <2>1, <2>4 DEF PlaceOK, Offline, Calling, Following, Leaving, Asked
    <2>11. EpochOK'
      <3>1. wsEpoch # 0 /\ wsEpoch <= epoch /\ wsEpoch \in Nat
        BY <1>2, Types DEF EpochOK, Offline, DaemonInv
      <3> QED BY <1>2, <2>1, <2>8, <3>1 DEF EpochOK, Offline
    <2>12. OneStream'
      BY <1>2, <2>1, <2>5 DEF OneStream, Leaving
    <2>13. Answers'
      BY <1>2, <2>1, <2>4 DEF Answers, Leaving
    <2>14. Shown'
      BY <1>2, <2>1 DEF Shown
    <2>15. NoHoles'
      <3>1. Continues(wire, s, {})
        BY <2>5 DEF Continues
      <3> QED BY <1>2, <2>1, <2>4, <2>6, <2>7, <3>1 DEF NoHoles, Asked
    <2>16. Told'
      BY <1>2, <2>1, <2>4 DEF Told, ConsentOnItsWay
    <2>17. Fresh'
      <3>1. AllNew(wire, s, {})
        BY <2>6 DEF AllNew
      <3> QED BY <1>2, <2>1, <2>4, <2>6, <2>7, <3>1 DEF Fresh, Asking, RefusalOnItsWay
    <2> QED BY <2>3, <2>9, <2>10, <2>11, <2>12, <2>13, <2>14, <2>15, <2>16, <2>17
  <1> QED BY <1>5, <1>6

(* The browser's timeline is cleared.  If the stream is the old one, or    *)
(* there was none, nothing of another one is left.                         *)
LEMMA ClearKeepsCore ==
  ASSUME Core, Clear
  PROVE  Core'
  <1> USE DEF Core
  <1>1. /\ pc = "clear" /\ panel' = {}
        /\ pc' = IF prev \notin {None, stream} THEN "unsubscribe" ELSE "subscribe"
        /\ UNCHANGED <<epoch, up, head, summary, pos, link, wire, rpc, faults>>
        /\ UNCHANGED <<listed, over, wsEpoch, listing, prev, from, stream, tEpoch>>
        /\ UNCHANGED <<lastSeq, folded, selected, current, switch, resub, cancelled>>
        /\ UNCHANGED <<selects, fellBack>>
    BY DEF Clear, daemonVars, sessionVars, localVars, streamVars, signalVars
  <1>2. UNCHANGED <<Subscribes, Asked, Asking, RefusalOnItsWay, ConsentOnItsWay, Had>>
    BY <1>1 DEF Subscribes, Asked, Asking, RefusalOnItsWay, ConsentOnItsWay, Had
  <1>3. ~Asked
    BY <1>1 DEF PlaceOK, Calling
  <1>4. DaemonInv'
    BY <1>1 DEF DaemonInv, DaemonTypeOK, SummaryOK, LinkOK, RpcOK
  <1>5. TimelineTypeOK'
    BY <1>1 DEF TimelineTypeOK, Places
  <1>6. /\ \A s \in Streams : pos[s] # -1 => s = prev /\ s # stream
        /\ \A i \in 1..Len(wire) : wire[i].stream = prev /\ wire[i].stream # stream
    BY <1>1 DEF OneStream, Leaving
  <1>7. \A i \in 1..Len(wire) : wire[i].stream \in Streams
    <2>1. wire \in Seq(Frames)
      BY Types DEF DaemonInv
    <2>2. \A i \in 1..Len(wire) : wire[i] \in Frames
      BY <2>1, ElementOfSeq
    <2> QED BY <2>2 DEF Frames
  <1>8. PlaceOK'
    <2>1. prev \in Session
      BY DEF TimelineTypeOK
    <2> QED BY <1>1, <1>2, <1>3, <2>1 DEF PlaceOK, Offline, Calling, Following, Leaving, Session
  <1>9. EpochOK'
    BY <1>1, <1>2 DEF EpochOK, Offline, Following, Leaving
  <1>10. OneStream'
    <2>1. CASE prev \notin {None, stream}
      BY <1>1, <1>6, <2>1 DEF OneStream, Leaving
    <2>2. CASE prev \in {None, stream}
      BY <1>1, <1>6, <1>7, <2>2, TimelineAssumption DEF OneStream, Leaving
    <2> QED BY <2>1, <2>2
  <1>11. Answers'
    BY <1>1, <1>2, <1>3 DEF Answers, Leaving
  <1>12. Shown'
    BY <1>1 DEF Shown
  <1>13. NoHoles'
    BY <1>1, <1>2 DEF NoHoles
  <1>14. Told'
    BY <1>1, <1>2, <1>3 DEF Told, ConsentOnItsWay, Asked
  <1>15. Fresh'
    BY <1>1, <1>2 DEF Fresh
  <1> QED BY <1>4, <1>5, <1>8, <1>9, <1>10, <1>11, <1>12, <1>13, <1>14, <1>15

LEMMA UnsubscribeKeepsCore ==
  ASSUME Core, Unsubscribe
  PROVE  Core'
  <1> USE DEF Core
  <1>1. /\ pc = "unsubscribe" /\ pc' = "uncall" /\ Request("unsubscribe", prev, 0)
        /\ UNCHANGED <<epoch, up, head, summary, pos, link, wire, faults>>
        /\ UNCHANGED <<listed, over, wsEpoch, listing, prev, from, stream, tEpoch>>
        /\ UNCHANGED <<lastSeq, folded, selected, current, switch, resub, cancelled>>
        /\ UNCHANGED <<selects, panel, fellBack>>
    BY DEF Unsubscribe, Goto, OnlyRpc, sessionVars, localVars, streamVars, signalVars,
           historyVars
  <1>2. prev \in Streams /\ 0 \in 0..MaxSeq /\ prev # stream
    BY <1>1, DaemonAssumption DEF PlaceOK
  <1>3. DaemonInv'
    BY <1>1, <1>2, CallerKeepsDaemonInv
  <1>4. rpc'.at = "sent" /\ rpc'.op = "unsubscribe" /\ rpc'.stream = prev
    BY <1>1 DEF Request, Idle
  <1>5. ~Asked /\ Asked' /\ ~Asking' /\ ~RefusalOnItsWay' /\ ~ConsentOnItsWay'
    BY <1>1, <1>4 DEF PlaceOK, Calling, Asked, Asking, RefusalOnItsWay, ConsentOnItsWay
  <1>6. UNCHANGED <<Subscribes, Had>>
    BY <1>1 DEF Subscribes, Had
  <1>7. TimelineTypeOK'
    BY <1>1 DEF TimelineTypeOK, Places
  <1>8. PlaceOK'
    BY <1>1, <1>2, <1>4, <1>5 DEF PlaceOK, Offline, Calling, Following, Leaving
  <1>9. EpochOK'
    BY <1>1, <1>6 DEF EpochOK, Offline, Following, Leaving
  <1>10. OneStream'
    BY <1>1 DEF OneStream, Leaving
  <1>11. Answers'
    BY <1>1, <1>4, <1>5 DEF Answers, Leaving, Asked
  <1>12. Shown'
    BY <1>1 DEF Shown
  <1>13. NoHoles'
    BY <1>1, <1>4, <1>6 DEF NoHoles
  <1>14. Told'
    BY <1>1, <1>5 DEF Told
  <1>15. Fresh'
    BY <1>1, <1>5, <1>6 DEF Fresh
  <1> QED BY <1>3, <1>7, <1>8, <1>9, <1>10, <1>11, <1>12, <1>13, <1>14, <1>15

(* A subscribe from event number n, which becomes the cursor. *)
LEMMA AskKeepsCore ==
  ASSUME Core, NEW n \in 0..MaxSeq, TimelineTypeOK',
         pc \in {"subscribe", "call"}, pc' \in {"call", "retry"},
         Request("subscribe", stream, n), lastSeq' = n,
         UNCHANGED <<epoch, up, head, summary, pos, link, wire, faults>>,
         UNCHANGED <<wsEpoch, prev, stream, tEpoch, folded, resub, cancelled, panel>>,
         1..n \subseteq Had,
         rpc.at # "wired" \/ cancelled \/ link = "broken",
         fellBack' = "no" =>
            /\ fellBack = "no" /\ pos[stream] = -1
            /\ \A i \in 1..Len(wire) : ~PushOf(wire, stream, i)
            /\ tEpoch = epoch => \A m \in Had : Ahead(m, n, summary[stream])
  PROVE  Core'
  <1> USE DEF Core
  <1>1. stream # None /\ stream \in Streams
    BY Types DEF PlaceOK, Following, DaemonInv
  <1>2. DaemonInv'
    BY <1>1, CallerKeepsDaemonInv
  <1>3. rpc'.at = "sent" /\ rpc'.op = "subscribe" /\ rpc'.stream = stream /\ rpc'.from = n
    BY DEF Request, Idle
  <1>4. Asked' /\ ~RefusalOnItsWay' /\ ~ConsentOnItsWay' /\ UNCHANGED <<Subscribes, Had>>
    BY <1>3 DEF Asked, RefusalOnItsWay, ConsentOnItsWay, Subscribes, Had
  <1>5. PlaceOK'
    BY <1>3, <1>4 DEF PlaceOK, Offline, Calling, Following, Leaving
  <1>6. EpochOK'
    BY <1>4 DEF EpochOK, Offline, Following, Leaving
  <1>7. OneStream'
    BY DEF OneStream, Leaving
  <1>8. Answers'
    BY DEF Answers, Leaving
  <1>9. Shown'
    BY DEF Shown
  <1>10. NoHoles'
    BY <1>3, <1>4 DEF NoHoles
  <1>11. Told'
    BY <1>4 DEF Told
  <1>12. Fresh'
    BY <1>1, <1>3, <1>4 DEF Fresh
  <1> QED BY <1>2, <1>5, <1>6, <1>7, <1>8, <1>9, <1>10, <1>11, <1>12

LEMMA SubscribeKeepsCore ==
  ASSUME Core, Subscribe
  PROVE  Core'
  <1> USE DEF Core
  <1>1. /\ pc = "subscribe" /\ pc' = "call" /\ Request("subscribe", stream, lastSeq)
        /\ from' = lastSeq
        /\ fellBack' = IF Overlaps /\ fellBack = "no" THEN "overlap" ELSE fellBack
        /\ UNCHANGED <<epoch, up, head, summary, pos, link, wire, faults>>
        /\ UNCHANGED <<listed, over, wsEpoch, listing, prev, stream, tEpoch>>
        /\ UNCHANGED <<lastSeq, folded, selected, current, switch, resub, cancelled>>
        /\ UNCHANGED <<selects, panel>>
    BY DEF Subscribe, Goto, OnlyRpc, sessionVars, streamVars, signalVars
  <1>2. TimelineTypeOK'
    BY <1>1 DEF TimelineTypeOK, Places
  <1>3. rpc.at # "wired" /\ stream # None
    BY <1>1 DEF PlaceOK, Calling, Asked, Following, Leaving
  <1>4. wire \in Seq(Frames) /\ lastSeq \in 0..MaxSeq
    BY Types DEF DaemonInv
  <1>5. ~Overlaps => pos[stream] = -1 /\ \A i \in 1..Len(wire) : ~PushOf(wire, stream, i)
    <2>1. DOMAIN wire = 1..Len(wire)
      BY <1>4, LenProperties
    <2> QED BY <2>1 DEF Overlaps, PushOf, PushAt
  <1>6. fellBack' = "no" => fellBack = "no" /\ ~Overlaps
    BY <1>1
  <1>7. fellBack = "no" => (tEpoch = epoch => \A m \in Had : Ahead(m, lastSeq, summary[stream]))
    BY <1>3 DEF Fresh
  <1>8. 1..lastSeq \subseteq Had
    BY DEF NoHoles
  <1> QED BY <1>1, <1>2, <1>3, <1>4, <1>5, <1>6, <1>7, <1>8, AskKeepsCore

(* The boundary is before the cursor that was refused. *)
LEMMA RetryAtBoundaryKeepsCore ==
  ASSUME Core, RetryAtBoundary
  PROVE  Core'
  <1> USE DEF Core
  <1>1. /\ pc = "call" /\ pc' = "retry" /\ Request("subscribe", stream, rpc.boundary)
        /\ lastSeq' = rpc.boundary /\ rpc.at = "answered" /\ rpc.result = "compacted"
        /\ UNCHANGED <<epoch, up, head, summary, pos, link, wire, faults>>
        /\ UNCHANGED <<listed, over, wsEpoch, listing, prev, from, stream, tEpoch>>
        /\ UNCHANGED <<folded, selected, current, switch, resub, cancelled>>
        /\ UNCHANGED <<selects, panel, fellBack>>
    BY DEF RetryAtBoundary, Retry, Refused, Goto, OnlyRpc, sessionVars, localVars, signalVars
  <1>2. rpc.boundary \in 0..MaxSeq /\ rpc.boundary \in Nat /\ rpc.from \in Nat
    BY Types DEF DaemonInv
  <1>3. TimelineTypeOK'
    BY <1>1, <1>2 DEF TimelineTypeOK, Places
  <1>4. rpc.op = "subscribe" /\ stream # None /\ Asked /\ RefusalOnItsWay
    BY <1>1 DEF PlaceOK, Calling, Asked, Following, Leaving, RefusalOnItsWay
  <1>5. 1..rpc.boundary \subseteq Had
    <2>1. rpc.boundary < rpc.from
      BY <1>1 DEF DaemonInv, RpcOK
    <2>2. 1..rpc.boundary \subseteq 1..rpc.from
      BY <1>2, <2>1
    <2> QED BY <1>4, <2>2 DEF NoHoles
  <1>6. fellBack = "no" =>
           /\ pos[stream] = -1
           /\ \A i \in 1..Len(wire) : ~PushOf(wire, stream, i)
           /\ tEpoch = epoch => \A m \in Had : Ahead(m, rpc.boundary, summary[stream])
    BY <1>1, <1>4 DEF Fresh
  <1> QED BY <1>1, <1>2, <1>3, <1>5, <1>6, AskKeepsCore

(* The call was refused for another reason, or given up. *)
LEMMA RetryFromStartKeepsCore ==
  ASSUME Core, RetryFromStart
  PROVE  Core'
  <1> USE DEF Core
  <1>1. /\ pc = "call" /\ pc' = "retry" /\ Request("subscribe", stream, 0)
        /\ lastSeq' = 0 /\ fellBack' \in {"refused", "broken"}
        /\ rpc.at = "answered" \/ cancelled \/ link = "broken"
        /\ UNCHANGED <<epoch, up, head, summary, pos, link, wire, faults>>
        /\ UNCHANGED <<listed, over, wsEpoch, listing, prev, from, stream, tEpoch>>
        /\ UNCHANGED <<folded, selected, current, switch, resub, cancelled>>
        /\ UNCHANGED <<selects, panel>>
    BY DEF RetryFromStart, Retry, Refused, CallFails, CallBroken, Goto, OnlyRpc,
           sessionVars, localVars, signalVars
  <1>2. 0 \in 0..MaxSeq /\ 1..0 \subseteq Had
    BY DaemonAssumption
  <1>3. TimelineTypeOK'
    BY <1>1, <1>2 DEF TimelineTypeOK, Places
  <1> QED BY <1>1, <1>2, <1>3, AskKeepsCore

(* A call comes to its end.  When the old stream is unsubscribed, nothing  *)
(* of it is left.                                                          *)
LEMMA CallEndsKeepsCore ==
  ASSUME Core, TimelineTypeOK', pc \in Calling, rpc' = Idle,
         UNCHANGED <<epoch, up, head, summary, pos, link, wire, faults>>,
         UNCHANGED <<wsEpoch, prev, stream, tEpoch, lastSeq, folded, resub, cancelled>>,
         UNCHANGED <<panel, fellBack>>,
         \/ /\ pc' = "close"
            /\ rpc.at = "answered" \/ cancelled \/ link = "broken"
         \/ pc = "uncall" /\ pc' = "subscribe" /\ Succeeded
         \/ pc # "uncall" /\ pc' = "serve" /\ Succeeded
  PROVE  Core'
  <1> USE DEF Core, Succeeded
  <1>1. DaemonInv'
    BY CallerKeepsDaemonInv
  <1>2. rpc'.at = "idle" /\ rpc'.op = "none"
    BY DEF Idle
  <1>3. ~Asked' /\ ~Asking' /\ ~RefusalOnItsWay' /\ ~ConsentOnItsWay' /\ UNCHANGED <<Subscribes, Had>>
    BY <1>2 DEF Asked, Asking, RefusalOnItsWay, ConsentOnItsWay, Subscribes, Had
  <1>4. pc = "uncall" /\ Succeeded => wire = <<>> /\ ~Subscribes /\ 1..Len(wire) = {}
    BY EmptySeq DEF Answers
  <1>5. PlaceOK'
    BY <1>3 DEF PlaceOK, Offline, Calling, Following, Leaving
  <1>6. EpochOK'
    BY <1>3 DEF EpochOK, Offline, Calling, Following, Leaving
  <1>7. OneStream'
    <2>1. CASE pc' = "close"
      BY <2>1 DEF OneStream, Leaving
    <2>2. CASE pc = "uncall" /\ pc' = "subscribe" /\ Succeeded
      BY <1>4, <2>2 DEF OneStream, Leaving, Subscribes
    <2>3. CASE pc # "uncall" /\ pc' = "serve"
      BY <2>3 DEF OneStream, Leaving, Calling
    <2> QED BY <2>1, <2>2, <2>3
  <1>8. Answers'
    BY DEF Answers, Leaving
  <1>9. Shown'
    BY DEF Shown, Calling
  <1>10. NoHoles'
    BY <1>3 DEF NoHoles
  <1>11. Told'
    <2>1. pc' = "serve" => ConsentOnItsWay
      BY DEF PlaceOK, Calling, ConsentOnItsWay
    <2> QED BY <1>3, <2>1 DEF Told
  <1>12. Fresh'
    BY <1>3 DEF Fresh
  <1> QED BY <1>1, <1>5, <1>6, <1>7, <1>8, <1>9, <1>10, <1>11, <1>12

LEMMA CallsEndKeepCore ==
  ASSUME Core, Unsubscribed \/ Subscribed \/ CallReturnsError
  PROVE  Core'
  <1> USE DEF Core, Goto, OnlyRpc, sessionVars, localVars, streamVars, signalVars, historyVars
  <1>1. CASE Unsubscribed
    <2>1. TimelineTypeOK' /\ pc \in Calling
      BY <1>1 DEF TimelineTypeOK, Places, Unsubscribed, Calling
    <2> QED BY <1>1, <2>1, CallEndsKeepsCore DEF Unsubscribed
  <1>2. CASE Subscribed
    <2>1. TimelineTypeOK' /\ pc \in Calling
      BY <1>2 DEF TimelineTypeOK, Places, Subscribed, Calling
    <2> QED BY <1>2, <2>1, CallEndsKeepsCore DEF Subscribed
  <1>3. CASE CallReturnsError
    <2>1. TimelineTypeOK' /\ pc \in Calling
      BY <1>3 DEF TimelineTypeOK, Places, CallReturnsError, Calling
    <2>2. rpc.at = "answered" \/ cancelled \/ link = "broken"
      BY <1>3 DEF CallReturnsError, Refused, CallFails, CallBroken
    <2> QED BY <1>3, <2>1, <2>2, CallEndsKeepsCore DEF CallReturnsError
  <1> QED BY <1>1, <1>2, <1>3

(* The connection is closed: nothing of it is left. *)
LEMMA CloseKeepsCore ==
  ASSUME Core, Close
  PROVE  Core'
  <1> USE DEF Core
  <1>1. /\ pc = "close" /\ pc' = "backoff" /\ Disconnect
        /\ UNCHANGED <<listed, over, wsEpoch, listing, prev, from, stream, tEpoch>>
        /\ UNCHANGED <<lastSeq, folded, selected, current, switch, resub, cancelled>>
        /\ UNCHANGED <<selects, panel, fellBack>>
    BY DEF Close, Goto, sessionVars, localVars, streamVars, signalVars, historyVars
  <1>2. DaemonInv'
    BY <1>1, DisconnectKeepsDaemonInv, TimelineAssumption
  <1>3. /\ link' = "none" /\ wire' = <<>> /\ rpc'.at = "idle" /\ rpc'.op = "none"
        /\ \A s \in Streams : pos'[s] = -1
        /\ UNCHANGED <<epoch, summary>>
    BY <1>1 DEF Disconnect, Idle
  <1>4. ~Subscribes' /\ Len(wire') = 0 /\ 1..Len(wire') = {}
    BY <1>3, EmptySeq DEF Subscribes
  <1>5. ~Asked' /\ ~Asking' /\ ~RefusalOnItsWay' /\ ~ConsentOnItsWay' /\ UNCHANGED Had
    BY <1>1, <1>3 DEF Asked, Asking, RefusalOnItsWay, ConsentOnItsWay, Had
  <1>6. stream # None => stream \in Streams
    BY Types DEF DaemonInv
  <1>7. TimelineTypeOK'
    BY <1>1 DEF TimelineTypeOK, Places
  <1>8. PlaceOK'
    BY <1>1, <1>3, <1>4, <1>5 DEF PlaceOK, Offline, Calling, Following, Leaving
  <1>9. EpochOK'
    BY <1>1, <1>3, <1>4 DEF EpochOK, Offline, Following, Leaving
  <1>10. OneStream' /\ Answers'
    BY <1>1, <1>3, <1>4 DEF OneStream, Answers, Leaving
  <1>11. Shown'
    BY <1>1 DEF Shown
  <1>12. NoHoles'
    BY <1>1, <1>3, <1>5, <1>6, EmptyContinues DEF NoHoles
  <1>13. Told'
    BY <1>3 DEF Told
  <1>14. Fresh'
    <2>1. AllNew(wire', stream, Had)
      BY <1>4 DEF AllNew
    <2> QED BY <1>1, <1>3, <1>5, <1>6, <2>1 DEF Fresh
  <1> QED BY <1>2, <1>7, <1>8, <1>9, <1>10, <1>11, <1>12, <1>13, <1>14

LEMMA RunKeepsCore ==
  ASSUME Core, Run
  PROVE  Core'
  BY MovesKeepCore, DialKeepsCore, OpenKeepsCore, PickKeepsCore, ClearKeepsCore,
     UnsubscribeKeepsCore, SubscribeKeepsCore, RetryAtBoundaryKeepsCore,
     RetryFromStartKeepsCore, CallsEndKeepCore, CloseKeepsCore DEF Run
-----------------------------------------------------------------------------
(* The read goroutine's steps *)

(* What every frame that is read leaves as it was: of a subscription that  *)
(* ended there is still the notice or the token.                           *)
LEMMA ReadKeepsPlace ==
  ASSUME Core, Reads(wire, wire'), link # "none",
         UNCHANGED <<epoch, up, head, summary, pos, link, faults>>,
         UNCHANGED <<pc, wsEpoch, prev, stream, tEpoch, cancelled, fellBack>>,
         rpc' = rpc \/ (rpc.at = "wired" /\ rpc' = [rpc EXCEPT !.at = "answered"]),
         resub => resub',
         ClosedAt(wire, 1) /\ wire[1].stream = stream => resub'
  PROVE  /\ PlaceOK' /\ EpochOK' /\ OneStream' /\ Told'
         /\ UNCHANGED <<Asked, Asking, RefusalOnItsWay, ConsentOnItsWay, Subscribes>>
         /\ rpc'.op = rpc.op /\ rpc'.stream = rpc.stream
         /\ rpc'.from = rpc.from /\ rpc'.result = rpc.result /\ rpc'.boundary = rpc.boundary
         /\ wire # <<>>
  <1> USE DEF Core
  <1>1. wire \in Seq(Frames) /\ rpc \in Calls
    BY Types DEF DaemonInv
  <1>2. /\ Len(wire) \in Nat /\ Len(wire') \in Nat /\ Len(wire) = Len(wire') + 1
        /\ \A i \in 1..Len(wire') :
              /\ i + 1 \in 1..Len(wire) /\ wire'[i] = wire[i + 1]
              /\ ClosedAt(wire', i) <=> ClosedAt(wire, i + 1)
        /\ \A j \in 1..Len(wire) : j = 1 \/ (j - 1 \in 1..Len(wire') /\ (j - 1) + 1 = j)
    BY <1>1, ReadsAt
  <1>3. wire # <<>>
    BY <1>1, <1>2, EmptySeq
  <1>4. /\ rpc'.op = rpc.op /\ rpc'.stream = rpc.stream
        /\ rpc'.from = rpc.from /\ rpc'.result = rpc.result /\ rpc'.boundary = rpc.boundary
        /\ rpc'.at = rpc.at \/ (rpc.at = "wired" /\ rpc'.at = "answered")
    BY <1>1 DEF Calls
  <1>5. UNCHANGED <<Asked, Asking, RefusalOnItsWay, ConsentOnItsWay, Subscribes>>
    BY <1>4 DEF Asked, Asking, RefusalOnItsWay, ConsentOnItsWay, Subscribes
  <1>6. PlaceOK'
    BY <1>3, <1>4, <1>5 DEF PlaceOK
  <1>7. EpochOK'
    BY <1>3, <1>5 DEF EpochOK
  <1>8. OneStream'
    BY <1>2 DEF OneStream
  <1>9. Told'
    <2> SUFFICES ASSUME link = "open", pc = "serve" \/ ConsentOnItsWay PROVE Told'
      BY <1>5 DEF Told
    <2>1. CASE pos[stream] # -1 \/ resub
      BY <2>1 DEF Told
    <2>2. CASE \E i \in 1..Len(wire) : ClosedAt(wire, i) /\ wire[i].stream = stream
      <3>1. PICK i \in 1..Len(wire) : ClosedAt(wire, i) /\ wire[i].stream = stream
        BY <2>2
      <3>2. CASE i = 1
        BY <3>1, <3>2 DEF Told
      <3>3. CASE i # 1
        <4>1. /\ i - 1 \in 1..Len(wire') /\ ClosedAt(wire', i - 1)
              /\ wire'[i - 1].stream = stream
          BY <1>2, <3>1, <3>3
        <4> QED BY <4>1 DEF Told
      <3> QED BY <3>2, <3>3
    <2> QED BY <2>1, <2>2 DEF Told
  <1> QED BY <1>3, <1>4, <1>5, <1>6, <1>7, <1>8, <1>9

(* A frame that is no reply does not touch the call. *)
LEMMA ReadKeepsAnswers ==
  ASSUME Core, Reads(wire, wire'), ~ReplyAt(wire, 1),
         UNCHANGED <<pos, link, rpc, pc, cancelled>>
  PROVE  Answers'
  <1> USE DEF Core
  <1>1. wire \in Seq(Frames)
    BY Types DEF DaemonInv
  <1>2. /\ Len(wire) \in Nat /\ Len(wire') \in Nat /\ Len(wire) = Len(wire') + 1
        /\ \A i \in 1..Len(wire') :
              /\ i + 1 \in 1..Len(wire)
              /\ ReplyAt(wire', i) <=> ReplyAt(wire, i + 1)
    BY <1>1, ReadsAt
  <1>3. wire # <<>>
    BY <1>1, <1>2, EmptySeq
  <1>4. \A i, j \in 1..Len(wire') : i + 1 = j + 1 => i = j
    BY <1>2
  <1>5. \A i \in 1..Len(wire') : i + 1 = Len(wire) => i = Len(wire')
    BY <1>2
  <1>6. pc \in {"pick"} \cup Leaving \/ (~cancelled /\ link # "broken") =>
          \A i \in 1..Len(wire') : ReplyAt(wire', i) =>
              rpc.at = "wired" /\ \A j \in 1..Len(wire') : ReplyAt(wire', j) => j = i
    BY <1>2, <1>4 DEF Answers
  <1>7. pc = "uncall" /\ rpc.at = "wired" =>
          \A i \in 1..Len(wire') : ReplyAt(wire', i) => i = Len(wire')
    BY <1>2, <1>5 DEF Answers
  <1>8. Subscribes' = Subscribes
    BY DEF Subscribes
  <1> QED BY <1>3, <1>6, <1>7, <1>8 DEF Answers

(* A frame that brings nothing of the followed stream. *)
LEMMA ReadKeepsData ==
  ASSUME Core, Reads(wire, wire'), link # "none",
         UNCHANGED <<epoch, up, head, summary, pos, link, faults>>,
         UNCHANGED <<pc, wsEpoch, prev, stream, tEpoch, cancelled, fellBack>>,
         UNCHANGED <<lastSeq, folded>>,
         rpc' = rpc \/ (rpc.at = "wired" /\ rpc' = [rpc EXCEPT !.at = "answered"]),
         resub => resub',
         ClosedAt(wire, 1) /\ wire[1].stream = stream => resub',
         wire[1].kind = "push" => wire[1].stream # stream
  PROVE  PlaceOK' /\ EpochOK' /\ OneStream' /\ Told' /\ NoHoles' /\ Fresh'
  <1> USE DEF Core
  <1>1. /\ PlaceOK' /\ EpochOK' /\ OneStream' /\ Told'
        /\ UNCHANGED <<Asked, Asking, RefusalOnItsWay, ConsentOnItsWay, Subscribes>>
        /\ rpc'.op = rpc.op /\ rpc'.stream = rpc.stream
        /\ rpc'.from = rpc.from /\ rpc'.result = rpc.result /\ rpc'.boundary = rpc.boundary
    BY ReadKeepsPlace
  <1>2. wire \in Seq(Frames) /\ Had \in SUBSET Nat /\ Had' = Had
        /\ (stream # None => pos[stream] \in Int /\ summary[stream] \in Ranges)
    BY Types DEF DaemonInv, Had
  <1>3. \A n \in Int : ~Covers(wire[1], stream, n)
    BY DEF Covers
  <1>4. NoHoles'
    <2>1. Continues(wire', stream, Had)
      BY <1>2, <1>3, ReadsContinues DEF NoHoles
    <2>2. \A q : Reaches(q, wire, stream, Had) => Reaches(q, wire', stream, Had)
      BY <1>2, <1>3, ReadsReaches
    <2> QED BY <1>1, <1>2, <2>1, <2>2 DEF NoHoles
  <1>5. Fresh'
    <2> SUFFICES ASSUME fellBack = "no", stream # None PROVE Fresh'
      BY DEF Fresh
    <2>1. AllNew(wire, stream, Had)
      BY DEF Fresh
    <2>2. /\ AllNew(wire', stream, Had)
          /\ StaysNew(wire, stream, Had, pos[stream], summary[stream]) =>
                StaysNew(wire', stream, Had, pos[stream], summary[stream])
      BY <1>2, <2>1, ReadNew
    <2>3. \A i \in 1..Len(wire') : PushOf(wire', stream, i) =>
             i + 1 \in 1..Len(wire) /\ PushOf(wire, stream, i + 1)
      BY <1>2, ReadsAt DEF PushOf
    <2> QED BY <1>1, <1>2, <2>2, <2>3 DEF Fresh
  <1> QED BY <1>1, <1>4, <1>5

(* An event of the stream: the timeline has it and all before it. *)
LEMMA OwnPushKeepsCore ==
  ASSUME Core, OnPush, Head(wire).stream = stream
  PROVE  Core'
  <1> USE DEF Core
  <1> DEFINE f == wire[1]
  <1>1. /\ wire # <<>> /\ link # "none" /\ Head(wire).kind = "push" /\ wire' = Tail(wire)
        /\ lastSeq' = Head(wire).cursor
        /\ folded' = folded \cup Named(Head(wire)) /\ panel' = panel \cup Named(Head(wire))
        /\ UNCHANGED <<epoch, up, head, summary, pos, link, rpc, faults>>
        /\ UNCHANGED <<listed, over, pc, wsEpoch, listing, prev, from, stream, tEpoch>>
        /\ UNCHANGED <<current, selected, switch, resub, cancelled, selects, fellBack>>
    BY DEF OnPush, OnPushRest, Fold, Incoming, sessionVars, localVars, signalVars
  <1>2. DaemonInv' /\ Reads(wire, wire')
    BY <1>1, TakeKeepsDaemonInv
  <1>3. wire \in Seq(Frames)
    BY Types DEF DaemonInv
  <1>4. Head(wire) = f /\ f \in Frames /\ 1 \in 1..Len(wire)
    BY <1>1, <1>3, TailReads
  <1>5. /\ f.kind = "push" /\ f.stream = stream /\ lastSeq' = f.cursor
        /\ folded' = folded \cup Named(f) /\ panel' = panel \cup Named(f)
    BY <1>1, <1>4
  <1>6. /\ f.first \in Nat /\ f.cursor \in 0..MaxSeq /\ 1 <= f.first /\ f.first <= f.cursor
        /\ stream \in Streams /\ stream # None
    BY <1>4, <1>5, DaemonAssumption, TimelineAssumption DEF Frames, DaemonInv, FramesOK
  <1>7. tEpoch = wsEpoch /\ tEpoch \in 1..MaxEpoch
    <2>1. tEpoch = wsEpoch /\ wsEpoch # 0 /\ wsEpoch \in 0..MaxEpoch
      BY <1>1 DEF EpochOK, TimelineTypeOK
    <2> QED BY <2>1, DaemonAssumption
  <1>8. PushAt(wire, 1) /\ PushOf(wire, stream, 1) /\ ~ClosedAt(wire, 1) /\ ~ReplyAt(wire, 1)
    BY <1>4, <1>5 DEF PushAt, PushOf, ClosedAt, ReplyAt
  <1>9. pc \notin Leaving
    BY <1>4, <1>5 DEF OneStream
  <1>10. f.first..f.cursor \subseteq 1..MaxSeq
    BY <1>6, DaemonAssumption
  <1>11. Named(f) = {<<stream, tEpoch, n>> : n \in f.first..f.cursor}
    BY <1>5, <1>7 DEF Named
  <1>12. Had' = Had \cup f.first..f.cursor
    BY <1>1, <1>5, <1>10, <1>11 DEF Had
  <1> HIDE DEF f
  <1>13. Continues(wire, stream, Had) /\ \A n \in 1..(f.first - 1) : n \in Had
    <2>1. Continues(wire, stream, Had)
      BY DEF NoHoles
    <2>2. \A n \in 1..(f.first - 1) : n \in Had \/ \E j \in 1..(1 - 1) : Covers(wire[j], stream, n)
      BY <1>4, <1>5, <2>1 DEF Continues, f
    <2> QED BY <2>1, <2>2
  <1>14. Had \subseteq Had' /\ \A n \in Int : Covers(wire[1], stream, n) => n \in Had'
    BY <1>6, <1>12 DEF Covers, f
  <1>15. \A n \in Had' : n \in Had \/ n \in f.first..f.cursor
    BY <1>12
  <1>16. /\ PlaceOK' /\ EpochOK' /\ OneStream' /\ Told'
         /\ UNCHANGED <<Asked, Asking, RefusalOnItsWay, ConsentOnItsWay, Subscribes>>
    BY <1>1, <1>2, <1>8, ReadKeepsPlace
  <1>17. Answers'
    BY <1>1, <1>2, <1>8, ReadKeepsAnswers
  <1>18. TimelineTypeOK'
    <2>1. Named(f) \subseteq Events
      BY <1>6, <1>7, <1>10, <1>11 DEF Events
    <2> QED BY <1>1, <1>5, <1>6, <2>1 DEF TimelineTypeOK
  <1>19. Shown'
    <2>1. \A e \in folded' : e[1] = stream /\ e[2] = tEpoch
      BY <1>5, <1>11 DEF Shown
    <2>2. panel' = folded'
      BY <1>5, <1>9 DEF Shown, Leaving
    <2>3. pc # "clear"
      BY <1>9 DEF Leaving
    <2> QED BY <1>1, <2>1, <2>2, <2>3 DEF Shown
  <1>20. NoHoles'
    <2>1. 1..f.cursor \subseteq Had'
      BY <1>6, <1>12, <1>13
    <2>2. \A n \in Had' : 1..n \subseteq Had'
      <3> SUFFICES ASSUME NEW n \in Had' PROVE 1..n \subseteq Had'
        OBVIOUS
      <3>1. CASE n \in Had
        BY <1>14, <3>1 DEF NoHoles
      <3>2. CASE n \in f.first..f.cursor
        BY <1>6, <2>1, <3>2
      <3> QED BY <1>15, <3>1, <3>2
    <2>3. Asked /\ rpc.op = "subscribe" => 1..rpc.from \subseteq Had'
      BY <1>14 DEF NoHoles
    <2>4. Continues(wire', stream, Had')
      BY <1>2, <1>3, <1>13, <1>14, ReadsContinues
    <2>5. pos[stream] # -1 => Reaches(pos[stream], wire', stream, Had')
      BY <1>2, <1>3, <1>6, <1>14, ReadsReaches DEF NoHoles
    <2> QED BY <1>1, <1>5, <1>16, <2>1, <2>2, <2>3, <2>4, <2>5 DEF NoHoles
  <1>21. Fresh'
    <2> SUFFICES ASSUME fellBack = "no" PROVE Fresh'
      BY <1>1 DEF Fresh
    <2>1. /\ AllNew(wire, stream, Had) /\ Had \in SUBSET Nat
          /\ pos[stream] \in Int /\ summary[stream] \in Ranges
      BY <1>6, Types DEF Fresh, DaemonInv
    <2>2. \A n \in Had : n < f.cursor
      BY <1>4, <1>8, <2>1 DEF AllNew, f
    <2>3. ASSUME NEW n \in Had' PROVE n \in Nat /\ n <= f.cursor
      <3>1. n \in Had => n \in Nat /\ n < f.cursor
        BY <2>1, <2>2
      <3> QED BY <1>6, <1>15, <3>1
    <2>4. \A n \in Had' : n \in Had \/ (PushOf(wire, stream, 1) /\ n \in Nat /\ n <= wire[1].cursor)
      BY <1>8, <2>3 DEF f
    <2>5. ~(Asking \/ RefusalOnItsWay)
      BY <1>4, <1>6, <1>8 DEF Fresh
    <2>6. \A n \in Had' : Ahead(n, f.cursor, summary[stream])
      BY <1>6, <2>3 DEF Ahead
    <2>7. AllNew(wire', stream, Had')
          /\ (StaysNew(wire, stream, Had, pos[stream], summary[stream]) =>
                StaysNew(wire', stream, Had', pos[stream], summary[stream]))
      BY <1>2, <1>3, <2>1, <2>4, ReadNew
    <2> QED BY <1>1, <1>5, <1>6, <1>16, <2>5, <2>6, <2>7 DEF Fresh
  <1> QED BY <1>2, <1>16, <1>17, <1>18, <1>19, <1>20, <1>21

(* Other frames: an event of the old stream, a notice, a reply. *)
LEMMA OtherPushKeepsCore ==
  ASSUME Core, OnPush, Head(wire).stream # stream
  PROVE  Core'
  <1> USE DEF Core
  <1>1. /\ wire # <<>> /\ link # "none" /\ Head(wire).kind = "push" /\ wire' = Tail(wire)
        /\ UNCHANGED <<epoch, up, head, summary, pos, link, rpc, faults>>
        /\ UNCHANGED <<listed, over, pc, wsEpoch, listing, prev, from, stream, tEpoch>>
        /\ UNCHANGED <<current, selected, switch, resub, cancelled, selects, fellBack>>
        /\ UNCHANGED <<lastSeq, folded, panel>>
    BY DEF OnPush, OnPushRest, Incoming, sessionVars, localVars, signalVars
  <1>2. DaemonInv' /\ Reads(wire, wire')
    BY <1>1, TakeKeepsDaemonInv
  <1>3. wire \in Seq(Frames)
    BY Types DEF DaemonInv
  <1>4. Head(wire) = wire[1]
    BY <1>1, <1>3, TailReads
  <1>5. ~ClosedAt(wire, 1) /\ ~ReplyAt(wire, 1)
    BY <1>1, <1>4 DEF ClosedAt, ReplyAt
  <1>6. PlaceOK' /\ EpochOK' /\ OneStream' /\ Told' /\ NoHoles' /\ Fresh'
    BY <1>1, <1>2, <1>4, <1>5, ReadKeepsData
  <1>7. Answers'
    BY <1>1, <1>2, <1>5, ReadKeepsAnswers
  <1>8. TimelineTypeOK' /\ Shown'
    BY <1>1 DEF TimelineTypeOK, Shown
  <1> QED BY <1>2, <1>6, <1>7, <1>8

LEMMA OnClosedKeepsCore ==
  ASSUME Core, OnClosed
  PROVE  Core'
  <1> USE DEF Core
  <1>1. /\ wire # <<>> /\ link # "none" /\ Head(wire).kind = "closed" /\ wire' = Tail(wire)
        /\ resub' = IF Head(wire).stream = stream THEN TRUE ELSE resub
        /\ UNCHANGED <<epoch, up, head, summary, pos, link, rpc, faults>>
        /\ UNCHANGED <<listed, over, pc, wsEpoch, listing, prev, from, stream, tEpoch>>
        /\ UNCHANGED <<current, selected, switch, cancelled, selects, fellBack>>
        /\ UNCHANGED <<lastSeq, folded, panel>>
    BY DEF OnClosed, Incoming, sessionVars, localVars, streamVars
  <1>2. DaemonInv' /\ Reads(wire, wire')
    BY <1>1, TakeKeepsDaemonInv
  <1>3. wire \in Seq(Frames)
    BY Types DEF DaemonInv
  <1>4. Head(wire) = wire[1]
    BY <1>1, <1>3, TailReads
  <1>5. ~ReplyAt(wire, 1) /\ (wire[1].stream = stream => resub') /\ (resub => resub')
    BY <1>1, <1>4 DEF ReplyAt
  <1>6. PlaceOK' /\ EpochOK' /\ OneStream' /\ Told' /\ NoHoles' /\ Fresh'
    BY <1>1, <1>2, <1>4, <1>5, ReadKeepsData
  <1>7. Answers'
    BY <1>1, <1>2, <1>5, ReadKeepsAnswers
  <1>8. TimelineTypeOK' /\ Shown'
    BY <1>1 DEF TimelineTypeOK, Shown
  <1> QED BY <1>2, <1>6, <1>7, <1>8

(* The answer to an unsubscribe was the last frame. *)
LEMMA OnReplyKeepsCore ==
  ASSUME Core, OnReply
  PROVE  Core'
  <1> USE UnchangedAll DEF Core
  <1>1. /\ wire # <<>> /\ link # "none" /\ Head(wire).kind = "reply" /\ wire' = Tail(wire)
        /\ rpc' = IF rpc.at = "wired" THEN [rpc EXCEPT !.at = "answered"] ELSE rpc
        /\ UNCHANGED <<epoch, up, head, summary, pos, link, faults>>
        /\ ReadReply /\ UNCHANGED timelineVars
    BY DEF OnReply, ReadReply, Incoming
  <1>2. DaemonInv' /\ Reads(wire, wire')
    BY <1>1, ReadReplyKeepsDaemonInv
  <1>3. wire \in Seq(Frames) /\ rpc \in Calls
    BY Types DEF DaemonInv
  <1>4. Head(wire) = wire[1] /\ 1 \in 1..Len(wire)
    BY <1>1, <1>3, TailReads
  <1>5. ~ClosedAt(wire, 1) /\ ReplyAt(wire, 1) /\ wire[1].kind # "push"
    BY <1>1, <1>4 DEF ClosedAt, ReplyAt
  <1>6. PlaceOK' /\ EpochOK' /\ OneStream' /\ Told' /\ NoHoles' /\ Fresh'
    BY <1>1, <1>2, <1>5, ReadKeepsData
  <1>7. rpc'.at # "wired" /\ (rpc'.at = rpc.at \/ (rpc.at = "wired" /\ rpc'.at = "answered"))
    BY <1>1, <1>3 DEF Calls
  <1>8. Answers'
    <2>1. /\ Len(wire) \in Nat /\ Len(wire') \in Nat /\ Len(wire) = Len(wire') + 1
          /\ \A i \in 1..Len(wire') :
                /\ i + 1 \in 1..Len(wire) /\ 1 < i + 1
                /\ ReplyAt(wire', i) <=> ReplyAt(wire, i + 1)
      BY <1>2, <1>3, ReadsAt
    <2>2. pc \in {"pick"} \cup Leaving \/ (~cancelled /\ link # "broken") =>
             \A i \in 1..Len(wire') : ~ReplyAt(wire', i)
      BY <1>4, <1>5, <2>1 DEF Answers
    <2>3. pc = "uncall" /\ rpc'.at = "answered" => wire' = <<>>
      <3> SUFFICES ASSUME pc = "uncall", rpc'.at = "answered" PROVE wire' = <<>>
        OBVIOUS
      <3>1. rpc.at = "wired"
        BY <1>1, <1>7 DEF Answers
      <3>2. 1 = Len(wire)
        BY <1>4, <1>5, <3>1 DEF Answers
      <3>3. Len(wire') = 0 /\ wire' \in Seq(Frames)
        BY <1>2, <2>1, <3>2 DEF Reads
      <3> QED BY <3>3, EmptySeq
    <2>4. pc = "uncall" /\ rpc'.at # "sent" => ~Subscribes'
      BY <1>1, <1>7 DEF Answers, Subscribes
    <2> QED BY <1>1, <1>7, <2>2, <2>3, <2>4 DEF Answers
  <1> QED BY <1>1, <1>2, <1>6, <1>8

LEMMA ReaderKeepsCore ==
  ASSUME Core, Reader
  PROVE  Core'
  BY OwnPushKeepsCore, OtherPushKeepsCore, OnClosedKeepsCore, OnReplyKeepsCore DEF Reader
-----------------------------------------------------------------------------
LEMMA EnvironmentKeepsCore ==
  ASSUME Core, Environment
  PROVE  Core'
  <1>1. CASE DaemonStep /\ UNCHANGED timelineVars
    BY <1>1, DaemonStepKeepsCore
  <1>2. CASE \E s \in Streams : SessionStarts(s) \/ SessionEnds(s)
    BY <1>2, MovesKeepCore
  <1> QED BY <1>1, <1>2 DEF Environment

LEMMA StutterKeepsCore ==
  ASSUME Core, UNCHANGED vars
  PROVE  Core'
  <1>1. UNCHANGED timelineVars
        /\ UNCHANGED <<epoch, up, head, summary, pos, link, wire, rpc, faults>>
    BY DEF vars, daemonVars
  <1>2. TimelineTypeOK'
    BY <1>1, UnchangedAll DEF Core
  <1> QED BY <1>1, <1>2, UnchangedAll, MoveKeepsCore

LEMMA IInvStep ==
  ASSUME IInv, [Next]_vars
  PROVE  IInv'
  <1>1. Core'
    <2>1. CASE Run
      BY <2>1, RunKeepsCore DEF IInv
    <2>2. CASE Reader
      BY <2>2, ReaderKeepsCore DEF IInv
    <2>3. CASE Environment
      BY <2>3, EnvironmentKeepsCore DEF IInv
    <2>4. CASE Cancel \/ \E s \in Streams : Select(s)
      BY <2>4, MovesKeepCore DEF IInv
    <2>5. CASE UNCHANGED vars
      BY <2>5, StutterKeepsCore DEF IInv
    <2> QED BY <2>1, <2>2, <2>3, <2>4, <2>5 DEF Next
  <1>2. SelectOK'
    BY SelectOKStep DEF IInv, Core
  <1> QED BY <1>1, <1>2 DEF IInv

LEMMA InductiveInvariant == Spec => []IInv
  <1>1. Init => IInv
    BY IInvInit
  <1>2. IInv /\ [Next]_vars => IInv'
    BY IInvStep
  <1> QED BY <1>1, <1>2, PTL DEF Spec
-----------------------------------------------------------------------------
(* Every variable of the timeline, of the daemon and of the connection     *)
(* keeps its type: lastSeq, which pick, onNotify and the two fallbacks of  *)
(* subscribe set, is 0 or the number of an event.                          *)
THEOREM TypeCorrect == Spec => []TypeOK
  <1>1. IInv => TypeOK
    BY DEF IInv, Core, DaemonInv, TimelineTypeOK, TypeOK
  <1> QED BY <1>1, InductiveInvariant, PTL

(* setStream replaces the usage, the tools and the coalescer when the      *)
(* session or the epoch changes, and onNotify drops the events of another  *)
(* stream: however a switch meets with events on their way, what is folded *)
(* and shown is of one session and one epoch, and follow serves a session  *)
(* with nothing else subscribed.                                           *)
THEOREM SessionsNeverMixed == Spec => []OneSession
  <1>1. IInv => NothingMixed
    BY DEF IInv, Core, Shown, NothingMixed
  <1>2. IInv => OnlyCurrentSubscribed
    BY DEF IInv, Core, OneStream, Leaving, OnlyCurrentSubscribed
  <1>3. IInv => OneSession
    BY <1>1, <1>2 DEF OneSession
  <1> QED BY <1>3, InductiveInvariant, PTL

(* The cursor that subscribe resumes from is never ahead of what onNotify  *)
(* has folded, and that has no holes; the browser shows the same, but for  *)
(* the moment between setStream's unlock and its clearFrame.               *)
THEOREM ResumesWithoutHoles == Spec => []NothingSkipped
  <1>1. ASSUME IInv PROVE NothingSkipped
    <2>1. \A n \in 1..lastSeq : <<stream, tEpoch, n>> \in folded
      BY <1>1 DEF IInv, Core, NoHoles, Had
    <2>2. ASSUME NEW e \in folded, NEW n \in 1..e[3] PROVE <<stream, tEpoch, n>> \in folded
      <3>1. e = <<stream, tEpoch, e[3]>> /\ e[3] \in 1..MaxSeq
        BY <1>1 DEF IInv, Core, TimelineTypeOK, Shown, Events
      <3>2. e[3] \in Had
        BY <3>1 DEF Had
      <3>3. n \in Had
        BY <1>1, <3>2 DEF IInv, Core, NoHoles
      <3> QED BY <3>3 DEF Had
    <2>3. pc # "clear" => panel = folded
      BY <1>1 DEF IInv, Core, Shown
    <2> QED BY <2>1, <2>2, <2>3 DEF NothingSkipped
  <1> QED BY <1>1, InductiveInvariant, PTL

(* The channels resub and switchCh hold one token each, which follow takes *)
(* in serve, or throws away while it waits for a session.  That is enough: *)
(* in serve on a live connection the stream is subscribed or follow will   *)
(* be told, and a listed selection is the session that is served or its    *)
(* token is still there.                                                   *)
THEOREM TokensKept == Spec => []TokensNotLost
  <1>1. IInv => ResubNotLost
    <2> SUFFICES ASSUME IInv, pc = "serve", link = "open", pos[stream] = -1, ~resub
                 PROVE  \E i \in DOMAIN wire : wire[i].kind = "closed" /\ wire[i].stream = stream
      BY DEF ResubNotLost
    <2>1. PICK i \in 1..Len(wire) : ClosedAt(wire, i) /\ wire[i].stream = stream
      BY DEF IInv, Core, Told
    <2>2. wire \in Seq(Frames)
      BY Types DEF IInv, Core, DaemonInv
    <2>3. DOMAIN wire = 1..Len(wire)
      BY <2>2, LenProperties
    <2> QED BY <2>1, <2>3 DEF ClosedAt
  <1>2. IInv => SelectNotLost
    BY DEF IInv, SelectOK, Following, SelectNotLost
  <1>3. IInv => TokensNotLost
    BY <1>1, <1>2 DEF TokensNotLost
  <1> QED BY <1>3, InductiveInvariant, PTL

(* The record that onNotify takes off the wire folds an event that the     *)
(* timeline did not have, unless subscribe has fallen back to asking for   *)
(* everything, or has subscribed a session that was subscribed: nothing is *)
(* shown twice after a resumption, a boundary or a switch.                 *)
THEOREM NothingRepeatedWithoutFallback == Spec => ReplayOnlyAfterFallback
  <1>1. ASSUME IInv, Replays PROVE fellBack # "no"
    <2> SUFFICES ASSUME fellBack = "no" PROVE FALSE
      OBVIOUS
    <2> USE <1>1 DEF IInv, Core
    <2>1. /\ wire # <<>> /\ Head(wire).kind = "push" /\ Head(wire).stream = stream
          /\ Named(Head(wire)) \subseteq folded
      BY DEF Replays, OnPush, OnPushRest, Incoming
    <2>2. wire \in Seq(Frames)
      BY Types DEF DaemonInv
    <2>3. Head(wire) = wire[1] /\ wire[1] \in Frames /\ 1 \in 1..Len(wire)
      BY <2>1, <2>2, TailReads
    <2>4. PushOf(wire, stream, 1) /\ stream # None
      BY <2>1, <2>3, TimelineAssumption DEF PushOf, PushAt, Frames
    <2>5. /\ wire[1].first \in Nat /\ wire[1].cursor \in 1..MaxSeq
          /\ wire[1].first <= wire[1].cursor
      <3>1. 1 <= wire[1].first /\ wire[1].first <= wire[1].cursor
        BY <2>1, <2>3 DEF DaemonInv, FramesOK
      <3>2. wire[1].first \in 0..MaxSeq /\ wire[1].cursor \in 0..MaxSeq
        BY <2>3 DEF Frames
      <3> QED BY <3>1, <3>2, DaemonAssumption
    <2>6. wire[1].cursor \in Had
      <3>1. tEpoch = wsEpoch
        BY <2>1 DEF EpochOK
      <3>2. <<stream, tEpoch, wire[1].cursor>> \in Named(wire[1])
        BY <2>1, <2>3, <2>5, <3>1 DEF Named
      <3> QED BY <2>1, <2>3, <2>5, <3>2 DEF Had
    <2>7. wire[1].cursor < wire[1].cursor
      BY <2>3, <2>4, <2>6 DEF Fresh, AllNew
    <2> QED BY <2>5, <2>7
  <1>2. IInv /\ [Next]_vars => [Replays => fellBack # "no"]_vars
    BY <1>1
  <1> QED BY <1>2, InductiveInvariant, PTL DEF Spec, ReplayOnlyAfterFallback
=============================================================================
