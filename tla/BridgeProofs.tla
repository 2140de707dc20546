----------------------------- MODULE BridgeProofs -----------------------------
(***************************************************************************)
(* Theorems about Bridge, for any workspace stream, any number of events,  *)
(* epochs and faults, whether the daemon compacts its logs or not.         *)
(*                                                                         *)
(* IInv has five parts: where Run is and what it then has of the daemon    *)
(* (PlaceOK); what was relayed and what is on its way have no holes        *)
(* (NoHoles); a subscription that ended leaves a notice or a token (Told); *)
(* there is one notice or token, and no subscription with it (OneToken);   *)
(* and, as long as lastSeq did not go back to 0, what is on its way is new *)
(* (Fresh).                                                                *)
(***************************************************************************)
EXTENDS Bridge, DaemonProofs

Offline == {"dial", "backoff", "done"}
Asked == rpc.at # "idle"
RefusalOnItsWay == rpc.at \in {"due", "wired", "answered"} /\ rpc.result # "ok"
ConsentOnItsWay == rpc.at \in {"due", "wired", "answered"} /\ rpc.result = "ok"

BridgeTypeOK ==
    /\ pc \in Places
    /\ from \in 0..MaxSeq
    /\ lastSeq \in 0..MaxSeq
    /\ bEpoch \in 0..MaxEpoch
    /\ {connected, resub, cancelled} \subseteq BOOLEAN
    /\ seen \subseteq 1..MaxSeq
    /\ fellBack \in {"no", "refused", "broken"}

(* Nothing but the workspace's stream is subscribed, a connection starts   *)
(* from nothing, and once opened it is to the daemon of bEpoch.            *)
PlaceOK ==
    /\ pc \in Offline <=> link = "none"
    /\ pc \in {"call", "retry"} <=> Asked
    /\ Asked => rpc.op = "subscribe" /\ rpc.stream = Workspace
    /\ \A s \in Streams \ {Workspace} : pos[s] = -1
    /\ \A i \in 1..Len(wire) : wire[i].stream = Workspace
    /\ pc = "open" => wire = <<>> /\ pos[Workspace] = -1 /\ ~resub
    /\ bEpoch <= epoch
    /\ link = "open" /\ pc \notin {"open", "close"} => bEpoch = epoch
    /\ pos[Workspace] # -1 => bEpoch = epoch

NoHoles ==
    /\ 1..lastSeq \subseteq seen
    /\ \A n \in seen : 1..n \subseteq seen
    /\ Asked => 1..rpc.from \subseteq seen
    /\ Continues(wire, Workspace, seen)
    /\ pos[Workspace] # -1 => Reaches(pos[Workspace], wire, Workspace, seen)

Told ==
    link = "open" /\ (pc = "serve" \/ ConsentOnItsWay) =>
        pos[Workspace] # -1 \/ resub \/ \E i \in 1..Len(wire) : ClosedAt(wire, i)

(* Nothing is subscribed, and nothing that a subscription sent is left. *)
Quiet ==
    /\ pos[Workspace] = -1 /\ ~resub
    /\ \A i \in 1..Len(wire) : ~PushAt(wire, i) /\ ~ClosedAt(wire, i)

(* A call was given up, as only a cancelled or broken one is.  It may have *)
(* succeeded, so a second one comes with it.                               *)
GivenUp == fellBack # "no" /\ (cancelled \/ link = "broken")

OneToken ==
    ~GivenUp =>
        /\ \A i \in 1..Len(wire) : ClosedAt(wire, i) =>
              /\ ~resub /\ pos[Workspace] = -1
              /\ \A j \in 1..Len(wire) : ClosedAt(wire, j) => j = i
              /\ \A j \in 1..Len(wire) : PushAt(wire, j) => j < i
        /\ resub =>
              /\ pos[Workspace] = -1
              /\ \A i \in 1..Len(wire) : ~PushAt(wire, i) /\ ~ClosedAt(wire, i)
        /\ pc \in {"open", "subscribe"} \/ rpc.at = "sent" \/ RefusalOnItsWay => Quiet
        /\ link = "open" /\ pos[Workspace] = -1 =>
              \A i \in 1..Len(wire) : PushAt(wire, i) =>
                  \E j \in 1..Len(wire) : ClosedAt(wire, j)

Fresh ==
    fellBack = "no" =>
        /\ bEpoch = epoch => \A n \in seen : Ahead(n, lastSeq, summary[Workspace])
        /\ rpc.at = "sent" \/ RefusalOnItsWay => rpc.from = lastSeq
        /\ RefusalOnItsWay /\ rpc.result = "compacted" /\ bEpoch = epoch =>
              \A n \in seen : Ahead(n, rpc.boundary, summary[Workspace])
        /\ AllNew(wire, Workspace, seen)
        /\ pos[Workspace] # -1 =>
              StaysNew(wire, Workspace, seen, pos[Workspace], summary[Workspace])

IInv == DaemonInv /\ BridgeTypeOK /\ PlaceOK /\ NoHoles /\ Told /\ OneToken /\ Fresh
-----------------------------------------------------------------------------
LEMMA IInvInit == Init => IInv
  <1> SUFFICES ASSUME Init PROVE IInv
    OBVIOUS
  <1> USE WorkspaceAssumption DEF Init, DaemonInit
  <1>1. DaemonInv
    BY DaemonInvInit
  <1>2. wire = <<>> /\ Len(wire) = 0 /\ 1..Len(wire) = {}
    BY EmptySeq
  <1>3. rpc.at = "idle" /\ pos[Workspace] = -1
    BY DEF Idle
  <1>4. BridgeTypeOK
    <2>1. 0 \in 0..MaxSeq /\ 0 \in 0..MaxEpoch
      BY DaemonAssumption
    <2>2. {connected, resub, cancelled} \subseteq BOOLEAN /\ seen \subseteq 1..MaxSeq
      OBVIOUS
    <2> QED BY <2>1, <2>2 DEF BridgeTypeOK, Places
  <1>5. PlaceOK
    BY <1>2, <1>3 DEF PlaceOK, Offline, Asked
  <1>6. NoHoles
    BY <1>2, <1>3, EmptyContinues DEF NoHoles, Asked
  <1>7. Told
    BY <1>3 DEF Told, ConsentOnItsWay
  <1>8. OneToken
    BY <1>2, <1>3 DEF OneToken, Quiet, RefusalOnItsWay
  <1>9. Fresh
    BY <1>2, <1>3 DEF Fresh, RefusalOnItsWay, AllNew
  <1> QED BY <1>1, <1>4, <1>5, <1>6, <1>7, <1>8, <1>9 DEF IInv

(* Facts about the types that most steps need. *)
LEMMA Types ==
  ASSUME IInv
  PROVE  /\ epoch \in Nat /\ bEpoch \in Nat /\ wire \in Seq(Frames) /\ rpc \in Calls
         /\ pos \in [Streams -> -1..MaxSeq] /\ pos[Workspace] \in Int
         /\ summary \in [Streams -> Ranges] /\ summary[Workspace] \in Ranges
         /\ summary[Workspace].from \in Nat /\ summary[Workspace].to \in Nat
         /\ rpc.from \in 0..MaxSeq /\ rpc.boundary \in 0..MaxSeq /\ lastSeq \in 0..MaxSeq
         /\ MaxSeq \in Nat /\ seen \subseteq Nat
         /\ resub \in BOOLEAN /\ cancelled \in BOOLEAN
  <1> USE WorkspaceAssumption, DaemonAssumption
  <1>1. /\ epoch \in Nat /\ wire \in Seq(Frames) /\ rpc \in Calls
        /\ pos \in [Streams -> -1..MaxSeq] /\ summary \in [Streams -> Ranges]
    BY DEF IInv, DaemonInv, DaemonTypeOK
  <1>2. /\ bEpoch \in Nat /\ lastSeq \in 0..MaxSeq /\ seen \subseteq Nat
        /\ resub \in BOOLEAN /\ cancelled \in BOOLEAN
    BY DEF IInv, BridgeTypeOK
  <1>3. pos[Workspace] \in Int /\ summary[Workspace] \in Ranges
    BY <1>1
  <1>4. summary[Workspace].from \in Nat /\ summary[Workspace].to \in Nat
    BY <1>3 DEF Ranges
  <1>5. rpc.from \in 0..MaxSeq /\ rpc.boundary \in 0..MaxSeq
    BY <1>1 DEF Calls
  <1> QED BY <1>1, <1>2, <1>3, <1>4, <1>5
-----------------------------------------------------------------------------
(* Steps that change nothing but the place of Run, or cancel the context. *)
LEMMA MoveKeepsIInv ==
  ASSUME IInv, UNCHANGED <<daemonVars, from, lastSeq, bEpoch, connected, resub, seen, fellBack>>,
         \/ pc' = pc
         \/ pc \in Offline /\ pc' \in Offline
         \/ pc \in {"open", "serve"} /\ pc' = "close",
         cancelled' \in {cancelled, TRUE}
  PROVE  IInv'
  <1> USE DEF daemonVars, IInv
  <1>0. cancelled => cancelled'
    BY Types
  <1>1. DaemonInv'
    BY DEF DaemonInv, DaemonTypeOK, SummaryOK, LinkOK, RpcOK
  <1>2. BridgeTypeOK'
    BY DEF BridgeTypeOK, Places, Offline
  <1>3. PlaceOK'
    BY DEF PlaceOK, Offline, Asked
  <1>4. NoHoles'
    BY DEF NoHoles, Asked
  <1>5. Told'
    <2>1. pc' = "serve" => pc = "serve"
      BY DEF Offline
    <2> QED BY <2>1 DEF Told, ConsentOnItsWay
  <1>6. OneToken'
    BY <1>0 DEF OneToken, Quiet, RefusalOnItsWay, GivenUp, Offline
  <1>7. Fresh'
    BY DEF Fresh, RefusalOnItsWay
  <1> QED BY <1>1, <1>2, <1>3, <1>4, <1>5, <1>6, <1>7

LEMMA MovesKeepIInv ==
  ASSUME IInv, DialFails \/ OpenFails \/ ServeEnds \/ Backoff \/ RunEnds \/ Cancel
  PROVE  IInv'
  BY MoveKeepsIInv DEF DialFails, OpenFails, ServeEnds, Backoff, RunEnds, Cancel, Goto, Offline
-----------------------------------------------------------------------------
(* The daemon's steps *)

LEMMA EmitRestartKeepIInv ==
  ASSUME IInv, Restart \/ \E s \in Streams : Emit(s), UNCHANGED bridgeVars
  PROVE  IInv'
  <1> USE DEF bridgeVars, IInv
  <1>1. DaemonInv'
    BY EmitKeepsDaemonInv, RestartKeepsDaemonInv
  <1>2. UNCHANGED <<epoch, summary, pos, link, wire, rpc>>
    BY DEF Emit, Restart
  <1>3. BridgeTypeOK' /\ PlaceOK'
    BY <1>2 DEF BridgeTypeOK, PlaceOK, Asked
  <1>4. NoHoles' /\ Told'
    BY <1>2 DEF NoHoles, Asked, Told, ConsentOnItsWay
  <1>5. OneToken'
    BY <1>2 DEF OneToken, Quiet, RefusalOnItsWay, GivenUp
  <1>6. Fresh'
    BY <1>2 DEF Fresh, RefusalOnItsWay
  <1> QED BY <1>1, <1>3, <1>4, <1>5, <1>6

LEMMA CompactKeepsIInv ==
  ASSUME IInv, NEW s \in Streams, Compact(s), UNCHANGED bridgeVars
  PROVE  IInv'
  <1> USE DEF bridgeVars, IInv
  <1>1. DaemonInv'
    BY CompactKeepsDaemonInv
  <1>2. UNCHANGED <<epoch, up, head, pos, link, wire, rpc, faults>>
    BY DEF Compact
  <1>3. BridgeTypeOK' /\ PlaceOK'
    BY <1>2 DEF BridgeTypeOK, PlaceOK, Asked
  <1>4. NoHoles' /\ Told'
    BY <1>2 DEF NoHoles, Asked, Told, ConsentOnItsWay
  <1>5. OneToken'
    BY <1>2 DEF OneToken, Quiet, RefusalOnItsWay, GivenUp
  <1>6. Fresh'
    <2> DEFINE r == summary[Workspace]
               t == summary'[Workspace]
    <2>1. PICK c \in [from : 1..head[s], to : 1..head[s]] :
             /\ summary[s] = NoRange \/ (c.from <= summary[s].from /\ summary[s].to <= c.to)
             /\ ~Inside(pos[s], c)
             /\ summary' = [summary EXCEPT ![s] = c]
      BY DEF Compact
    <2>2. r \in Ranges /\ t \in Ranges
      BY <1>1, Types, WorkspaceAssumption DEF DaemonInv, DaemonTypeOK
    <2>3. \/ t = r
          \/ /\ r = NoRange \/ (t.from <= r.from /\ r.to <= t.to)
             /\ ~Inside(pos[Workspace], t)
      BY <2>1, Types, WorkspaceAssumption
    <2>4. pos[Workspace] # -1 => pos[Workspace] \in Nat
      BY Types, WorkspaceAssumption
    <2>5. lastSeq \in Nat /\ rpc.boundary \in Nat /\ wire \in Seq(Frames) /\ seen \in SUBSET Nat
      BY Types
    <2>6. r = summary[Workspace] /\ t = summary'[Workspace]
      OBVIOUS
    <2> HIDE DEF r, t
    <2>7. \A n \in seen :
             /\ Ahead(n, lastSeq, r) => Ahead(n, lastSeq, t)
             /\ Ahead(n, rpc.boundary, r) => Ahead(n, rpc.boundary, t)
      BY <2>2, <2>3, <2>5, GrownAhead
    <2>8. pos[Workspace] # -1 /\ StaysNew(wire, Workspace, seen, pos[Workspace], r) =>
             StaysNew(wire, Workspace, seen, pos[Workspace], t)
      BY <2>2, <2>3, <2>4, <2>5, GrownStaysNew
    <2> QED BY <1>2, <2>6, <2>7, <2>8 DEF Fresh, RefusalOnItsWay
  <1> QED BY <1>1, <1>3, <1>4, <1>5, <1>6

(* The daemon dies or the connection breaks: nothing is subscribed, and    *)
(* the last frames may be lost.                                            *)
LEMMA CutKeepsIInv ==
  ASSUME IInv, Crash \/ Break, UNCHANGED bridgeVars
  PROVE  IInv'
  <1> USE DEF bridgeVars, IInv
  <1>1. DaemonInv'
    BY CrashKeepsDaemonInv, BreakKeepsDaemonInv
  <1>2. /\ pos' = [s \in Streams |-> -1] /\ rpc' = rpc
        /\ link' = IF link = "open" THEN "broken" ELSE link
        /\ \/ epoch' = epoch + 1
           \/ epoch' = epoch /\ summary' = summary
    BY DEF Crash, Break
  <1>3. pos'[Workspace] = -1 /\ \A s \in Streams : pos'[s] = -1
    BY <1>2, WorkspaceAssumption
  <1>4. wire \in Seq(Frames) /\ Loses(wire, wire')
    BY Types, SubSeqLoses DEF Crash, Break
  <1>5. \A i \in 1..Len(wire') :
           /\ i \in 1..Len(wire) /\ wire'[i] = wire[i]
           /\ PushAt(wire', i) <=> PushAt(wire, i)
           /\ ClosedAt(wire', i) <=> ClosedAt(wire, i)
    BY <1>4, LosesAt
  <1>6. link' # "open" /\ (link' = "none" <=> link = "none")
        /\ (link = "broken" => link' = "broken")
    BY <1>2
  <1>7. bEpoch <= epoch' /\ (bEpoch = epoch' => epoch' = epoch /\ summary' = summary)
    BY <1>2, Types DEF PlaceOK
  <1>8. BridgeTypeOK'
    BY DEF BridgeTypeOK
  <1>9. PlaceOK'
    <2>1. wire = <<>> => wire' = <<>>
      BY <1>4, EmptySeq, LenProperties DEF Loses
    <2> QED BY <1>2, <1>3, <1>5, <1>6, <1>7, <2>1 DEF PlaceOK, Asked
  <1>10. NoHoles'
    BY <1>2, <1>3, <1>4, LosesContinues DEF NoHoles, Asked
  <1>11. Told'
    BY <1>6 DEF Told
  <1>12. OneToken'
    <2> SUFFICES ASSUME ~GivenUp' PROVE OneToken'
      BY DEF OneToken
    <2>1. ~GivenUp
      BY <1>6 DEF GivenUp
    <2>2. Quiet => Quiet'
      BY <1>3, <1>5 DEF Quiet
    <2> QED BY <1>2, <1>3, <1>5, <1>6, <2>1, <2>2 DEF OneToken, RefusalOnItsWay
  <1>13. Fresh'
    <2>1. AllNew(wire, Workspace, seen) => AllNew(wire', Workspace, seen)
      BY <1>4, LosesKeepsPushes, KeptNew
    <2> QED BY <1>2, <1>3, <1>7, <2>1 DEF Fresh, RefusalOnItsWay
  <1> QED BY <1>1, <1>8, <1>9, <1>10, <1>11, <1>12, <1>13

(* The next record goes to the subscriber: it goes on from the last one,   *)
(* and if a cursor was moved back, it is the summary that has new events.  *)
LEMMA PushNextKeepsIInv ==
  ASSUME IInv, NEW s \in Streams, PushNext(s), UNCHANGED bridgeVars
  PROVE  IInv'
  <1> USE DEF bridgeVars, IInv
  <1> DEFINE p == pos[Workspace]
             sum == summary[Workspace]
             r == RecordAfter(Workspace, p)
             f == Push(Workspace, r)
             k == Len(wire) + 1
  <1>1. s = Workspace /\ p # -1 /\ link = "open" /\ p < head[Workspace]
        /\ UNCHANGED <<epoch, summary, link, rpc>>
    BY DEF PushNext, PlaceOK
  <1>2. /\ r \in Ranges /\ r.from = p + 1 /\ r.from <= r.to /\ f \in Frames
        /\ f.kind = "push" /\ f.stream = Workspace /\ f.first = p + 1 /\ f.cursor = r.to
    BY <1>1, RecordOK, WorkspaceAssumption
  <1>3. DaemonInv' /\ Sends(wire, wire', f) /\ pos' = [pos EXCEPT ![Workspace] = r.to]
    BY <1>1, PushNextKeepsDaemonInv
  <1>4. r = IF sum.from = p + 1 THEN sum ELSE [from |-> p + 1, to |-> p + 1]
    BY DEF RecordAfter
  <1>5. p \in Nat /\ r.to \in Nat /\ p < r.to /\ sum.from \in Nat /\ sum.to \in Nat
    <2>1. p \in -1..MaxSeq
      BY Types, WorkspaceAssumption
    <2>2. p \in Nat
      BY <1>1, <2>1, Types
    <2>3. r.to \in Nat /\ r.from \in Nat
      BY <1>2 DEF Ranges
    <2> QED BY <1>2, <2>2, <2>3, Types
  <1>6. wire \in Seq(Frames)
    BY Types
  <1>7. /\ Len(wire) \in Nat /\ Len(wire') = k
        /\ \A i : PushAt(wire', i) <=> PushAt(wire, i) \/ i = k
        /\ \A i : ClosedAt(wire', i) <=> ClosedAt(wire, i)
        /\ \A i \in 1..Len(wire) : wire'[i] = wire[i] /\ i < k /\ i \in 1..Len(wire')
        /\ k \in 1..Len(wire') /\ wire'[k] = f
    BY <1>2, <1>3, <1>6, SendsAt
  <1>8. pos'[Workspace] = r.to /\ r.to # -1 /\ \A t \in Streams \ {Workspace} : pos'[t] = pos[t]
    BY <1>3, <1>5, Types, WorkspaceAssumption
  <1>9. bEpoch = epoch
    BY <1>1 DEF PlaceOK
  <1> HIDE DEF p, sum, r, f, k
  <1>10. BridgeTypeOK'
    BY DEF BridgeTypeOK
  <1>11. PlaceOK'
    <2>1. \A i \in 1..Len(wire') : wire'[i].stream = Workspace
      BY <1>2, <1>7 DEF PlaceOK, k
    <2>2. pc # "open"
      BY <1>1 DEF PlaceOK, p
    <2> QED BY <1>1, <1>8, <1>9, <2>1, <2>2 DEF PlaceOK, Asked
  <1>12. NoHoles'
    <2>1. Reaches(p, wire, Workspace, seen)
      BY <1>1 DEF NoHoles, p
    <2>2. f.first - 1 = p
      BY <1>2, <1>5
    <2>3. Continues(wire', Workspace, seen)
      BY <1>2, <1>3, <1>6, <2>1, <2>2, SendsContinues DEF NoHoles
    <2>4. Reaches(r.to, wire', Workspace, seen)
      BY <1>2, <1>3, <1>6, <2>1, <2>2, PushReaches
    <2> QED BY <1>1, <1>8, <2>3, <2>4 DEF NoHoles, Asked
  <1>13. Told'
    BY <1>8 DEF Told
  <1>14. OneToken'
    <2> SUFFICES ASSUME ~GivenUp PROVE OneToken'
      BY <1>1 DEF OneToken, GivenUp
    <2>1. ~resub /\ \A i \in 1..Len(wire) : ~ClosedAt(wire, i)
      BY <1>1 DEF OneToken, p
    <2>2. ~(pc \in {"open", "subscribe"} \/ rpc.at = "sent" \/ RefusalOnItsWay)
      BY <1>1 DEF OneToken, Quiet, p
    <2>3. \A i \in 1..Len(wire') : ~ClosedAt(wire', i)
      BY <1>7, <2>1 DEF ClosedAt
    <2> QED BY <1>1, <1>8, <2>1, <2>2, <2>3 DEF OneToken, RefusalOnItsWay
  <1>15. Fresh'
    <2> SUFFICES ASSUME fellBack = "no" PROVE Fresh'
      BY DEF Fresh
    <2>1. AllNew(wire, Workspace, seen) /\ StaysNew(wire, Workspace, seen, p, sum)
      BY <1>1 DEF Fresh, p, sum
    <2>2. seen \in SUBSET Nat /\ sum \in Ranges
      BY Types DEF sum
    <2>3. AllNew(wire', Workspace, seen) /\ StaysNew(wire', Workspace, seen, r.to, sum)
      BY <1>2, <1>3, <1>4, <1>5, <1>6, <2>1, <2>2, SentNew
    <2> QED BY <1>1, <1>8, <2>3 DEF Fresh, RefusalOnItsWay, sum
  <1> QED BY <1>3, <1>10, <1>11, <1>12, <1>13, <1>14, <1>15

LEMMA CloseSubscriptionKeepsIInv ==
  ASSUME IInv, NEW s \in Streams, CloseSubscription(s), UNCHANGED bridgeVars
  PROVE  IInv'
  <1> USE DEF bridgeVars, IInv
  <1> DEFINE k == Len(wire) + 1
  <1>1. s = Workspace /\ pos[Workspace] # -1 /\ link = "open"
        /\ UNCHANGED <<epoch, summary, link, rpc>>
        /\ pos' = [pos EXCEPT ![Workspace] = -1]
    BY DEF CloseSubscription, PlaceOK
  <1>2. DaemonInv' /\ Sends(wire, wire', Closed(Workspace))
    BY <1>1, CloseSubscriptionKeepsDaemonInv
  <1>3. wire \in Seq(Frames) /\ Closed(Workspace).kind = "closed"
        /\ Closed(Workspace).stream = Workspace
    BY Types DEF Closed
  <1>4. /\ Len(wire) \in Nat /\ Len(wire') = k
        /\ \A i : PushAt(wire', i) <=> PushAt(wire, i)
        /\ \A i : ClosedAt(wire', i) <=> ClosedAt(wire, i) \/ i = k
        /\ \A i \in 1..Len(wire) : wire'[i] = wire[i] /\ i < k /\ i \in 1..Len(wire')
        /\ k \in 1..Len(wire') /\ wire'[k] = Closed(Workspace)
    BY <1>2, <1>3, SendsAt
  <1>5. pos'[Workspace] = -1 /\ \A t \in Streams \ {Workspace} : pos'[t] = pos[t]
    BY <1>1, Types, WorkspaceAssumption
  <1> HIDE DEF k
  <1>6. BridgeTypeOK'
    BY DEF BridgeTypeOK
  <1>7. PlaceOK'
    <2>1. \A i \in 1..Len(wire') : wire'[i].stream = Workspace
      BY <1>3, <1>4 DEF PlaceOK, k
    <2>2. pc # "open"
      BY <1>1 DEF PlaceOK
    <2> QED BY <1>1, <1>5, <2>1, <2>2 DEF PlaceOK, Asked
  <1>8. NoHoles'
    <2>1. Continues(wire', Workspace, seen)
      BY <1>2, <1>3, SendsContinues DEF NoHoles
    <2> QED BY <1>1, <1>5, <2>1 DEF NoHoles, Asked
  <1>9. Told'
    BY <1>4 DEF Told
  <1>10. OneToken'
    <2> SUFFICES ASSUME ~GivenUp PROVE OneToken'
      BY <1>1 DEF OneToken, GivenUp
    <2>1. ~resub /\ \A i \in 1..Len(wire) : ~ClosedAt(wire, i)
      BY <1>1 DEF OneToken
    <2>2. ~(pc \in {"open", "subscribe"} \/ rpc.at = "sent" \/ RefusalOnItsWay)
      BY <1>1 DEF OneToken, Quiet
    <2>3. \A i : ClosedAt(wire', i) <=> i = k
      BY <1>4, <2>1 DEF ClosedAt
    <2>4. \A j : PushAt(wire', j) => j < k
      BY <1>4 DEF PushAt
    <2> QED BY <1>1, <1>4, <1>5, <2>1, <2>2, <2>3, <2>4 DEF OneToken, RefusalOnItsWay
  <1>11. Fresh'
    <2>1. AllNew(wire, Workspace, seen) => AllNew(wire', Workspace, seen)
      BY <1>2, <1>3, SendsKeepsPushes, KeptNew
    <2> QED BY <1>1, <1>5, <2>1 DEF Fresh, RefusalOnItsWay
  <1> QED BY <1>2, <1>6, <1>7, <1>8, <1>9, <1>10, <1>11

(* The answer to the call in progress: what all answers have in common. *)
LEMMA AnsweredKeepsPlace ==
  ASSUME IInv, DaemonInv', UNCHANGED bridgeVars, UNCHANGED <<epoch, link, wire>>,
         rpc.at = "sent", link = "open", rpc'.at = "due",
         rpc'.op = rpc.op, rpc'.stream = rpc.stream, rpc'.from = rpc.from,
         pos' = pos \/ pos' = [pos EXCEPT ![rpc.stream] = rpc.from]
  PROVE  /\ BridgeTypeOK' /\ PlaceOK' /\ NoHoles'
         /\ rpc.stream = Workspace /\ bEpoch = epoch /\ pc \in {"call", "retry"}
         /\ ~GivenUp => Quiet
         /\ GivenUp' = GivenUp
  <1> USE DEF bridgeVars, IInv
  <1>1. /\ rpc.stream = Workspace /\ rpc.op = "subscribe" /\ pc \in {"call", "retry"}
        /\ bEpoch = epoch /\ (~GivenUp => Quiet)
    BY DEF PlaceOK, Asked, OneToken
  <1>2. \A s \in Streams \ {Workspace} : pos'[s] = pos[s]
    BY <1>1, Types
  <1>3. pos'[Workspace] \in {pos[Workspace], rpc.from}
    BY <1>1, Types, WorkspaceAssumption
  <1>4. BridgeTypeOK'
    BY DEF BridgeTypeOK
  <1>5. PlaceOK'
    BY <1>1, <1>2 DEF PlaceOK, Asked
  <1>6. NoHoles'
    <2>1. 1..rpc.from \subseteq seen /\ rpc.from \in Nat
      BY Types DEF NoHoles, Asked
    <2>2. Reaches(rpc.from, wire, Workspace, seen)
      BY <2>1 DEF Reaches
    <2> QED BY <1>3, <2>1, <2>2 DEF NoHoles, Asked
  <1>7. GivenUp' = GivenUp
    BY DEF GivenUp
  <1> QED BY <1>1, <1>4, <1>5, <1>6, <1>7

(* A refusal changes nothing that is subscribed. *)
LEMMA RefusalKeepsIInv ==
  ASSUME IInv, DaemonInv', UNCHANGED bridgeVars,
         UNCHANGED <<epoch, summary, pos, link, wire>>,
         rpc.at = "sent", link = "open", rpc'.at = "due", rpc'.result # "ok",
         rpc'.op = rpc.op, rpc'.stream = rpc.stream, rpc'.from = rpc.from,
         rpc'.result = "compacted" =>
            /\ Inside(rpc.from, summary[rpc.stream])
            /\ rpc'.boundary = summary[rpc.stream].from - 1
  PROVE  IInv'
  <1> USE DEF bridgeVars, IInv
  <1>1. /\ BridgeTypeOK' /\ PlaceOK' /\ NoHoles'
        /\ rpc.stream = Workspace /\ bEpoch = epoch /\ pc \in {"call", "retry"}
        /\ ~GivenUp => Quiet
        /\ GivenUp' = GivenUp
    BY AnsweredKeepsPlace
  <1>2. Told'
    BY <1>1 DEF Told, ConsentOnItsWay
  <1>3. OneToken'
    BY <1>1 DEF OneToken, Quiet, RefusalOnItsWay
  <1>4. Fresh'
    <2> SUFFICES ASSUME fellBack = "no" PROVE Fresh'
      BY DEF Fresh
    <2>1. rpc.from = lastSeq /\ \A n \in seen : Ahead(n, lastSeq, summary[Workspace])
      BY <1>1 DEF Fresh
    <2>2. rpc'.result = "compacted" =>
             \A n \in seen : Ahead(n, rpc'.boundary, summary[Workspace])
      <3>1. seen \subseteq Nat /\ lastSeq \in Nat /\ summary[Workspace] \in Ranges
        BY Types
      <3> QED BY <1>1, <2>1, <3>1, BoundaryAhead
    <2> QED BY <1>1, <2>1, <2>2 DEF Fresh, RefusalOnItsWay
  <1> QED BY <1>1, <1>2, <1>3, <1>4

LEMMA RefuseKeepsIInv ==
  ASSUME IInv, Refuse, UNCHANGED bridgeVars
  PROVE  IInv'
  BY RefuseKeepsDaemonInv, RefusalKeepsIInv DEF IInv

(* A subscription from the cursor that was asked for, for the stream that  *)
(* the bridge follows.                                                     *)
LEMMA HandleSubscribeKeepsIInv ==
  ASSUME IInv, HandleSubscribe, UNCHANGED bridgeVars
  PROVE  IInv'
  <1>1. /\ DaemonInv'
        /\ rpc.at = "sent" /\ pos[rpc.stream] = -1 /\ link = "open"
        /\ UNCHANGED <<epoch, up, head, summary, link, wire, faults>>
        /\ rpc'.at = "due" /\ rpc'.op = rpc.op /\ rpc'.stream = rpc.stream
        /\ rpc'.from = rpc.from
    BY HandleSubscribeKeepsDaemonInv DEF IInv
  <1>2. CASE /\ rpc'.result = "compacted" /\ UNCHANGED pos
             /\ Inside(rpc.from, summary[rpc.stream])
             /\ rpc'.boundary = summary[rpc.stream].from - 1
    BY <1>1, <1>2, RefusalKeepsIInv
  <1>3. CASE rpc'.result = "error" /\ UNCHANGED pos
    BY <1>1, <1>3, RefusalKeepsIInv
  <1>4. CASE /\ rpc'.result = "ok" /\ ~Inside(rpc.from, summary[rpc.stream])
             /\ pos' = [pos EXCEPT ![rpc.stream] = rpc.from]
    <2> USE DEF bridgeVars, IInv
    <2>1. /\ BridgeTypeOK' /\ PlaceOK' /\ NoHoles'
          /\ rpc.stream = Workspace /\ bEpoch = epoch /\ pc \in {"call", "retry"}
          /\ ~GivenUp => Quiet
          /\ GivenUp' = GivenUp
      BY <1>1, <1>4, AnsweredKeepsPlace
    <2>2. pos'[Workspace] = rpc.from /\ rpc.from # -1
      BY <1>4, <2>1, Types, WorkspaceAssumption
    <2>3. Told'
      BY <2>2 DEF Told
    <2>4. OneToken'
      <3> SUFFICES ASSUME ~GivenUp PROVE OneToken'
        BY <2>1 DEF OneToken
      <3> QED BY <1>1, <1>4, <2>1, <2>2 DEF OneToken, Quiet, RefusalOnItsWay
    <2>5. Fresh'
      <3> SUFFICES ASSUME fellBack = "no" PROVE Fresh'
        BY DEF Fresh
      <3>1. rpc.from = lastSeq /\ \A n \in seen : Ahead(n, lastSeq, summary[Workspace])
        BY <1>1, <2>1 DEF Fresh
      <3>2. \A i \in 1..Len(wire) : ~PushAt(wire, i)
        BY <2>1 DEF GivenUp, Quiet
      <3>3. ~Inside(lastSeq, summary[Workspace])
        BY <1>4, <2>1, <3>1
      <3>4. StaysNew(wire, Workspace, seen, lastSeq, summary[Workspace])
        BY <3>1, <3>2, <3>3 DEF StaysNew, PushOf
      <3> QED BY <1>1, <1>4, <2>1, <2>2, <3>1, <3>4 DEF Fresh, RefusalOnItsWay
    <2> QED BY <1>1, <2>1, <2>3, <2>4, <2>5
  <1> QED BY <1>2, <1>3, <1>4, HandleSubscribeKeepsDaemonInv DEF IInv

(* It happens only to a call that comes after one that was given up. *)
LEMMA HandleSecondSubscribeKeepsIInv ==
  ASSUME IInv, HandleSecondSubscribe, UNCHANGED bridgeVars
  PROVE  IInv'
  <1> USE DEF bridgeVars, IInv
  <1>1. /\ DaemonInv'
        /\ rpc.at = "sent" /\ pos[rpc.stream] # -1 /\ link = "open"
        /\ UNCHANGED <<epoch, up, head, summary, link, wire, faults>>
        /\ rpc'.at = "due" /\ rpc'.op = rpc.op /\ rpc'.stream = rpc.stream
        /\ rpc'.from = rpc.from
        /\ \/ rpc'.result = "error" /\ UNCHANGED pos
           \/ rpc'.result = "ok" /\ pos' = [pos EXCEPT ![rpc.stream] = rpc.from]
    BY HandleSecondSubscribeKeepsDaemonInv
  <1>2. /\ BridgeTypeOK' /\ PlaceOK' /\ NoHoles'
        /\ rpc.stream = Workspace
        /\ ~GivenUp => Quiet
        /\ GivenUp' = GivenUp
    BY <1>1, AnsweredKeepsPlace
  <1>3. GivenUp
    BY <1>1, <1>2 DEF Quiet
  <1>4. pos'[Workspace] # -1
    BY <1>1, <1>2, Types, WorkspaceAssumption
  <1>5. Told' /\ OneToken' /\ Fresh'
    BY <1>2, <1>3, <1>4 DEF Told, OneToken, Fresh, GivenUp
  <1> QED BY <1>1, <1>2, <1>5

LEMMA SendReplyKeepsIInv ==
  ASSUME IInv, SendReply, UNCHANGED bridgeVars
  PROVE  IInv'
  <1> USE DEF bridgeVars, IInv
  <1> DEFINE f == Reply(rpc.stream)
             k == Len(wire) + 1
  <1>1. /\ DaemonInv' /\ Sends(wire, wire', f) /\ f.kind = "reply" /\ rpc.at = "due"
        /\ rpc' = [rpc EXCEPT !.at = "wired"]
        /\ UNCHANGED <<epoch, up, head, summary, pos, link, faults>>
    BY SendReplyKeepsDaemonInv
  <1>2. /\ rpc'.at = "wired" /\ rpc'.op = rpc.op /\ rpc'.stream = rpc.stream
        /\ rpc'.from = rpc.from /\ rpc'.result = rpc.result /\ rpc'.boundary = rpc.boundary
    BY <1>1, Types DEF Calls
  <1>3. rpc.stream = Workspace /\ f.stream = Workspace /\ pc \in {"call", "retry"}
    BY <1>1 DEF PlaceOK, Asked, Reply
  <1> HIDE DEF f
  <1>4. wire \in Seq(Frames)
    BY Types
  <1>5. /\ Len(wire) \in Nat /\ Len(wire') = k
        /\ \A i : PushAt(wire', i) <=> PushAt(wire, i)
        /\ \A i : ClosedAt(wire', i) <=> ClosedAt(wire, i)
        /\ \A i \in 1..Len(wire) : wire'[i] = wire[i] /\ i < k /\ i \in 1..Len(wire')
        /\ k \in 1..Len(wire') /\ wire'[k] = f
    BY <1>1, <1>4, SendsAt
  <1>6. \A i \in 1..Len(wire') : i \in 1..Len(wire) \/ i = k
    BY <1>5
  <1> HIDE DEF k
  <1>7. BridgeTypeOK'
    BY DEF BridgeTypeOK
  <1>8. PlaceOK'
    BY <1>1, <1>2, <1>3, <1>5, <1>6 DEF PlaceOK, Asked
  <1>9. NoHoles'
    <2>1. Continues(wire', Workspace, seen)
      BY <1>1, <1>4, SendsContinues DEF NoHoles
    <2>2. pos[Workspace] # -1 => Reaches(pos[Workspace], wire', Workspace, seen)
      BY <1>1, <1>4, SendsReaches DEF NoHoles
    <2> QED BY <1>1, <1>2, <2>1, <2>2 DEF NoHoles, Asked
  <1>10. Told'
    BY <1>1, <1>2, <1>5 DEF Told, ConsentOnItsWay
  <1>11. \A i \in 1..Len(wire') : PushAt(wire', i) \/ ClosedAt(wire', i) => i \in 1..Len(wire)
    BY <1>5 DEF PushAt, ClosedAt
  <1>12. OneToken'
    <2> SUFFICES ASSUME ~GivenUp PROVE OneToken'
      BY <1>1 DEF OneToken, GivenUp
    <2>1. Quiet => Quiet'
      BY <1>1, <1>5, <1>11 DEF Quiet
    <2> QED BY <1>1, <1>2, <1>3, <1>5, <1>11, <2>1 DEF OneToken, RefusalOnItsWay
  <1>13. Fresh'
    <2> SUFFICES ASSUME fellBack = "no" PROVE Fresh'
      BY DEF Fresh
    <2>1. KeepsPushes(wire, wire', Workspace)
      BY <1>1, <1>4, SendsKeepsPushes
    <2> QED BY <1>1, <1>2, <2>1, KeptNew DEF Fresh, RefusalOnItsWay
  <1> QED BY <1>1, <1>7, <1>8, <1>9, <1>10, <1>12, <1>13
-----------------------------------------------------------------------------
(* Run's steps *)

(* A new connection: nothing is on the wire, and resub is a new channel. *)
LEMMA DialKeepsIInv ==
  ASSUME IInv, Dial
  PROVE  IInv'
  <1> USE DEF IInv
  <1>1. /\ pc = "dial" /\ pc' = "open" /\ Connect /\ resub' = FALSE
        /\ UNCHANGED <<from, lastSeq, bEpoch, connected, cancelled, seen, fellBack>>
    BY DEF Dial, Goto
  <1>2. DaemonInv' /\ wire' = <<>> /\ pos' = pos /\ \A s \in Streams : pos[s] = -1
    BY <1>1, ConnectKeepsDaemonInv
  <1>3. link' = "open" /\ UNCHANGED <<epoch, summary, rpc>> /\ pos'[Workspace] = -1
    BY <1>1, <1>2, WorkspaceAssumption DEF Connect
  <1>4. ~Asked /\ ~Asked' /\ ~RefusalOnItsWay' /\ ~ConsentOnItsWay' /\ rpc.at = "idle"
    BY <1>1, <1>3 DEF PlaceOK, Asked, RefusalOnItsWay, ConsentOnItsWay
  <1>5. Len(wire') = 0 /\ 1..Len(wire') = {}
    BY <1>2, EmptySeq
  <1>6. BridgeTypeOK'
    BY <1>1 DEF BridgeTypeOK, Places
  <1>7. PlaceOK'
    BY <1>1, <1>2, <1>3, <1>4, <1>5 DEF PlaceOK, Offline
  <1>8. NoHoles'
    BY <1>1, <1>2, <1>3, <1>4, EmptyContinues DEF NoHoles
  <1>9. Told'
    BY <1>1, <1>4 DEF Told
  <1>10. OneToken'
    BY <1>1, <1>3, <1>5 DEF OneToken, Quiet
  <1>11. Fresh'
    BY <1>1, <1>3, <1>4, <1>5 DEF Fresh, AllNew
  <1> QED BY <1>2, <1>6, <1>7, <1>8, <1>9, <1>10, <1>11

(* In a new epoch nothing was relayed; in the old one the cursor stays. *)
LEMMA OpenKeepsIInv ==
  ASSUME IInv, Open
  PROVE  IInv'
  <1> USE DEF IInv, daemonVars
  <1>1. /\ pc = "open" /\ pc' = "subscribe" /\ link = "open" /\ bEpoch' = epoch
        /\ UNCHANGED <<daemonVars, from, connected, resub, cancelled>>
        /\ \/ lastSeq' = 0 /\ seen' = {} /\ fellBack' = "no"
           \/ bEpoch' = bEpoch /\ UNCHANGED <<lastSeq, seen, fellBack>>
    BY DEF Open, Goto
  <1>2. wire = <<>> /\ pos[Workspace] = -1 /\ ~resub /\ ~Asked /\ rpc.at = "idle"
    BY <1>1 DEF PlaceOK, Asked
  <1>3. Len(wire) = 0 /\ 1..Len(wire) = {}
    BY <1>2, EmptySeq
  <1>4. DaemonInv'
    BY <1>1 DEF DaemonInv, DaemonTypeOK, SummaryOK, LinkOK, RpcOK
  <1>5. BridgeTypeOK'
    <2>1. epoch \in 0..MaxEpoch /\ 0 \in 0..MaxSeq
      BY DaemonAssumption DEF DaemonInv, DaemonTypeOK
    <2> QED BY <1>1, <2>1 DEF BridgeTypeOK, Places
  <1>6. PlaceOK'
    BY <1>1, <1>2, Types DEF PlaceOK, Offline, Asked
  <1>7. NoHoles'
    <2>1. Continues(wire', Workspace, seen')
      BY <1>1, <1>2, EmptyContinues
    <2>2. 1..lastSeq' \subseteq seen' /\ \A n \in seen' : 1..n \subseteq seen'
      BY <1>1 DEF NoHoles
    <2>3. ~Asked' /\ pos'[Workspace] = -1
      BY <1>1, <1>2 DEF Asked
    <2> QED BY <2>1, <2>2, <2>3 DEF NoHoles
  <1>8. Told'
    BY <1>1, <1>2 DEF Told, ConsentOnItsWay
  <1>9. OneToken'
    BY <1>1, <1>2, <1>3 DEF OneToken, Quiet
  <1>10. Fresh'
    BY <1>1, <1>2, <1>3 DEF Fresh, RefusalOnItsWay, AllNew
  <1> QED BY <1>4, <1>5, <1>6, <1>7, <1>8, <1>9, <1>10

(* A call from where the bridge got to; c is the new lastSeq.  It asks on  *)
(* behalf of a bridge that is not subscribed, unless it was given up.      *)
LEMMA AskKeepsIInv ==
  ASSUME IInv, NEW c \in 0..MaxSeq, Request("subscribe", Workspace, c), lastSeq' = c,
         pc \in {"subscribe", "call"}, pc' \in {"call", "retry"}, from' \in 0..MaxSeq,
         UNCHANGED <<epoch, up, head, summary, pos, link, wire, faults>>,
         UNCHANGED <<bEpoch, connected, resub, cancelled, seen>>,
         fellBack' \in {fellBack, "refused", "broken"},
         1..c \subseteq seen,
         ~GivenUp' => Quiet,
         fellBack' = "no" /\ bEpoch = epoch => \A n \in seen : Ahead(n, c, summary[Workspace])
  PROVE  IInv'
  <1> USE DEF IInv
  <1>1. /\ rpc'.at = "sent" /\ rpc'.op = "subscribe" /\ rpc'.stream = Workspace
        /\ rpc'.from = c
    BY DEF Request, Idle
  <1>2. DaemonInv'
    BY CallerKeepsDaemonInv, WorkspaceAssumption
  <1>3. link # "none" /\ Asked' /\ ~RefusalOnItsWay' /\ ~ConsentOnItsWay'
    BY <1>1 DEF PlaceOK, Offline, Asked, RefusalOnItsWay, ConsentOnItsWay
  <1>4. BridgeTypeOK'
    BY DEF BridgeTypeOK, Places
  <1>5. PlaceOK'
    BY <1>1, <1>3 DEF PlaceOK, Offline
  <1>6. NoHoles'
    BY <1>1 DEF NoHoles
  <1>7. Told'
    BY <1>3 DEF Told
  <1>8. OneToken'
    <2> SUFFICES ASSUME ~GivenUp' PROVE OneToken'
      BY DEF OneToken
    <2> QED BY DEF OneToken, Quiet
  <1>9. Fresh'
    <2> SUFFICES ASSUME fellBack' = "no" PROVE Fresh'
      BY DEF Fresh
    <2>1. fellBack = "no" /\ ~GivenUp'
      BY DEF GivenUp
    <2>2. pos[Workspace] = -1 /\ \A i \in 1..Len(wire) : ~PushAt(wire, i)
      BY <2>1 DEF Quiet
    <2> QED BY <1>1, <1>3, <2>1, <2>2 DEF Fresh
  <1> QED BY <1>2, <1>4, <1>5, <1>6, <1>7, <1>8, <1>9

LEMMA SubscribeKeepsIInv ==
  ASSUME IInv, Subscribe
  PROVE  IInv'
  <1> USE DEF Subscribe, Goto, IInv
  <1>1. ~GivenUp => Quiet
    BY DEF OneToken
  <1>2. GivenUp' = GivenUp
    BY DEF GivenUp
  <1>3. 1..lastSeq \subseteq seen /\ lastSeq \in 0..MaxSeq
    BY Types DEF NoHoles
  <1>4. fellBack = "no" /\ bEpoch = epoch =>
           \A n \in seen : Ahead(n, lastSeq, summary[Workspace])
    BY DEF Fresh
  <1> QED BY <1>1, <1>2, <1>3, <1>4, AskKeepsIInv

(* The boundary is where the record that sums up the events begins. *)
LEMMA RetryAtBoundaryKeepsIInv ==
  ASSUME IInv, RetryAtBoundary
  PROVE  IInv'
  <1> USE DEF RetryAtBoundary, Retry, Goto, IInv
  <1>1. RefusalOnItsWay /\ rpc.result = "compacted"
    BY DEF Refused, RefusalOnItsWay
  <1>2. ~GivenUp => Quiet
    BY <1>1 DEF OneToken
  <1>3. GivenUp' = GivenUp
    BY DEF GivenUp
  <1>4. 1..rpc.boundary \subseteq seen
    <2>1. 1..rpc.from \subseteq seen /\ rpc.boundary < rpc.from
      BY DEF NoHoles, DaemonInv, RpcOK, Refused, Asked
    <2>2. rpc.from \in Nat /\ rpc.boundary \in Nat
      BY Types
    <2> QED BY <2>1, <2>2
  <1>5. fellBack = "no" /\ bEpoch = epoch =>
           \A n \in seen : Ahead(n, rpc.boundary, summary[Workspace])
    BY <1>1 DEF Fresh
  <1>6. rpc.boundary \in 0..MaxSeq /\ from \in 0..MaxSeq
    BY Types DEF BridgeTypeOK
  <1> QED BY <1>2, <1>3, <1>4, <1>5, <1>6, AskKeepsIInv

LEMMA RetryFromStartKeepsIInv ==
  ASSUME IInv, RetryFromStart
  PROVE  IInv'
  <1> USE DEF RetryFromStart, Retry, Goto, IInv
  <1>1. fellBack' \in {"refused", "broken"}
    OBVIOUS
  <1>2. ~GivenUp' => Quiet
    <2>1. CASE Refused
      <3>1. RefusalOnItsWay
        BY <2>1 DEF Refused, RefusalOnItsWay
      <3>2. ~GivenUp' => ~GivenUp
        BY <1>1 DEF GivenUp
      <3> QED BY <3>1, <3>2 DEF OneToken
    <2>2. CASE CallFails
      BY <1>1, <2>2 DEF CallFails, CallBroken, GivenUp
    <2> QED BY <2>1, <2>2
  <1>3. 0 \in 0..MaxSeq /\ 1..0 \subseteq seen /\ from \in 0..MaxSeq
    BY DaemonAssumption DEF BridgeTypeOK
  <1> QED BY <1>1, <1>2, <1>3, AskKeepsIInv

(* The call comes to an end. *)
LEMMA CallEndsKeepsIInv ==
  ASSUME IInv, rpc' = Idle, pc \in {"call", "retry"},
         UNCHANGED <<epoch, up, head, summary, pos, link, wire, faults>>,
         UNCHANGED <<from, lastSeq, bEpoch, resub, cancelled, seen, fellBack>>,
         connected' \in BOOLEAN,
         pc' = "close" \/ (pc' = "serve" /\ rpc.at = "answered" /\ rpc.result = "ok")
  PROVE  IInv'
  <1> USE DEF IInv
  <1>1. DaemonInv'
    BY CallerKeepsDaemonInv
  <1>2. rpc'.at = "idle" /\ ~Asked' /\ ~RefusalOnItsWay' /\ ~ConsentOnItsWay'
    BY DEF Idle, Asked, RefusalOnItsWay, ConsentOnItsWay
  <1>3. BridgeTypeOK'
    BY DEF BridgeTypeOK, Places
  <1>4. PlaceOK'
    BY <1>2 DEF PlaceOK, Offline
  <1>5. NoHoles'
    BY <1>2 DEF NoHoles
  <1>6. Told'
    BY <1>2 DEF Told, ConsentOnItsWay
  <1>7. OneToken'
    BY <1>2 DEF OneToken, GivenUp, Quiet
  <1>8. Fresh'
    BY <1>2 DEF Fresh
  <1> QED BY <1>1, <1>3, <1>4, <1>5, <1>6, <1>7, <1>8

LEMMA CallsEndKeepIInv ==
  ASSUME IInv, Subscribed \/ SubscribeFails
  PROVE  IInv'
  <1>1. CASE Subscribed
    BY <1>1, CallEndsKeepsIInv DEF Subscribed
  <1>2. CASE SubscribeFails
    <2>1. connected' \in BOOLEAN
      BY <1>2 DEF SubscribeFails, IInv, BridgeTypeOK
    <2> QED BY <1>2, <2>1, CallEndsKeepsIInv DEF SubscribeFails
  <1> QED BY <1>1, <1>2

(* The token is taken: nothing is subscribed, and no notice is left. *)
LEMMA ServeResubKeepsIInv ==
  ASSUME IInv, ServeResub
  PROVE  IInv'
  <1> USE DEF IInv, daemonVars
  <1>1. /\ pc = "serve" /\ pc' = "subscribe" /\ resub /\ resub' = FALSE
        /\ UNCHANGED <<daemonVars, from, lastSeq, bEpoch, connected, cancelled, seen, fellBack>>
    BY DEF ServeResub, Goto
  <1>2. ~Asked /\ ~Asked' /\ ~RefusalOnItsWay' /\ ~ConsentOnItsWay' /\ rpc.at = "idle"
    BY <1>1 DEF PlaceOK, Asked, RefusalOnItsWay, ConsentOnItsWay
  <1>3. DaemonInv'
    BY <1>1 DEF DaemonInv, DaemonTypeOK, SummaryOK, LinkOK, RpcOK
  <1>4. BridgeTypeOK'
    BY <1>1 DEF BridgeTypeOK, Places
  <1>5. PlaceOK'
    BY <1>1, <1>2 DEF PlaceOK, Offline
  <1>6. NoHoles'
    BY <1>1, <1>2 DEF NoHoles
  <1>7. Told'
    BY <1>1, <1>2 DEF Told
  <1>8. OneToken'
    <2> SUFFICES ASSUME ~GivenUp PROVE OneToken'
      BY <1>1 DEF OneToken, GivenUp
    <2> QED BY <1>1, <1>2 DEF OneToken, Quiet
  <1>9. Fresh'
    BY <1>1, <1>2 DEF Fresh, RefusalOnItsWay
  <1> QED BY <1>3, <1>4, <1>5, <1>6, <1>7, <1>8, <1>9

(* The deferred calls of follow. *)
LEMMA CloseKeepsIInv ==
  ASSUME IInv, Close
  PROVE  IInv'
  <1> USE DEF IInv
  <1>1. /\ pc = "close" /\ pc' = "backoff" /\ connected' = FALSE /\ Disconnect
        /\ UNCHANGED <<from, lastSeq, bEpoch, resub, cancelled, seen, fellBack>>
    BY DEF Close, Goto
  <1>2. DaemonInv'
    BY <1>1, DisconnectKeepsDaemonInv, WorkspaceAssumption
  <1>3. /\ link' = "none" /\ wire' = <<>> /\ rpc' = Idle /\ \A s \in Streams : pos'[s] = -1
        /\ UNCHANGED <<epoch, summary>>
    BY <1>1 DEF Disconnect
  <1>4. pos'[Workspace] = -1 /\ Len(wire') = 0 /\ 1..Len(wire') = {}
    BY <1>3, EmptySeq, WorkspaceAssumption
  <1>5. ~Asked' /\ ~RefusalOnItsWay' /\ ~ConsentOnItsWay' /\ rpc'.at = "idle"
    BY <1>3 DEF Idle, Asked, RefusalOnItsWay, ConsentOnItsWay
  <1>6. BridgeTypeOK'
    BY <1>1 DEF BridgeTypeOK, Places
  <1>7. PlaceOK'
    BY <1>1, <1>3, <1>4, <1>5 DEF PlaceOK, Offline
  <1>8. NoHoles'
    BY <1>1, <1>3, <1>4, <1>5, EmptyContinues DEF NoHoles
  <1>9. Told'
    BY <1>3 DEF Told
  <1>10. OneToken'
    BY <1>1, <1>3, <1>4, <1>5 DEF OneToken
  <1>11. Fresh'
    BY <1>1, <1>3, <1>4, <1>5 DEF Fresh, AllNew
  <1> QED BY <1>2, <1>6, <1>7, <1>8, <1>9, <1>10, <1>11
-----------------------------------------------------------------------------
(* The read goroutine's steps *)

(* A frame that is not a notice leaves the others one place further on. *)
LEMMA ReadKeepsTokens ==
  ASSUME IInv, Reads(wire, wire'), ~ClosedAt(wire, 1),
         rpc' = rpc \/ (rpc.at = "wired" /\ rpc' = [rpc EXCEPT !.at = "answered"]),
         UNCHANGED <<epoch, pos, link, pc, bEpoch, resub, cancelled, fellBack>>
  PROVE  PlaceOK' /\ Told' /\ OneToken'
  <1> USE DEF IInv
  <1>1. wire \in Seq(Frames) /\ rpc \in Calls
    BY Types
  <1>2. /\ Asked' <=> Asked
        /\ rpc'.op = rpc.op /\ rpc'.stream = rpc.stream
        /\ rpc'.at = "sent" <=> rpc.at = "sent"
        /\ RefusalOnItsWay' <=> RefusalOnItsWay
        /\ ConsentOnItsWay' <=> ConsentOnItsWay
    BY <1>1 DEF Calls, Asked, RefusalOnItsWay, ConsentOnItsWay
  <1>3. \A i \in 1..Len(wire') :
           /\ i + 1 \in 1..Len(wire) /\ wire'[i] = wire[i + 1]
           /\ PushAt(wire', i) <=> PushAt(wire, i + 1)
           /\ ClosedAt(wire', i) <=> ClosedAt(wire, i + 1)
    BY <1>1, ReadsAt
  <1>4. \A j : ClosedAt(wire, j) => j - 1 \in 1..Len(wire') /\ ClosedAt(wire', j - 1)
    <2> SUFFICES ASSUME NEW j, ClosedAt(wire, j)
                 PROVE  j - 1 \in 1..Len(wire') /\ ClosedAt(wire', j - 1)
      OBVIOUS
    <2>1. j \in 1..Len(wire) /\ j # 1
      BY DEF ClosedAt
    <2>2. j - 1 \in 1..Len(wire') /\ (j - 1) + 1 = j
      BY <1>1, <2>1, ReadsAt
    <2> QED BY <1>3, <2>2
  <1>5. PlaceOK'
    <2>1. pc # "open"
      BY <1>1, ReadsAt, EmptySeq DEF PlaceOK
    <2> QED BY <1>2, <1>3, <2>1 DEF PlaceOK
  <1>6. Told'
    BY <1>2, <1>4 DEF Told
  <1>7. OneToken'
    <2> SUFFICES ASSUME ~GivenUp PROVE OneToken'
      BY DEF OneToken, GivenUp
    <2>1. Quiet => Quiet'
      BY <1>3 DEF Quiet
    <2>2. ASSUME NEW i \in 1..Len(wire'), ClosedAt(wire', i)
          PROVE  /\ ~resub /\ pos[Workspace] = -1
                 /\ \A j \in 1..Len(wire') : ClosedAt(wire', j) => j = i
                 /\ \A j \in 1..Len(wire') : PushAt(wire', j) => j < i
      <3>1. /\ ~resub /\ pos[Workspace] = -1
            /\ \A j \in 1..Len(wire) : ClosedAt(wire, j) => j = i + 1
            /\ \A j \in 1..Len(wire) : PushAt(wire, j) => j < i + 1
        BY <1>3, <2>2 DEF OneToken
      <3>2. \A j \in 1..Len(wire') : (j + 1 = i + 1 => j = i) /\ (j + 1 < i + 1 => j < i)
        OBVIOUS
      <3> QED BY <1>3, <3>1, <3>2
    <2>3. resub => /\ pos[Workspace] = -1
                   /\ \A i \in 1..Len(wire') : ~PushAt(wire', i) /\ ~ClosedAt(wire', i)
      BY <1>3 DEF OneToken
    <2>4. pc \in {"open", "subscribe"} \/ rpc'.at = "sent" \/ RefusalOnItsWay' => Quiet'
      BY <1>2, <2>1 DEF OneToken
    <2>5. link = "open" /\ pos[Workspace] = -1 =>
             \A i \in 1..Len(wire') : PushAt(wire', i) =>
                 \E j \in 1..Len(wire') : ClosedAt(wire', j)
      <3> SUFFICES ASSUME link = "open", pos[Workspace] = -1,
                          NEW i \in 1..Len(wire'), PushAt(wire', i)
                   PROVE  \E j \in 1..Len(wire') : ClosedAt(wire', j)
        OBVIOUS
      <3>1. PICK j \in 1..Len(wire) : ClosedAt(wire, j)
        BY <1>3 DEF OneToken
      <3> QED BY <1>4, <3>1
    <2> QED BY <2>2, <2>3, <2>4, <2>5 DEF OneToken
  <1> QED BY <1>5, <1>6, <1>7

LEMMA OnPushKeepsIInv ==
  ASSUME IInv, OnPush
  PROVE  IInv'
  <1> USE DEF IInv
  <1> DEFINE f == wire[1]
  <1>1. /\ wire # <<>> /\ link # "none" /\ Head(wire).kind = "push" /\ wire' = Tail(wire)
        /\ lastSeq' = Head(wire).cursor
        /\ seen' = seen \cup Head(wire).first..Head(wire).cursor
        /\ UNCHANGED <<epoch, up, head, summary, pos, link, rpc, faults>>
        /\ UNCHANGED <<pc, from, bEpoch, connected, resub, cancelled, fellBack>>
    BY DEF OnPush, Incoming
  <1>2. DaemonInv' /\ Reads(wire, wire')
    BY <1>1, TakeKeepsDaemonInv
  <1>3. wire \in Seq(Frames)
    BY Types
  <1>4. Head(wire) = f /\ f \in Frames /\ 1 \in 1..Len(wire)
    BY <1>1, <1>3, TailReads
  <1>5. f.kind = "push" /\ lastSeq' = f.cursor /\ seen' = seen \cup f.first..f.cursor
    BY <1>1, <1>4
  <1>6. f.first \in Nat /\ f.cursor \in 0..MaxSeq /\ 1 <= f.first /\ f.first <= f.cursor
    BY <1>4, <1>5, DaemonAssumption DEF Frames, DaemonInv, FramesOK
  <1>7. f.stream = Workspace
    BY <1>4 DEF PlaceOK
  <1>8. PushAt(wire, 1) /\ ~ClosedAt(wire, 1)
    BY <1>4, <1>5 DEF PushAt, ClosedAt
  <1>9. Continues(wire, Workspace, seen) /\ \A n \in 1..(f.first - 1) : n \in seen
    <2>1. Continues(wire, Workspace, seen)
      BY DEF NoHoles
    <2>2. \A n \in 1..(f.first - 1) : n \in seen \/ \E j \in 1..(1 - 1) : Covers(wire[j], Workspace, n)
      BY <1>4, <1>5, <1>7, <2>1 DEF Continues
    <2> QED BY <2>1, <2>2
  <1>10. seen \subseteq seen' /\ \A n \in Int : Covers(wire[1], Workspace, n) => n \in seen'
    BY <1>5, <1>6 DEF Covers
  <1>11. \A n \in seen' : n \in seen \/ (n \in f.first..f.cursor)
    BY <1>5
  <1>12. rpc' = rpc /\ Asked' = Asked
    BY <1>1 DEF Asked
  <1>13. PlaceOK' /\ Told' /\ OneToken'
    BY <1>1, <1>2, <1>8, ReadKeepsTokens
  <1>14. BridgeTypeOK'
    <2>1. seen \subseteq 1..MaxSeq
      BY DEF BridgeTypeOK
    <2>2. f.first..f.cursor \subseteq 1..MaxSeq
      BY <1>6, DaemonAssumption
    <2> QED BY <1>1, <1>5, <1>6, <2>1, <2>2 DEF BridgeTypeOK
  <1>15. NoHoles'
    <2>1. 1..f.cursor \subseteq seen'
      BY <1>5, <1>6, <1>9
    <2>2. \A n \in seen' : 1..n \subseteq seen'
      <3> SUFFICES ASSUME NEW n \in seen' PROVE 1..n \subseteq seen'
        OBVIOUS
      <3>1. CASE n \in seen
        BY <1>10, <3>1 DEF NoHoles
      <3>2. CASE n \in f.first..f.cursor
        BY <1>6, <2>1, <3>2
      <3> QED BY <1>11, <3>1, <3>2
    <2>3. Asked => 1..rpc.from \subseteq seen'
      BY <1>10 DEF NoHoles
    <2>4. Continues(wire', Workspace, seen')
      BY <1>2, <1>3, <1>9, <1>10, ReadsContinues
    <2>5. pos[Workspace] # -1 => Reaches(pos[Workspace], wire', Workspace, seen')
      BY <1>2, <1>3, <1>10, ReadsReaches DEF NoHoles
    <2> QED BY <1>1, <1>5, <1>12, <2>1, <2>2, <2>3, <2>4, <2>5 DEF NoHoles
  <1>16. Fresh'
    <2> SUFFICES ASSUME fellBack = "no" PROVE Fresh'
      BY <1>1 DEF Fresh
    <2>1. /\ AllNew(wire, Workspace, seen) /\ seen \in SUBSET Nat
          /\ pos[Workspace] \in Int /\ summary[Workspace] \in Ranges
      BY Types DEF Fresh
    <2>2. PushOf(wire, Workspace, 1)
      BY <1>7, <1>8 DEF PushOf
    <2>3. \A n \in seen : n < f.cursor
      BY <1>4, <2>1, <2>2 DEF AllNew
    <2>4. ASSUME NEW n \in seen' PROVE n \in Nat /\ n <= f.cursor
      <3>1. n \in seen => n \in Nat /\ n < f.cursor
        BY <2>1, <2>3
      <3> QED BY <1>6, <1>11, <3>1
    <2>5. \A n \in seen' : n \in seen \/ (PushOf(wire, Workspace, 1) /\ n \in Nat /\ n <= wire[1].cursor)
      BY <2>2, <2>4
    <2>6. ~(rpc.at = "sent" \/ RefusalOnItsWay)
      BY <1>4, <1>8 DEF OneToken, GivenUp, Quiet
    <2>7. \A n \in seen' : Ahead(n, f.cursor, summary[Workspace])
      BY <1>6, <2>4 DEF Ahead
    <2>8. AllNew(wire', Workspace, seen')
          /\ (StaysNew(wire, Workspace, seen, pos[Workspace], summary[Workspace]) =>
                StaysNew(wire', Workspace, seen', pos[Workspace], summary[Workspace]))
      BY <1>2, <1>3, <2>1, <2>5, ReadNew
    <2>9. RefusalOnItsWay' = RefusalOnItsWay
      BY <1>1 DEF RefusalOnItsWay
    <2> QED BY <1>1, <1>5, <2>6, <2>7, <2>8, <2>9 DEF Fresh
  <1> QED BY <1>2, <1>13, <1>14, <1>15, <1>16

(* The notice was the last thing that the subscription sent. *)
LEMMA OnClosedKeepsIInv ==
  ASSUME IInv, OnClosed
  PROVE  IInv'
  <1> USE DEF IInv
  <1>1. /\ wire # <<>> /\ link # "none" /\ Head(wire).kind = "closed" /\ wire' = Tail(wire)
        /\ resub' = TRUE
        /\ UNCHANGED <<epoch, up, head, summary, pos, link, rpc, faults>>
        /\ UNCHANGED <<pc, from, lastSeq, bEpoch, connected, cancelled, seen, fellBack>>
    BY DEF OnClosed, Incoming
  <1>2. DaemonInv' /\ Reads(wire, wire')
    BY <1>1, TakeKeepsDaemonInv
  <1>3. wire \in Seq(Frames)
    BY Types
  <1>4. Head(wire) = wire[1] /\ 1 \in 1..Len(wire)
    BY <1>1, <1>3, TailReads
  <1>5. ClosedAt(wire, 1)
    BY <1>1, <1>4 DEF ClosedAt
  <1>6. \A i \in 1..Len(wire') :
           /\ i + 1 \in 1..Len(wire) /\ wire'[i] = wire[i + 1] /\ 1 < i + 1
           /\ PushAt(wire', i) <=> PushAt(wire, i + 1)
           /\ ClosedAt(wire', i) <=> ClosedAt(wire, i + 1)
    BY <1>2, <1>3, ReadsAt
  <1>7. \A n \in Int : ~Covers(wire[1], Workspace, n)
    BY <1>1, <1>4 DEF Covers
  <1>8. UNCHANGED <<Asked, RefusalOnItsWay, ConsentOnItsWay, GivenUp>>
    BY <1>1 DEF Asked, RefusalOnItsWay, ConsentOnItsWay, GivenUp
  <1>9. BridgeTypeOK'
    BY <1>1 DEF BridgeTypeOK
  <1>10. PlaceOK'
    <2>1. pc # "open"
      BY <1>1 DEF PlaceOK
    <2> QED BY <1>1, <1>6, <1>8, <2>1 DEF PlaceOK
  <1>11. NoHoles'
    <2>1. Continues(wire', Workspace, seen)
      BY <1>2, <1>3, <1>7, ReadsContinues DEF NoHoles
    <2>2. pos[Workspace] # -1 => Reaches(pos[Workspace], wire', Workspace, seen)
      BY <1>2, <1>3, <1>7, ReadsReaches DEF NoHoles
    <2> QED BY <1>1, <1>8, <2>1, <2>2 DEF NoHoles
  <1>12. Told'
    BY <1>1 DEF Told
  <1>13. OneToken'
    <2> SUFFICES ASSUME ~GivenUp PROVE OneToken'
      BY <1>8 DEF OneToken
    <2>1. /\ pos[Workspace] = -1
          /\ \A j \in 1..Len(wire) : ClosedAt(wire, j) => j = 1
          /\ \A j \in 1..Len(wire) : PushAt(wire, j) => j < 1
      BY <1>4, <1>5 DEF OneToken
    <2>2. \A i \in 1..Len(wire') : ~PushAt(wire', i) /\ ~ClosedAt(wire', i)
      BY <1>6, <2>1
    <2>3. ~(pc \in {"open", "subscribe"} \/ rpc.at = "sent" \/ RefusalOnItsWay)
      BY <1>4, <1>5 DEF OneToken, Quiet
    <2> QED BY <1>1, <1>8, <2>1, <2>2, <2>3 DEF OneToken
  <1>14. Fresh'
    <2> SUFFICES ASSUME fellBack = "no" PROVE Fresh'
      BY <1>1 DEF Fresh
    <2>1. AllNew(wire, Workspace, seen) /\ seen \in SUBSET Nat
          /\ pos[Workspace] \in Int /\ summary[Workspace] \in Ranges
      BY Types DEF Fresh
    <2>2. /\ AllNew(wire', Workspace, seen)
          /\ StaysNew(wire, Workspace, seen, pos[Workspace], summary[Workspace]) =>
                StaysNew(wire', Workspace, seen, pos[Workspace], summary[Workspace])
      BY <1>2, <1>3, <2>1, ReadNew
    <2> QED BY <1>1, <1>8, <2>2 DEF Fresh
  <1> QED BY <1>2, <1>9, <1>10, <1>11, <1>12, <1>13, <1>14

LEMMA OnReplyKeepsIInv ==
  ASSUME IInv, OnReply
  PROVE  IInv'
  <1> USE DEF IInv, bridgeVars
  <1>1. /\ ReadReply /\ wire # <<>> /\ Head(wire).kind = "reply"
        /\ UNCHANGED <<epoch, up, head, summary, pos, link, faults>>
        /\ UNCHANGED bridgeVars
    BY DEF OnReply, ReadReply, Incoming
  <1>2. /\ DaemonInv' /\ Reads(wire, wire')
        /\ rpc' = rpc \/ (rpc.at = "wired" /\ rpc' = [rpc EXCEPT !.at = "answered"])
    BY <1>1, ReadReplyKeepsDaemonInv
  <1>3. wire \in Seq(Frames) /\ rpc \in Calls
    BY Types
  <1>4. Head(wire) = wire[1]
    BY <1>1, <1>3, TailReads
  <1>5. ~ClosedAt(wire, 1) /\ \A n \in Int : ~Covers(wire[1], Workspace, n)
    BY <1>1, <1>4 DEF ClosedAt, Covers
  <1>6. /\ Asked' <=> Asked
        /\ rpc'.from = rpc.from /\ rpc'.result = rpc.result /\ rpc'.boundary = rpc.boundary
        /\ rpc'.at = "sent" <=> rpc.at = "sent"
        /\ RefusalOnItsWay' <=> RefusalOnItsWay
    BY <1>2, <1>3 DEF Calls, Asked, RefusalOnItsWay
  <1>7. \A i \in 1..Len(wire') :
           /\ i + 1 \in 1..Len(wire) /\ wire'[i] = wire[i + 1] /\ 1 < i + 1
           /\ PushAt(wire', i) <=> PushAt(wire, i + 1)
    BY <1>2, <1>3, ReadsAt
  <1>8. BridgeTypeOK'
    BY <1>1 DEF BridgeTypeOK
  <1>9. PlaceOK' /\ Told' /\ OneToken'
    BY <1>1, <1>2, <1>5, ReadKeepsTokens
  <1>10. NoHoles'
    <2>1. Continues(wire', Workspace, seen)
      BY <1>2, <1>3, <1>5, ReadsContinues DEF NoHoles
    <2>2. pos[Workspace] # -1 => Reaches(pos[Workspace], wire', Workspace, seen)
      BY <1>2, <1>3, <1>5, ReadsReaches DEF NoHoles
    <2> QED BY <1>1, <1>6, <2>1, <2>2 DEF NoHoles
  <1>11. Fresh'
    <2> SUFFICES ASSUME fellBack = "no" PROVE Fresh'
      BY <1>1 DEF Fresh
    <2>1. AllNew(wire, Workspace, seen) /\ seen \in SUBSET Nat
          /\ pos[Workspace] \in Int /\ summary[Workspace] \in Ranges
      BY Types DEF Fresh
    <2>2. /\ AllNew(wire', Workspace, seen)
          /\ StaysNew(wire, Workspace, seen, pos[Workspace], summary[Workspace]) =>
                StaysNew(wire', Workspace, seen, pos[Workspace], summary[Workspace])
      BY <1>2, <1>3, <2>1, ReadNew
    <2> QED BY <1>1, <1>6, <2>2 DEF Fresh
  <1> QED BY <1>2, <1>8, <1>9, <1>10, <1>11
-----------------------------------------------------------------------------
LEMMA EnvironmentKeepsIInv ==
  ASSUME IInv, Environment
  PROVE  IInv'
  <1>1. ~HandleUnsubscribe
    BY DEF IInv, PlaceOK, Asked, HandleUnsubscribe
  <1> QED BY <1>1, EmitRestartKeepIInv, CompactKeepsIInv, CutKeepsIInv, PushNextKeepsIInv,
             CloseSubscriptionKeepsIInv, HandleSubscribeKeepsIInv,
             HandleSecondSubscribeKeepsIInv, RefuseKeepsIInv, SendReplyKeepsIInv
          DEF Environment, DaemonStep

LEMMA IInvStep ==
  ASSUME IInv, [Next]_vars
  PROVE  IInv'
  <1>1. CASE Run
    BY <1>1, DialKeepsIInv, MovesKeepIInv, OpenKeepsIInv, SubscribeKeepsIInv,
       CallsEndKeepIInv, RetryAtBoundaryKeepsIInv, RetryFromStartKeepsIInv,
       ServeResubKeepsIInv, CloseKeepsIInv
       DEF Run
  <1>2. CASE Reader
    BY <1>2, OnPushKeepsIInv, OnClosedKeepsIInv, OnReplyKeepsIInv DEF Reader
  <1>3. CASE Environment
    BY <1>3, EnvironmentKeepsIInv
  <1>4. CASE Cancel
    BY <1>4, MovesKeepIInv
  <1>5. CASE UNCHANGED vars
    <2>1. cancelled' \in {cancelled, TRUE}
      BY <1>5 DEF vars, bridgeVars
    <2> QED BY <1>5, <2>1, MoveKeepsIInv DEF vars, bridgeVars
  <1> QED BY <1>1, <1>2, <1>3, <1>4, <1>5 DEF Next

LEMMA InductiveInvariant == Spec => []IInv
  <1>1. Init => IInv
    BY IInvInit
  <1>2. IInv /\ [Next]_vars => IInv'
    BY IInvStep
  <1> QED BY <1>1, <1>2, PTL DEF Spec
-----------------------------------------------------------------------------
(* Every variable of the bridge, of the daemon and of the connection keeps *)
(* its type: lastSeq is the number of an event, and a call to the daemon   *)
(* has an answer with the boundary of a range it sums up.                  *)
THEOREM TypeCorrect == Spec => []TypeOK
  <1>1. IInv => TypeOK
    BY DEF IInv, DaemonInv, BridgeTypeOK, TypeOK
  <1> QED BY <1>1, InductiveInvariant, PTL

(* onNotify stores lastSeq with the event it hands to the hub, and         *)
(* subscribe resumes from there, from a boundary or from 0.  Whatever the  *)
(* daemon and the connection do, the cursor is never ahead of what was     *)
(* relayed, and what was relayed has no holes.                             *)
THEOREM ResumesWithoutHoles == Spec => []NothingSkipped
  <1>1. IInv => NothingSkipped
    BY DEF IInv, NoHoles, NothingSkipped
  <1> QED BY <1>1, InductiveInvariant, PTL

(* The token of resub and the notice events.subscription.closed are enough *)
(* for follow to know: in its select on a live connection it is            *)
(* subscribed, or it will be told; and it does not subscribe a second time *)
(* while it is subscribed.                                                 *)
THEOREM SubscribesExactlyWhenNeeded == Spec => []ResubExact
  <1>1. IInv => ResubNotLost
    <2> SUFFICES ASSUME IInv, pc = "serve", link = "open", pos[Workspace] = -1, ~resub
                 PROVE  \E i \in DOMAIN wire : wire[i].kind = "closed"
      BY DEF ResubNotLost
    <2>1. PICK i \in 1..Len(wire) : ClosedAt(wire, i)
      BY DEF IInv, Told
    <2>2. DOMAIN wire = 1..Len(wire)
      BY Types, LenProperties
    <2> QED BY <2>1, <2>2 DEF ClosedAt
  <1>2. IInv => NoSecondSubscribe
    BY DEF IInv, OneToken, GivenUp, Quiet, NoSecondSubscribe
  <1>3. IInv => ResubExact
    BY <1>1, <1>2 DEF ResubExact
  <1> QED BY <1>3, InductiveInvariant, PTL

(* The record that onNotify takes off the wire brings an event that was    *)
(* not relayed before, unless subscribe has fallen back to asking for      *)
(* everything: a cursor that is resumed, a boundary and a summary repeat   *)
(* nothing.                                                                *)
THEOREM NothingRepeatedWithoutFallback == Spec => ReplayOnlyAfterFallback
  <1>1. ASSUME IInv, Replays PROVE fellBack # "no"
    <2> SUFFICES ASSUME fellBack = "no" PROVE FALSE
      OBVIOUS
    <2>1. /\ wire # <<>> /\ Head(wire).kind = "push"
          /\ Head(wire).first..Head(wire).cursor \subseteq seen
      BY <1>1 DEF Replays, OnPush, Incoming
    <2>2. wire \in Seq(Frames) /\ seen \subseteq Nat
      BY <1>1, Types
    <2>3. Head(wire) = wire[1] /\ wire[1] \in Frames /\ 1 \in 1..Len(wire)
      BY <2>1, <2>2, TailReads
    <2>4. PushOf(wire, Workspace, 1)
      BY <1>1, <2>1, <2>3 DEF PushOf, PushAt, IInv, PlaceOK
    <2>5. /\ wire[1].first \in Nat /\ wire[1].cursor \in Nat
          /\ wire[1].first <= wire[1].cursor
      BY <1>1, <2>1, <2>3, DaemonAssumption DEF Frames, IInv, DaemonInv, FramesOK
    <2>6. wire[1].cursor \in seen
      BY <2>1, <2>3, <2>5
    <2>7. wire[1].cursor < wire[1].cursor
      BY <1>1, <2>3, <2>4, <2>6 DEF IInv, Fresh, AllNew
    <2> QED BY <2>5, <2>7
  <1>2. IInv /\ [Next]_vars => [Replays => fellBack # "no"]_vars
    BY <1>1
  <1> QED BY <1>2, InductiveInvariant, PTL DEF Spec, ReplayOnlyAfterFallback
=============================================================================
