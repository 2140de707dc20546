-------------------------------- MODULE Bridge --------------------------------
(***************************************************************************)
(* internal/bridge/bridge.go: the follower of the workspace stream.        *)
(*                                                                         *)
(* Two goroutines share the cursor lastSeq and the channel resub: Run,     *)
(* whose place is pc, and the read goroutine of the current connection,    *)
(* which calls onNotify.  A connection is dialed, used and closed inside   *)
(* one call of follow, and so is its resub channel.                        *)
(*                                                                         *)
(* seen, fellBack record what was relayed to the hub and how.              *)
(***************************************************************************)
EXTENDS Daemon

CONSTANT Workspace  \* the stream of the launch directory's workspace

ASSUME WorkspaceAssumption == Workspace \in Streams

VARIABLES
    pc,         \* where Run is
    from,       \* local variable of subscribe
    lastSeq,    \* Bridge.lastSeq
    bEpoch,     \* Bridge.epoch, 0 for the empty string
    connected,  \* Bridge.connected
    resub,      \* the channel resub holds its token
    cancelled,  \* the context of Run is done
    seen,       \* the events of epoch bEpoch relayed, one by one or summed up
    fellBack    \* why lastSeq last went back to 0 in this epoch, "no" if it did not

bridgeVars == <<pc, from, lastSeq, bEpoch, connected, resub, cancelled, seen, fellBack>>
vars == <<daemonVars, bridgeVars>>

Places == {"dial", "open", "subscribe", "call", "retry", "serve", "close", "backoff", "done"}

TypeOK ==
    /\ DaemonTypeOK
    /\ pc \in Places
    /\ from \in 0..MaxSeq
    /\ lastSeq \in 0..MaxSeq
    /\ bEpoch \in 0..MaxEpoch
    /\ connected \in BOOLEAN
    /\ resub \in BOOLEAN
    /\ cancelled \in BOOLEAN
    /\ seen \subseteq 1..MaxSeq
    /\ fellBack \in {"no", "refused", "broken"}

Init ==
    /\ DaemonInit
    /\ pc = "dial"
    /\ from = 0
    /\ lastSeq = 0
    /\ bEpoch = 0
    /\ connected = FALSE
    /\ resub = FALSE
    /\ cancelled = FALSE
    /\ seen = {}
    /\ fellBack = "no"

Goto(p, q) == pc = p /\ pc' = q

-----------------------------------------------------------------------------
(* Run and follow *)

(* Mutant of Dial: resub lives as long as the Bridge. *)
DialKeepsResub ==
    /\ Goto("dial", "open")
    /\ Connect
    /\ UNCHANGED <<from, lastSeq, bEpoch, connected, resub, cancelled, seen, fellBack>>

(* follow makes a resub channel and dials. *)
Dial ==
    /\ Goto("dial", "open")
    /\ Connect
    /\ resub' = FALSE
    /\ UNCHANGED <<from, lastSeq, bEpoch, connected, cancelled, seen, fellBack>>

(* No daemon, or the context is done: follow returns the error. *)
DialFails ==
    /\ Goto("dial", "backoff")
    /\ ~up \/ cancelled
    /\ UNCHANGED <<daemonVars, from, lastSeq, bEpoch, connected, resub, cancelled, seen, fellBack>>

(* Mutant of Open: a new epoch keeps the cursor. *)
OpenKeepsCursor ==
    /\ Goto("open", "subscribe")
    /\ link = "open"
    /\ bEpoch' = epoch
    /\ IF epoch # bEpoch
       THEN seen' = {} /\ fellBack' = "no"
       ELSE UNCHANGED <<seen, fellBack>>
    /\ UNCHANGED <<daemonVars, from, lastSeq, connected, resub, cancelled>>

(* workspace.open tells the epoch; a new one starts from nothing. *)
Open ==
    /\ Goto("open", "subscribe")
    /\ link = "open"
    /\ bEpoch' = epoch
    /\ IF epoch # bEpoch
       THEN lastSeq' = 0 /\ seen' = {} /\ fellBack' = "no"
       ELSE UNCHANGED <<lastSeq, seen, fellBack>>
    /\ UNCHANGED <<daemonVars, from, connected, resub, cancelled>>

OpenFails ==
    /\ Goto("open", "close")
    /\ link = "broken" \/ cancelled
    /\ UNCHANGED <<daemonVars, from, lastSeq, bEpoch, connected, resub, cancelled, seen, fellBack>>

(* subscribe reads the cursor and calls events.subscribe. *)
Subscribe ==
    /\ Goto("subscribe", "call")
    /\ from' = lastSeq
    /\ Request("subscribe", Workspace, lastSeq)
    /\ UNCHANGED <<epoch, up, head, summary, pos, link, wire, faults>>
    /\ UNCHANGED <<lastSeq, bEpoch, connected, resub, cancelled, seen, fellBack>>

(* The call returns nil: follow is, or stays, in its select. *)
Subscribed ==
    /\ pc \in {"call", "retry"}
    /\ rpc.at = "answered" /\ rpc.result = "ok"
    /\ pc' = "serve"
    /\ rpc' = Idle
    /\ connected' = TRUE
    /\ UNCHANGED <<epoch, up, head, summary, pos, link, wire, faults>>
    /\ UNCHANGED <<from, lastSeq, bEpoch, resub, cancelled, seen, fellBack>>

CallFails == CallBroken \/ cancelled
Refused == rpc.at = "answered" /\ rpc.result # "ok"

(* Mutant of SubscribeFails: Run gives up. *)
SubscribeFailsForGood ==
    /\ pc = "retry" \/ (pc = "call" /\ from = 0)
    /\ Refused \/ CallFails
    /\ pc' = "done"
    /\ rpc' = Idle
    /\ UNCHANGED <<epoch, up, head, summary, pos, link, wire, faults>>
    /\ UNCHANGED <<from, lastSeq, bEpoch, connected, resub, cancelled, seen, fellBack>>

(* The error of a call that asked for everything, or of a second call, is  *)
(* follow's.                                                               *)
SubscribeFails ==
    /\ pc = "retry" \/ (pc = "call" /\ from = 0)
    /\ Refused \/ CallFails
    /\ pc' = "close"
    /\ rpc' = Idle
    /\ UNCHANGED <<epoch, up, head, summary, pos, link, wire, faults>>
    /\ UNCHANGED <<from, lastSeq, bEpoch, connected, resub, cancelled, seen, fellBack>>

(* The cursor moves to resume and the call is made once more. *)
Retry(resume) ==
    /\ Goto("call", "retry")
    /\ from # 0
    /\ lastSeq' = resume
    /\ Request("subscribe", Workspace, resume)
    /\ UNCHANGED <<epoch, up, head, summary, pos, link, wire, faults>>
    /\ UNCHANGED <<from, bEpoch, connected, resub, cancelled, seen>>

RetryAtBoundary ==
    /\ Refused /\ rpc.result = "compacted"
    /\ Retry(rpc.boundary)
    /\ UNCHANGED fellBack

(* Any other error, that of a broken connection included, and a compacted  *)
(* cursor whose boundary cannot be decoded.                                *)
RetryFromStart ==
    /\ \/ Refused /\ fellBack' = "refused"
       \/ CallFails /\ fellBack' = "broken"
    /\ Retry(0)

(* The cases of follow's select. *)
ServeEnds ==
    /\ Goto("serve", "close")
    /\ cancelled \/ Done
    /\ UNCHANGED <<daemonVars, from, lastSeq, bEpoch, connected, resub, cancelled, seen, fellBack>>

ServeResub ==
    /\ Goto("serve", "subscribe")
    /\ resub
    /\ resub' = FALSE
    /\ UNCHANGED <<daemonVars, from, lastSeq, bEpoch, connected, cancelled, seen, fellBack>>

(* Mutant of Close: connected is not cleared. *)
CloseKeepsConnected ==
    /\ Goto("close", "backoff")
    /\ Disconnect
    /\ UNCHANGED <<from, lastSeq, bEpoch, connected, resub, cancelled, seen, fellBack>>

(* The deferred calls: connected is cleared, the connection closed. *)
Close ==
    /\ Goto("close", "backoff")
    /\ connected' = FALSE
    /\ Disconnect
    /\ UNCHANGED <<from, lastSeq, bEpoch, resub, cancelled, seen, fellBack>>

(* Mutant of Backoff: the loop does not look at the context. *)
BackoffForever ==
    /\ Goto("backoff", "dial")
    /\ UNCHANGED <<daemonVars, from, lastSeq, bEpoch, connected, resub, cancelled, seen, fellBack>>

(* Run sleeps, then goes round again unless the context is done. *)
Backoff ==
    /\ Goto("backoff", "dial")
    /\ ~cancelled
    /\ UNCHANGED <<daemonVars, from, lastSeq, bEpoch, connected, resub, cancelled, seen, fellBack>>

RunEnds ==
    /\ Goto("backoff", "done")
    /\ cancelled
    /\ UNCHANGED <<daemonVars, from, lastSeq, bEpoch, connected, resub, cancelled, seen, fellBack>>

-----------------------------------------------------------------------------
(* onNotify, on the read goroutine *)

(* Mutants of OnPush: the cursor is the next number; it is the number of   *)
(* the record instead of the end of its range.                             *)
OnPushNext ==
    /\ Incoming("push")
    /\ wire' = Tail(wire)
    /\ LET f == Head(wire)
       IN  /\ lastSeq' = f.cursor + 1
           /\ seen' = seen \cup f.first..f.cursor
    /\ UNCHANGED <<epoch, up, head, summary, pos, link, rpc, faults>>
    /\ UNCHANGED <<pc, from, bEpoch, connected, resub, cancelled, fellBack>>
OnPushSeq ==
    /\ Incoming("push")
    /\ wire' = Tail(wire)
    /\ LET f == Head(wire)
       IN  /\ lastSeq' = f.first
           /\ seen' = seen \cup f.first..f.cursor
    /\ UNCHANGED <<epoch, up, head, summary, pos, link, rpc, faults>>
    /\ UNCHANGED <<pc, from, bEpoch, connected, resub, cancelled, fellBack>>

(* The cursor is stored before the event is broadcast; nothing reads the   *)
(* one without the other being sure to follow, so this is one step.        *)
OnPush ==
    /\ Incoming("push")
    /\ wire' = Tail(wire)
    /\ LET f == Head(wire)
       IN  /\ lastSeq' = f.cursor
           /\ seen' = seen \cup f.first..f.cursor
    /\ UNCHANGED <<epoch, up, head, summary, pos, link, rpc, faults>>
    /\ UNCHANGED <<pc, from, bEpoch, connected, resub, cancelled, fellBack>>

(* Mutant of OnClosed: the notice counts only once follow is connected. *)
OnClosedWhenConnected ==
    /\ Incoming("closed")
    /\ wire' = Tail(wire)
    /\ resub' = (resub \/ connected)
    /\ UNCHANGED <<epoch, up, head, summary, pos, link, rpc, faults>>
    /\ UNCHANGED <<pc, from, lastSeq, bEpoch, connected, cancelled, seen, fellBack>>

(* A send that does not block: a token that is there stays the only one. *)
OnClosed ==
    /\ Incoming("closed")
    /\ wire' = Tail(wire)
    /\ resub' = TRUE
    /\ UNCHANGED <<epoch, up, head, summary, pos, link, rpc, faults>>
    /\ UNCHANGED <<pc, from, lastSeq, bEpoch, connected, cancelled, seen, fellBack>>

OnReply == ReadReply /\ UNCHANGED bridgeVars

(* main cancels the context when the window closes. *)
Cancel ==
    /\ ~cancelled
    /\ cancelled' = TRUE
    /\ UNCHANGED <<daemonVars, pc, from, lastSeq, bEpoch, connected, resub, seen, fellBack>>

-----------------------------------------------------------------------------
Run ==
    \/ Dial \/ DialFails \/ Open \/ OpenFails
    \/ Subscribe \/ Subscribed \/ SubscribeFails \/ RetryAtBoundary \/ RetryFromStart
    \/ ServeEnds \/ ServeResub \/ Close \/ Backoff \/ RunEnds

Reader == OnPush \/ OnClosed \/ OnReply

Environment == DaemonStep /\ UNCHANGED bridgeVars

Next == Run \/ Reader \/ Environment \/ Cancel

Spec == Init /\ [][Next]_vars

(* Goroutines keep running, the read loop reads what is there, a sleep and *)
(* a dial come to an end.                                                  *)
FairSpec == Spec /\ DaemonFairness /\ WF_vars(Run) /\ WF_vars(Reader)

-----------------------------------------------------------------------------
(* Properties *)

(* The cursor never runs ahead of what was relayed, and what was relayed   *)
(* has no holes: whatever sequence of closed subscriptions, compactions,   *)
(* lost connections and daemon restarts happens, resuming from lastSeq     *)
(* skips no event of the epoch.                                            *)
NothingSkipped ==
    /\ 1..lastSeq \subseteq seen
    /\ \A n \in seen : 1..n \subseteq seen

(* Subscriptions are made again exactly when they must.  One that ended is *)
(* noticed: while follow is in its select on a live connection it is       *)
(* subscribed, or the notice is on its way, or the token to subscribe      *)
(* again is in resub.  And none is asked for while there is one: a token   *)
(* in resub is never older than the subscription that is active.  (Once    *)
(* the context is done the first call may have been given up after it      *)
(* succeeded.)                                                             *)
ResubNotLost ==
    pc = "serve" /\ link = "open" =>
        \/ pos[Workspace] # -1
        \/ \E i \in DOMAIN wire : wire[i].kind = "closed"
        \/ resub
NoSecondSubscribe ==
    link = "open" /\ rpc.at = "sent" => pos[Workspace] = -1 \/ cancelled
ResubExact == ResubNotLost /\ NoSecondSubscribe

(* The record at the head of the wire says nothing new. *)
Replays == OnPush /\ Head(wire).first..Head(wire).cursor \subseteq seen

(* Only the fallback to a full replay repeats what was relayed: a resumed  *)
(* cursor, at a boundary or after a summary, never does.                   *)
ReplayOnlyAfterFallback == [][Replays => fellBack # "no"]_vars

(* The doc of type Bridge: the cursor is resumed across reconnects, so     *)
(* events are not replayed into the browser log.  The documented exception *)
(* is a cursor that the daemon refuses.                                    *)
ReplayOnlyAfterRefusal == [][Replays => fellBack = "refused" \/ cancelled]_vars

(* Every event gets to the hub, unless the daemon loses it with its epoch: *)
(* however often the bridge falls behind or is cut off, it catches up with *)
(* the daemon.                                                             *)
EveryEventRelayed ==
    []<>((bEpoch = epoch /\ 1..head[Workspace] \subseteq seen) \/ cancelled)

(* ConnIndicator, as /status renders it at this moment. *)
ConnIndicator == IF connected THEN "connected" ELSE "reconnecting"

(* The titlebar follows: it does not go on saying connected after the      *)
(* connection broke, and the bridge recovers from every failure of the     *)
(* daemon or its connection.                                               *)
IndicatorFollows ==
    /\ link = "broken" ~> ConnIndicator = "reconnecting"
    /\ []<>(ConnIndicator = "connected" \/ cancelled)

(* Run returns after the context is cancelled, with nothing left open. *)
Terminates == cancelled ~> pc = "done" /\ link = "none" /\ ~connected
=============================================================================
