------------------------------- MODULE Timeline -------------------------------
(***************************************************************************)
(* internal/timeline/timeline.go: the follower of one session's stream.    *)
(*                                                                         *)
(* As in Bridge, the goroutine of Run (its place is pc) and the read       *)
(* goroutine of the current connection (onNotify) share the cursor and the *)
(* channel resub; here they also share, under the mutex t.mu, the stream   *)
(* that is followed and what was folded from its events: the usage, the    *)
(* tool calls and the coalescer's buffer.  A section under t.mu is one     *)
(* step.  A third party, the handler of /select, calls Select.             *)
(*                                                                         *)
(* A session is named by its stream.  panel is the timeline of a browser   *)
(* that got every frame: the events shown since the last clearFrame.  It   *)
(* and fellBack only record what happened.                                 *)
(***************************************************************************)
EXTENDS Daemon

CONSTANTS
    None,       \* no session
    Late,       \* bound: the sessions that may start late
    Passing,    \* bound: the sessions that may end
    MaxSelects  \* bound: how often the user selects a session

ASSUME TimelineAssumption ==
    /\ Streams # {} /\ None \notin Streams
    /\ Late \cup Passing \subseteq Streams /\ MaxSelects \in Nat

VARIABLES
    listed,     \* the sessions that session.list lists (external)
    over,       \* the sessions that are no longer listed (external)
    pc,         \* where Run is
    wsEpoch,    \* local variable ws.DaemonEpoch of follow
    listing,    \* local variable res of pick
    prev,       \* local variable of follow
    from,       \* local variable of subscribe
    stream,     \* Timeline.stream
    tEpoch,     \* Timeline.epoch, 0 for the empty string
    lastSeq,    \* Timeline.lastSeq
    folded,     \* the events behind Timeline.usage, tools and coal
    selected,   \* Timeline.selected
    current,    \* Timeline.current
    switch,     \* the channel switchCh holds its token
    resub,      \* the channel resub holds its token
    cancelled,  \* the context of Run is done
    selects,    \* how often Select was called
    panel,      \* the events shown since the last clear
    fellBack    \* why events of the stream may come again, "no" if not

sessionVars == <<listed, over>>
localVars == <<wsEpoch, listing, prev, from>>
streamVars == <<stream, tEpoch, lastSeq, folded>>
signalVars == <<selected, switch, resub, cancelled, selects>>
historyVars == <<panel, fellBack>>
timelineVars == <<sessionVars, pc, localVars, streamVars, current, signalVars, historyVars>>
vars == <<daemonVars, timelineVars>>

Session == Streams \cup {None}

(* An event, named by its stream, epoch and number. *)
Events == Streams \X (1..MaxEpoch) \X (1..MaxSeq)
Places ==
    {"dial", "open", "list", "pick", "wait", "clear", "unsubscribe", "uncall",
     "subscribe", "call", "retry", "serve", "close", "backoff", "done"}

TypeOK ==
    /\ DaemonTypeOK
    /\ listed \subseteq Streams
    /\ over \subseteq Streams
    /\ pc \in Places
    /\ wsEpoch \in 0..MaxEpoch
    /\ listing \subseteq Streams
    /\ {prev, stream, selected, current} \subseteq Session
    /\ from \in 0..MaxSeq
    /\ tEpoch \in 0..MaxEpoch
    /\ lastSeq \in 0..MaxSeq
    /\ folded \subseteq Events
    /\ panel \subseteq Events
    /\ {switch, resub, cancelled} \subseteq BOOLEAN
    /\ selects \in 0..MaxSelects
    /\ fellBack \in {"no", "overlap", "refused", "broken"}

Init ==
    /\ DaemonInit
    /\ \E late \in SUBSET Late : listed = Streams \ late
    /\ over = {}
    /\ pc = "dial"
    /\ wsEpoch = 0
    /\ listing = {}
    /\ prev = None
    /\ from = 0
    /\ stream = None
    /\ tEpoch = 0
    /\ lastSeq = 0
    /\ folded = {}
    /\ selected = None
    /\ current = None
    /\ switch = FALSE
    /\ resub = FALSE
    /\ cancelled = FALSE
    /\ selects = 0
    /\ panel = {}
    /\ fellBack = "no"

Goto(p, q) == pc = p /\ pc' = q

(* What a Call that is not about streams leaves alone. *)
OnlyRpc == UNCHANGED <<epoch, up, head, summary, pos, link, wire, faults>>

-----------------------------------------------------------------------------
(* Run and follow *)

(* follow makes a resub channel and dials. *)
Dial ==
    /\ Goto("dial", "open")
    /\ Connect
    /\ resub' = FALSE
    /\ UNCHANGED <<sessionVars, localVars, streamVars, current, selected, switch,
                   cancelled, selects, historyVars>>

DialFails ==
    /\ Goto("dial", "backoff")
    /\ ~up \/ cancelled
    /\ UNCHANGED <<daemonVars, sessionVars, localVars, streamVars, current, signalVars,
                   historyVars>>

(* workspace.open *)
Open ==
    /\ Goto("open", "list")
    /\ link = "open"
    /\ wsEpoch' = epoch
    /\ UNCHANGED <<daemonVars, sessionVars, listing, prev, from, streamVars, current,
                   signalVars, historyVars>>

(* pick's session.list, daemon-wide. *)
List ==
    /\ Goto("list", "pick")
    /\ link = "open"
    /\ ~cancelled
    /\ listing' = listed
    /\ UNCHANGED <<daemonVars, sessionVars, wsEpoch, prev, from, streamVars, current,
                   signalVars, historyVars>>

(* workspace.open or session.list fails, or the loop's condition does. *)
OpenOrListFails ==
    /\ pc \in {"open", "list"}
    /\ pc' = "close"
    /\ link = "broken" \/ cancelled
    /\ UNCHANGED <<daemonVars, sessionVars, localVars, streamVars, current, signalVars,
                   historyVars>>

(* pick's choice.  Which sessions run, and in which order they are listed, *)
(* is the daemon's affair: without a listed selection any may be chosen.   *)
Choices == IF selected \in listing THEN {selected} ELSE listing

(* Mutants of Pick: the cursor survives a switch; a new epoch is not a     *)
(* change.                                                                 *)
PickKeepsCursor ==
    /\ pc = "pick"
    /\ \E s \in Choices :
          /\ prev' = stream
          /\ current' = s
          /\ IF s = stream /\ wsEpoch = tEpoch
             THEN pc' = "subscribe" /\ UNCHANGED <<streamVars, fellBack>>
             ELSE /\ pc' = "clear"
                  /\ stream' = s
                  /\ tEpoch' = wsEpoch
                  /\ folded' = {}
                  /\ fellBack' = "no"
                  /\ UNCHANGED lastSeq
    /\ UNCHANGED <<daemonVars, sessionVars, wsEpoch, listing, from, signalVars, panel>>
PickIgnoresEpoch ==
    /\ pc = "pick"
    /\ \E s \in Choices :
          /\ prev' = stream
          /\ current' = s
          /\ IF s = stream
             THEN pc' = "subscribe" /\ UNCHANGED <<streamVars, fellBack>>
             ELSE /\ pc' = "clear"
                  /\ stream' = s
                  /\ tEpoch' = wsEpoch
                  /\ lastSeq' = 0
                  /\ folded' = {}
                  /\ fellBack' = "no"
    /\ UNCHANGED <<daemonVars, sessionVars, wsEpoch, listing, from, signalVars, panel>>

(* The rest of pick, and setStream up to the unlock. *)
Pick ==
    /\ pc = "pick"
    /\ \E s \in Choices :
          /\ prev' = stream
          /\ current' = s
          /\ IF s = stream /\ wsEpoch = tEpoch
             THEN /\ pc' = "subscribe"
                  /\ UNCHANGED <<streamVars, fellBack>>
             ELSE /\ pc' = "clear"
                  /\ stream' = s
                  /\ tEpoch' = wsEpoch
                  /\ lastSeq' = 0
                  /\ folded' = {}
                  /\ fellBack' = "no"
    /\ UNCHANGED <<daemonVars, sessionVars, wsEpoch, listing, from, signalVars, panel>>

(* Mutant of Clear: the old stream is not unsubscribed. *)
ClearKeepsOldStream ==
    /\ pc = "clear"
    /\ panel' = {}
    /\ pc' = "subscribe"
    /\ UNCHANGED <<daemonVars, sessionVars, localVars, streamVars, current, signalVars,
                   fellBack>>

(* setStream's clearFrame, broadcast after the unlock. *)
Clear ==
    /\ pc = "clear"
    /\ panel' = {}
    /\ pc' = IF prev \notin {None, stream} THEN "unsubscribe" ELSE "subscribe"
    /\ UNCHANGED <<daemonVars, sessionVars, localVars, streamVars, current, signalVars,
                   fellBack>>

(* No session: wait for a switch, or look again after a while. *)
NothingToFollow ==
    /\ Goto("pick", "wait")
    /\ listing = {}
    /\ UNCHANGED <<daemonVars, sessionVars, localVars, streamVars, current, signalVars,
                   historyVars>>

WaitOver ==
    /\ Goto("wait", "list")
    /\ switch' \in {FALSE, switch}
    /\ UNCHANGED <<daemonVars, sessionVars, localVars, streamVars, current, selected,
                   resub, cancelled, selects, historyVars>>

Unsubscribe ==
    /\ Goto("unsubscribe", "uncall")
    /\ Request("unsubscribe", prev, 0)
    /\ OnlyRpc
    /\ UNCHANGED <<sessionVars, localVars, streamVars, current, signalVars, historyVars>>

CallFails == CallBroken \/ cancelled
Refused == rpc.at = "answered" /\ rpc.result # "ok"
Succeeded == rpc.at = "answered" /\ rpc.result = "ok"

Unsubscribed ==
    /\ Goto("uncall", "subscribe")
    /\ Succeeded
    /\ rpc' = Idle
    /\ OnlyRpc
    /\ UNCHANGED <<sessionVars, localVars, streamVars, current, signalVars, historyVars>>

(* The stream is subscribed already, or events of it are on the wire: the  *)
(* cursor is not the one to go on from.  So it is when the session that is *)
(* followed is picked again, and when a token of the stream before the     *)
(* switch makes serve subscribe (timeline.go:320-322).                     *)
Overlaps ==
    \/ pos[stream] # -1
    \/ \E i \in DOMAIN wire : wire[i].kind = "push" /\ wire[i].stream = stream

(* subscribe reads the cursor and calls events.subscribe. *)
Subscribe ==
    /\ Goto("subscribe", "call")
    /\ from' = lastSeq
    /\ Request("subscribe", stream, lastSeq)
    /\ OnlyRpc
    /\ fellBack' = IF Overlaps /\ fellBack = "no" THEN "overlap" ELSE fellBack
    /\ UNCHANGED <<sessionVars, wsEpoch, listing, prev, streamVars, current, signalVars,
                   panel>>

(* Mutant of Subscribed: tokens from before the answer are thrown away. *)
SubscribedDrains ==
    /\ pc \in {"call", "retry"}
    /\ Succeeded
    /\ pc' = "serve"
    /\ rpc' = Idle
    /\ resub' = FALSE /\ switch' = FALSE
    /\ OnlyRpc
    /\ UNCHANGED <<sessionVars, localVars, streamVars, current, selected,
                   cancelled, selects, historyVars>>

Subscribed ==
    /\ pc \in {"call", "retry"}
    /\ Succeeded
    /\ pc' = "serve"
    /\ rpc' = Idle
    /\ OnlyRpc
    /\ UNCHANGED <<sessionVars, localVars, streamVars, current, signalVars, historyVars>>

(* An unsubscribe, a full subscribe or a second call fails: follow returns.*)
CallReturnsError ==
    /\ pc \in {"uncall", "retry"} \/ (pc = "call" /\ from = 0)
    /\ Refused \/ CallFails
    /\ pc' = "close"
    /\ rpc' = Idle
    /\ OnlyRpc
    /\ UNCHANGED <<sessionVars, localVars, streamVars, current, signalVars, historyVars>>

Retry(resume) ==
    /\ Goto("call", "retry")
    /\ from # 0
    /\ lastSeq' = resume
    /\ Request("subscribe", stream, resume)
    /\ OnlyRpc
    /\ UNCHANGED <<sessionVars, localVars, stream, tEpoch, folded, current, signalVars,
                   panel>>

RetryAtBoundary ==
    /\ Refused /\ rpc.result = "compacted"
    /\ Retry(rpc.boundary)
    /\ UNCHANGED fellBack

(* Any other error, that of a broken connection included, and a compacted  *)
(* cursor whose boundary cannot be decoded.                                *)
RetryFromStart ==
    /\ \/ Refused /\ fellBack' = "refused"
       \/ CallFails /\ fellBack' = "broken"
    /\ Retry(0)

-----------------------------------------------------------------------------
(* serve, and follow's wait for a session *)

Ends ==
    /\ pc \in {"serve", "wait"}
    /\ pc' = "close"
    /\ cancelled \/ Done
    /\ UNCHANGED <<daemonVars, sessionVars, localVars, streamVars, current, signalVars,
                   historyVars>>

(* errSwitch: follow picks again. *)
ServeSwitch ==
    /\ Goto("serve", "list")
    /\ switch
    /\ switch' = FALSE
    /\ UNCHANGED <<daemonVars, sessionVars, localVars, streamVars, current, selected,
                   resub, cancelled, selects, historyVars>>

ServeResub ==
    /\ Goto("serve", "subscribe")
    /\ resub
    /\ resub' = FALSE
    /\ UNCHANGED <<daemonVars, sessionVars, localVars, streamVars, current, selected,
                   switch, cancelled, selects, historyVars>>

(* The deferred Close. *)
Close ==
    /\ Goto("close", "backoff")
    /\ Disconnect
    /\ UNCHANGED <<sessionVars, localVars, streamVars, current, signalVars, historyVars>>

(* Mutant of Backoff: the loop does not look at the context. *)
BackoffForever ==
    /\ Goto("backoff", "dial")
    /\ UNCHANGED <<daemonVars, sessionVars, localVars, streamVars, current, signalVars,
                   historyVars>>

Backoff ==
    /\ Goto("backoff", "dial")
    /\ ~cancelled
    /\ UNCHANGED <<daemonVars, sessionVars, localVars, streamVars, current, signalVars,
                   historyVars>>

RunEnds ==
    /\ Goto("backoff", "done")
    /\ cancelled
    /\ UNCHANGED <<daemonVars, sessionVars, localVars, streamVars, current, signalVars,
                   historyVars>>

-----------------------------------------------------------------------------
(* onNotify *)

(* The events that frame f stands for; the connection tells their epoch. *)
Named(f) == {<<f.stream, wsEpoch, n>> : n \in f.first..f.cursor}

OnPushRest ==
    /\ Incoming("push")
    /\ wire' = Tail(wire)
    /\ UNCHANGED <<epoch, up, head, summary, pos, link, rpc, faults>>
    /\ UNCHANGED <<sessionVars, pc, localVars, stream, tEpoch, current, signalVars,
                   fellBack>>

Fold(f) == folded' = folded \cup Named(f) /\ panel' = panel \cup Named(f)

(* Mutants of OnPush: the cursor is the next number; the stream of the     *)
(* event is not looked at; the cursor is the number of the record instead  *)
(* of the end of its range; a summary is not shown.                        *)
OnPushNext ==
    /\ OnPushRest
    /\ LET f == Head(wire)
       IN  IF f.stream = stream
           THEN lastSeq' = f.cursor + 1 /\ Fold(f)
           ELSE UNCHANGED <<lastSeq, folded, panel>>
OnPushUnfiltered ==
    /\ OnPushRest
    /\ LET f == Head(wire) IN lastSeq' = f.cursor /\ Fold(f)
OnPushSeq ==
    /\ OnPushRest
    /\ LET f == Head(wire)
       IN  IF f.stream = stream
           THEN lastSeq' = f.first /\ Fold(f)
           ELSE UNCHANGED <<lastSeq, folded, panel>>
OnPushNoSummary ==
    /\ OnPushRest
    /\ LET f == Head(wire)
       IN  IF f.stream = stream
           THEN /\ lastSeq' = f.cursor
                /\ IF f.first = f.cursor THEN Fold(f) ELSE UNCHANGED <<folded, panel>>
           ELSE UNCHANGED <<lastSeq, folded, panel>>

(* An event of the stream that is followed moves the cursor and is folded  *)
(* into the usage, the tools and the blocks; another one is dropped.       *)
OnPush ==
    /\ OnPushRest
    /\ LET f == Head(wire)
       IN  IF f.stream = stream
           THEN lastSeq' = f.cursor /\ Fold(f)
           ELSE UNCHANGED <<lastSeq, folded, panel>>

(* A close of another stream is ignored.  The mutex is released before the *)
(* send, which is still one step with the test: resub is read in serve     *)
(* only, and a switch gets there by a reply that this goroutine must read. *)
OnClosed ==
    /\ Incoming("closed")
    /\ wire' = Tail(wire)
    /\ IF Head(wire).stream = stream
       THEN resub' = TRUE
       ELSE UNCHANGED resub
    /\ UNCHANGED <<epoch, up, head, summary, pos, link, rpc, faults>>
    /\ UNCHANGED <<sessionVars, pc, localVars, streamVars, current, selected, switch,
                   cancelled, selects, panel, fellBack>>

OnReply == ReadReply /\ UNCHANGED timelineVars

-----------------------------------------------------------------------------
(* The other parties *)

(* Mutant of Select: the follow loop is not told. *)
SelectSilently(s) ==
    /\ s \in listed \cup over
    /\ selects < MaxSelects
    /\ selects' = selects + 1
    /\ selected' = s
    /\ UNCHANGED <<daemonVars, sessionVars, pc, localVars, streamVars, current, switch,
                   resub, cancelled, historyVars>>

(* The handler of /select calls Select with a session that the rail shows, *)
(* or showed.                                                              *)
Select(s) ==
    /\ s \in listed \cup over
    /\ selects < MaxSelects
    /\ selects' = selects + 1
    /\ selected' = s
    /\ switch' = TRUE
    /\ UNCHANGED <<daemonVars, sessionVars, pc, localVars, streamVars, current, resub,
                   cancelled, historyVars>>

Cancel ==
    /\ ~cancelled
    /\ cancelled' = TRUE
    /\ UNCHANGED <<daemonVars, sessionVars, pc, localVars, streamVars, current, selected,
                   switch, resub, selects, historyVars>>

(* Sessions of the daemon start and end. *)
SessionStarts(s) ==
    /\ s \notin listed \cup over
    /\ listed' = listed \cup {s}
    /\ UNCHANGED <<daemonVars, over, pc, localVars, streamVars, current, signalVars, historyVars>>

SessionEnds(s) ==
    /\ s \in listed \cap Passing
    /\ listed' = listed \ {s}
    /\ over' = over \cup {s}
    /\ UNCHANGED <<daemonVars, pc, localVars, streamVars, current, signalVars, historyVars>>

Run ==
    \/ Dial \/ DialFails \/ Open \/ List \/ OpenOrListFails
    \/ Pick \/ Clear \/ NothingToFollow \/ WaitOver \/ Unsubscribe \/ Unsubscribed
    \/ Subscribe \/ Subscribed \/ CallReturnsError \/ RetryAtBoundary \/ RetryFromStart
    \/ Ends \/ ServeSwitch \/ ServeResub \/ Close \/ Backoff \/ RunEnds

Reader == OnPush \/ OnClosed \/ OnReply

Environment ==
    \/ DaemonStep /\ UNCHANGED timelineVars
    \/ \E s \in Streams : SessionStarts(s) \/ SessionEnds(s)

Next == Run \/ Reader \/ Environment \/ Cancel \/ \E s \in Streams : Select(s)

Spec == Init /\ [][Next]_vars

(* As in Bridge. *)
FairSpec == Spec /\ DaemonFairness /\ WF_vars(Run) /\ WF_vars(Reader)

-----------------------------------------------------------------------------
(* Properties *)

(* Two sessions, or two epochs of one, are never mixed: not in the usage,  *)
(* the tools and the block that is being built, not in the browser, and,   *)
(* while the timeline serves one, not on the connection.                   *)
NothingMixed ==
    /\ \A e \in folded : e[1] = stream /\ e[2] = tEpoch
    /\ \A e, f \in panel : e[1] = f[1] /\ e[2] = f[2]
OnlyCurrentSubscribed ==
    pc = "serve" => \A s \in Streams \ {stream} : pos[s] = -1
OneSession == NothingMixed /\ OnlyCurrentSubscribed

(* Between its switches, the timeline shows the events of its stream       *)
(* without a hole, and the cursor is not ahead of them.                    *)
NothingSkipped ==
    /\ \A n \in 1..lastSeq : <<stream, tEpoch, n>> \in folded
    /\ \A e \in folded : \A n \in 1..e[3] : <<stream, tEpoch, n>> \in folded
    /\ pc # "clear" => panel = folded

(* What wakes up the follow loop is not lost.  A subscription that ended   *)
(* is noticed, whatever switches happened.  A selection is followed, or    *)
(* the token that makes follow pick again is in switchCh: it is not lost   *)
(* to a list that was fetched before it, nor to another selection.         *)
ResubNotLost ==
    pc = "serve" /\ link = "open" =>
        \/ pos[stream] # -1
        \/ \E i \in DOMAIN wire : wire[i].kind = "closed" /\ wire[i].stream = stream
        \/ resub
SelectNotLost ==
    pc = "serve" /\ selected \in listed => current = selected \/ switch
TokensNotLost == ResubNotLost /\ SelectNotLost

Replays ==
    OnPush /\ Head(wire).stream = stream /\ Named(Head(wire)) \subseteq folded

(* A block is shown again only after a fallback to a full replay, or after *)
(* the stream was subscribed to a second time (Overlaps).                  *)
ReplayOnlyAfterFallback == [][Replays => fellBack # "no"]_vars

(* A selection is followed in the end, as long as its session exists and   *)
(* no other is selected.                                                   *)
SelectionFollowed ==
    \A s \in Streams :
        selected = s ~> current = s \/ selected # s \/ s \notin listed \/ cancelled

(* Every event of the followed stream is shown, unless the user switches,  *)
(* the session is no longer listed when the timeline comes back to it, or  *)
(* the daemon loses the event with its epoch: however often it is cut off, *)
(* the timeline catches up with the stream.                                *)
EveryEventShown ==
    \A s \in Streams :
        stream = s ~> \/ \A n \in 1..head[s] : <<s, epoch, n>> \in panel
                      \/ stream # s \/ s \notin listed \/ cancelled

(* Run returns after the context is cancelled, with nothing left open. *)
Terminates == cancelled ~> pc = "done" /\ link = "none"
=============================================================================
