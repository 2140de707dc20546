----------------------------- MODULE TimelineView -----------------------------
(***************************************************************************)
(* The timeline from the follower to what the browser shows of it:         *)
(* setStream and the rendering of blocks in internal/timeline/timeline.go, *)
(* the hub channel of the one browser, /timeline and /select of            *)
(* internal/ui/server.go, the page's panel with htmx's SSE extension, and  *)
(* the previews of artifacts in the panel, whose store is PreviewStore.    *)
(*                                                                         *)
(* The follower renders what the followed session has on its stream, from  *)
(* the beginning.  The browser takes frames one after the other: the clear *)
(* frame empties the panel, a block is appended.  A click on a session of  *)
(* the rail posts /select; its response, which arrives on a connection of  *)
(* its own, replaces the panel by an empty one.                            *)
(*                                                                         *)
(* How a session is picked, and how its events are subscribed to, is in    *)
(* Timeline, what a block is made of in Coalescer, the hub in Hub.         *)
(***************************************************************************)
EXTENDS PreviewStore, Integers, FiniteSets

CONSTANTS
    Sessions,
    None,           \* no session, no request, no preview
    Payloads,       \* the artifacts that agents write
    Cap,            \* the capacity of the hub channel
    MaxBlocks,      \* bound: blocks of a session
    MaxTurns,       \* bound: how often the follower turns to a session
    MaxClicks,      \* bound: clicks on the rail
    MaxDrops        \* bound: how often the SSE connection is lost

Forms == {"web", "image", "markdown", "other"}

(* An artifact_written event: what its name says it is, its content if it  *)
(* is inlined, whether that was too large, and whether it has a diff.      *)
Artifact == [form : Forms, content : Contents \cup {None}, truncated : BOOLEAN, diff : BOOLEAN]

ASSUME ViewAssumption ==
    /\ None \notin Sessions /\ None \notin Contents
    /\ Payloads \subseteq Artifact
    /\ Cap \in Nat \ {0}
    /\ {MaxBlocks, MaxTurns, MaxClicks, MaxDrops} \subseteq Nat

VARIABLES
    log,        \* session -> the blocks of its stream (external)
    selected,   \* Timeline.selected
    followed,   \* the session of Timeline.stream
    turn,       \* how often setStream has turned to another session
    sent,       \* how many blocks have been rendered since
    open,       \* the SSE connection is open
    chan,       \* the hub channel of the connection, with the frames on the way
    panel,      \* the blocks that the page shows
    click,      \* a /select is not answered yet
    clicks,     \* how many clicks there were
    drops,      \* how often the connection was lost (external)
    missed,     \* the last clear frame was missed
    lost        \* blocks of the current turn that were lost, and why

viewVars == <<open, chan, panel, drops>>
followVars == <<selected, followed, turn, sent>>
ghosts == <<missed, lost>>
vars == <<storeVars, log, followVars, viewVars, click, clicks, ghosts>>

(* A block that is not an artifact: a message, a thought, a tool call. *)
Text == [form |-> "text"]

(* A frame with a block says of which turn it is, its number on the        *)
(* stream, the view that TLArtifact chose for it and the id in its URL.    *)
Views == {"text", "frame", "note", "markdown", "diff", "code", "bare"}
Block == [turn : 1..MaxTurns, n : 1..MaxBlocks, view : Views, id : Nat]
Clear == [turn |-> 0]

Reasons == {"closed", "full", "swapped", "dropped"}

TypeOK ==
    /\ log \in [Sessions -> Seq(Payloads \cup {Text})]
    /\ {selected, followed} \subseteq Sessions \cup {None}
    /\ turn \in 0..MaxTurns
    /\ followed = None <=> turn = 0
    /\ followed = None => sent = 0
    /\ followed # None => sent \in 0..Len(log[followed])
    /\ open \in BOOLEAN
    /\ chan \in Seq(Block \cup {Clear}) /\ Len(chan) <= Cap
    /\ ~open => chan = << >>
    /\ panel \subseteq Block
    /\ click \in BOOLEAN
    /\ clicks \in 0..MaxClicks
    /\ drops \in 0..MaxDrops
    /\ missed \in BOOLEAN
    /\ lost \subseteq (1..MaxBlocks) \X Reasons

Init ==
    /\ StoreInit
    /\ log = [s \in Sessions |-> << >>]
    /\ selected = None
    /\ followed = None
    /\ turn = 0
    /\ sent = 0
    /\ open = FALSE
    /\ chan = << >>
    /\ panel = {}
    /\ click = FALSE
    /\ clicks = 0
    /\ drops = 0
    /\ missed = FALSE
    /\ lost = {}

-----------------------------------------------------------------------------
(* Artifacts *)

(* previewURL and previewMediaType: whether an artifact is put into the    *)
(* sandbox.                                                                *)
Previewable(a) == a.form = "web" /\ a.content # None /\ ~a.truncated

(* TLArtifact: how the card of an artifact shows it. *)
Card(a, id) ==
    IF id # 0 THEN "frame"
    ELSE IF a.form = "image" THEN "note"
    ELSE IF a.form = "markdown" /\ a.content # None THEN "markdown"
    ELSE IF a.diff THEN "diff"
    ELSE IF a.content # None THEN "code"
    ELSE "bare"

-----------------------------------------------------------------------------
(* The hub: Broadcast drops a frame for a channel that is full, and nobody *)
(* has the frame when the connection is not open.                          *)

Delivered == open /\ Len(chan) < Cap

(* Mutant of Broadcast: it does not ask whether there is room. *)
BroadcastAnyway(frame) == chan' = IF open THEN Append(chan, frame) ELSE chan

Broadcast(frame) == chan' = IF Delivered THEN Append(chan, frame) ELSE chan
WhyLost == IF open THEN "full" ELSE "closed"

-----------------------------------------------------------------------------
(* The follower *)

(* Mutant of SetStream: the browser is not told. *)
SetStreamSilent(s) ==
    /\ followed' = s
    /\ turn' = turn + 1
    /\ sent' = 0
    /\ chan' = chan
    /\ lost' = {}
    /\ missed' = FALSE
    /\ UNCHANGED <<storeVars, selected, open, panel, drops, click, clicks>>

(* setStream for another stream than the present one, or another epoch. *)
SetStream(s) ==
    /\ followed' = s
    /\ turn' = turn + 1
    /\ sent' = 0
    /\ Broadcast(Clear)
    /\ lost' = {}
    /\ missed' = ~Delivered
    /\ UNCHANGED <<storeVars, selected, open, panel, drops, click, clicks>>

(* The follower picks: the selection if session.list has it, or any one    *)
(* that it has.  setStream returns early for the session that is followed  *)
(* already, unless the daemon has restarted: then its streams begin anew.  *)
Follow(s) ==
    /\ \E listing \in SUBSET Sessions :
          s \in listing /\ (selected \in listing => s = selected)
    /\ turn < MaxTurns
    /\ \/ s # followed /\ UNCHANGED log
       \/ log' = [t \in Sessions |-> << >>]
    /\ SetStream(s)

(* The next block of the session is rendered; an artifact that can be      *)
(* previewed is put into the store first.  A stream is read once in a      *)
(* turn: the blocks of events that come again, after a call that asked for *)
(* them from further back, are in Timeline and Coalescer.                  *)
Render ==
    /\ followed # None
    /\ sent < Len(log[followed])
    /\ sent' = sent + 1
    /\ LET a == log[followed][sent']
           put == a # Text /\ Previewable(a)
           id == IF put THEN puts + 1 ELSE 0
       IN  /\ IF put THEN Put(a.content) ELSE UNCHANGED storeVars
           /\ Broadcast([turn |-> turn, n |-> sent', id |-> id,
                         view |-> IF a = Text THEN "text" ELSE Card(a, id)])
           /\ lost' = IF Delivered THEN lost ELSE lost \cup {<<sent', WhyLost>>}
    /\ UNCHANGED <<log, selected, followed, turn, open, panel, drops, click, clicks, missed>>

-----------------------------------------------------------------------------
(* The browser *)

(* EventSource connects, for the first time and again, and the hub has a   *)
(* new channel for it.  The id of the last frame is not sent.              *)
Connect ==
    /\ ~open
    /\ open' = TRUE
    /\ UNCHANGED <<storeVars, log, followVars, chan, panel, drops, click, clicks, ghosts>>

BlocksIn(frames) == {b \in frames : b.turn = turn}
InChan == {chan[i] : i \in 1..Len(chan)}
Losing(blocks, why) == lost \cup {<<b.n, why>> : b \in BlocksIn(blocks)}

(* The connection is lost, and with it what was on the way. *)
Drop ==
    /\ open
    /\ drops < MaxDrops
    /\ drops' = drops + 1
    /\ open' = FALSE
    /\ chan' = << >>
    /\ missed' = (missed \/ Clear \in InChan)
    /\ lost' = Losing(InChan, "dropped")
    /\ UNCHANGED <<storeVars, log, followVars, panel, click, clicks>>

(* Mutant of Receive: the clear frame is appended like any other. *)
ReceiveAppends ==
    /\ chan # << >>
    /\ chan' = Tail(chan)
    /\ panel' = panel \cup ({Head(chan)} \ {Clear})
    /\ UNCHANGED <<storeVars, log, followVars, open, drops, click, clicks, ghosts>>

(* A frame arrives and htmx swaps it into the panel. *)
Receive ==
    /\ chan # << >>
    /\ chan' = Tail(chan)
    /\ panel' = IF Head(chan) = Clear THEN {} ELSE panel \cup {Head(chan)}
    /\ UNCHANGED <<storeVars, log, followVars, open, drops, click, clicks, ghosts>>

(* The user clicks on a session of the rail, be it the one that is shown.  *)
Click(s) ==
    /\ ~click
    /\ clicks < MaxClicks
    /\ clicks' = clicks + 1
    /\ click' = TRUE
    /\ selected' = s
    /\ UNCHANGED <<storeVars, log, followed, turn, sent, viewVars, ghosts>>

(* handleSelect's TimelinePanel takes the place of the panel.  The         *)
(* sse-connect is on the element around it, and stays.                     *)
Swap ==
    /\ click
    /\ click' = FALSE
    /\ panel' = {}
    /\ lost' = Losing(panel, "swapped")
    /\ UNCHANGED <<storeVars, log, followVars, open, chan, drops, clicks, missed>>

-----------------------------------------------------------------------------
(* A session has another block on its stream. *)
Emit(s) ==
    /\ Len(log[s]) < MaxBlocks
    /\ \E a \in Payloads \cup {Text} : log' = [log EXCEPT ![s] = Append(@, a)]
    /\ UNCHANGED <<storeVars, followVars, viewVars, click, clicks, ghosts>>

Next ==
    \/ \E s \in Sessions : Follow(s) \/ Click(s) \/ Emit(s)
    \/ Render \/ Connect \/ Drop \/ Receive \/ Swap

Spec == Init /\ [][Next]_vars

-----------------------------------------------------------------------------
(* Properties *)

(* Every block that was rendered since the follower turned to its session  *)
(* is in the panel or on the way to it, once and not again, unless it was  *)
(* lost in one of the known ways: before the connection was open, to a     *)
(* full channel, to an empty panel that replaced the one it was in, or     *)
(* with the connection.  And the panel shows no block of an earlier turn   *)
(* unless the clear frame is on its way or was missed.  Not again is what  *)
(* the hub, the connection and the page promise; what the daemon repeats   *)
(* is rendered as a block of its own (see Render).                         *)
BlocksAccounted ==
    LET shown == {b.n : b \in BlocksIn(panel)}
        coming == {b.n : b \in BlocksIn(InChan)}
        gone == {l[1] : l \in lost}
    IN  /\ shown \cup coming \cup gone = 1..sent
        /\ Cardinality(shown) + Cardinality(coming) + Cardinality(lost) = sent
        /\ missed \/ Clear \in InChan \/ \A b \in panel : b.turn = turn

(* A preview that the panel shows can be loaded, now or when the user      *)
(* scrolls to it, and is what the session wrote, as long as the session    *)
(* has not put more than maxArtifacts artifacts.                           *)
ShownPreviewLoads ==
    \A b \in BlocksIn(panel) :
        b.view = "frame" /\ puts - b.id < MaxArtifacts =>
            Get(b.id) /\ items[b.id] = log[followed][b.n].content

(* The doc of handleSelect: it returns "a fresh, empty timeline panel that *)
(* reconnects the SSE stream for it".  So when all is quiet, and nothing   *)
(* was lost to a full channel or with a connection, the panel has the      *)
(* blocks of the session that the user selected.                           *)
SelectionShown ==
    (/\ ~click /\ selected # None /\ followed = selected
     /\ chan = << >> /\ sent = Len(log[followed])
     /\ \A l \in lost : l[2] = "swapped")
        => {b.n : b \in BlocksIn(panel)} = 1..sent
=============================================================================
