# tend-ui in TLA+

tend-ui is a window on the tend daemon: a Go process that follows event streams of
the daemon over a socket, turns them into HTML fragments and pushes them over
Server-Sent Events to a page in a web view; the page polls the rest and posts what the
user does. These modules model the fan-out to the browser; the two followers that keep a cursor in a
stream across closed subscriptions, switches of sessions, lost connections and restarts of
the daemon; what the timeline makes of the events, and what the browser comes to show of it; the
handlers behind the page with the connections they share; and the store of the preview sandbox.
TLC checks small instances; TLAPS proves every safety property of these instances, and the two refinements, for all values of the constants.

## The system

| part | state | operations | talks to |
|---|---|---|---|
| `Hub` (`internal/bridge/hub.go`) | mutex, set of channels of 64 values | Subscribe, cancel, Broadcast | producers: the followers; consumers: `serveSSE` |
| `serveSSE` (`internal/ui/server.go`) | one goroutine per browser connection | select on context, ping, value | Hub, browser |
| `Bridge` (`internal/bridge/bridge.go`) | cursor `lastSeq`, `epoch`, `connected`, per connection `resub` | Run, follow, subscribe, onNotify | daemon, event hub, titlebar |
| `Timeline` (`internal/timeline/timeline.go`) | followed `stream`, `epoch`, `lastSeq`, `selected`, `current`, `switchCh`, usage, tools, coalescer, per connection `resub` | Run, follow, pick, setStream, subscribe, serve, onNotify, Select | daemon, timeline hub, UI handlers |
| coalescer (`internal/timeline/coalesce.go`) | text buffer and its kind | handle, accumulate, flush, renderDiscrete | timeline hub, preview store |
| tools and usage (`timeline.go`, `internal/session`) | tool list with index, latest usage | applyTools, applyUsage | header, jump index |
| UI handlers (`internal/ui/server.go`) | none of their own | select, header, jump, approvals, approve/deny, prompt, cancel, stop | Timeline, Controller, Lister |
| `Controller` (`internal/control`) | one lazily dialed connection | ensure, Approvals, Respond, Prompt, Cancel, Stop, Close | daemon |
| `Lister` (`internal/session/lister.go`) | one lazily dialed connection | List, Close | daemon |
| preview store (`internal/preview`) | 256 artifacts, oldest evicted | put, get | coalescer, iframes |
| page (`web/templates`, htmx) | the panel of the timeline, the fragments | swaps what frames and responses say | `serveSSE`, UI handlers |
| wiring (`main.go`) | the context | run | all |

What is hard in it:

- **Two goroutines per follower.** `Run` blocks in calls while the read goroutine of the
  connection runs `onNotify`. Both use the cursor and the channel `resub`; a
  notice can come before the call that it belongs to has returned.
- **Tokens.** `resub` and `switchCh` are channels of one slot that are sent to without
  blocking. A token may be late, stale, or stand for several signals.
- **Cursors.** They must survive a closed subscription and a lost connection, be
  dropped on a new epoch, jump over a summed up range, and never run ahead of what was shown.
- **Switches.** Frames of the old session are in flight while the new one is set up.
- **Slow and vanishing browsers.** A full channel drops values for one connection;
  a connection may end while a Broadcast visits its channel. The hub keeps no history.
- **Two ways into one panel.** Frames come over SSE, the response of `/select` over a connection
  of its own; both change the same element.
- **Requests that read twice.** A handler reads the focus, calls the daemon and reads again, while
  the follower moves the focus and other requests share the connection and its mutex.

## Modules

| module | models | state and actions |
|---|---|---|
| `LossyFeed` | what the hub promises to one connection | a counter of published values, who reads, the last value each got |
| `Hub` | `hub.go` and `serveSSE` | the mutex, the visit of the channels by Broadcast (one step per channel, because handlers receive without the mutex), `subs`, the channels, and a program counter per handler |
| `HubProofs` | theorems about `Hub` | |
| `Daemon` | the environment of one follower: the daemon's streams and the follower's connection (external) | logs with epochs and summaries, subscriptions, a FIFO wire, one call in flight, faults |
| `DaemonProofs` | lemmas about `Daemon`, for the two followers | |
| `Bridge` | `bridge.go` | `pc` is the place of `Run`; `OnPush`, `OnClosed` and `OnReply` are the read goroutine |
| `BridgeProofs` | theorems about `Bridge` | |
| `Timeline` | `timeline.go` | the same for a session's stream, with `pick`, `setStream` and `Select` |
| `TimelineProofs` | theorems about `Timeline` | |
| `Coalescer` | `coalesce.go`, `applyTools` and `applyUsage` | the text buffer, the tool list with its index, the usage, and the frames a browser got; one action per kind of event, a replay, a switch |
| `CoalescerProofs` | theorems about `Coalescer` | |
| `MCCoalescer` | symmetry of the tool calls and the streams to check, for TLC | |
| `Control` | the approvals, prompt, cancel and stop handlers over `controller.go` | a record per request: its place, the phase it is in and its local variables; `mu` and `conn` of the Controller; the daemon's approvals and connections; the panel |
| `ControlProofs` | theorems about `Control` | |
| `Page` | the shell, rail, header and jump handlers over `lister.go`, with what their templates decide | a record per fragment; `mu` and `conn` of the Lister; `current` and `folded` of the follower |
| `PageProofs` | theorems about `Page` | |
| `LastArtifacts` | what the preview store promises | the artifacts put last |
| `PreviewStore` | the store of `preview.go` | `items` and `order`; `Put`, `Get` |
| `TimelineView` | the timeline from `setStream` and the rendering of a block to the panel of one browser | the followed session and how much of it was rendered, the hub channel, the panel, the pending `/select`; extends `PreviewStore` for the artifacts |
| `TimelineViewProofs` | theorems about `PreviewStore` and `TimelineView` | |
| `MCTimelineView` | the artifacts that agents write, and the symmetry of sessions and contents, for TLC | |

`Hub` stands between the two followers and the browser; each follower is composed with the
daemon by extending `Daemon`. `Timeline` follows cursors and switches and only remembers
which events were folded; `Coalescer` says what they are folded into, and takes from
`Timeline` that they come in order, start again from the first after a fallback, and that
a switch resets everything at once. `TimelineView` takes the follower as something that turns to
a session and renders its blocks one by one, and follows the frames to the page. `Control` and
`Page` take it as something that moves the focus.

Each action is one critical section, one channel operation, or one call or the return
of one. Names are those of the code; the table "map" of `PROJECT.json` gives the
lines. A definition that is preceded by "Mutant of" is a plausible bug, not part of
the model: it takes the place of the definition it names to show that a property
notices.

### What is abstracted

- **Values.** The i-th value broadcast is the number i. An event is its number, or for
  a summary a range of numbers; its stored cursor is the end of the range. Payloads are left out.
- **Folding.** In `Timeline`, `applyUsage`, `applyTools` and the coalescer consume the same events
  under one mutex and are reset together; `folded` is the set of events behind them.
- **Event types.** In `Coalescer`, `user_prompt`, `artifact_written`, `agent_error`, `summary` and
  `turn_end` are one type (flush, then a block), and all types that are not shown are another (flush
  only), which also stands for a payload that does not decode. Texts, inputs and counts are named by their event; the
  names of tools matter only as to whether they edit.
- **The choice of pick** among running sessions: which session runs, and in which order
  they are listed, is the daemon's affair, so without a listed selection any listed session may be chosen. In
  `TimelineView` whether the selection is listed is open at each pick, and a restart of the daemon takes effect when
  `setStream` notices it: its streams are empty from then on, and the same session is a new turn.
- **The heartbeat** of `serveSSE`: a ping that works changes nothing; one that fails ends the handler, like the context.
- **Malformed frames** (`json.Unmarshal` of the parameters of a notification failing) are dropped by
  the code and are not sent by the model. Malformed payloads of events are in `Coalescer`.
- **The panel** of `Timeline` is a browser that gets every frame; dropped frames are the subject of
  `Hub` and `TimelineView`.
- **Repeated events** are not rendered again in `TimelineView`: a stream is read once in a turn. That no block is
  shown twice is therefore said of the hub, the connection and the page (`BlocksAccounted`). What a resume repeats is in
  `Timeline` (`ReplayOnlyAfterFallback`) and in `Coalescer`.
- **The hub** of `TimelineView` has one connection, and a Broadcast is one step: with one channel nothing
  comes between its lock and its send. The channel stands for the values in it and the frames on the way.
- **Cards** of `TimelineView` have the view that `TLArtifact` chooses; what is in a view is left out.
- **Requests** of `Control` and `Page` are a fixed number of slots, each for one request after the other. The calls of
  cancel and stop are one phase, for they differ only in the name of the method. The panel polls on, an
  overlapping poll is a second slot at most.
- **Waiting for a mutex** is being in front of it: a request in front of `ensure` or `List`.
- **Dialing** in `Page` is one step with the `workspace.open` after it (`lister.go:52-65`): both failures give the connection up and leave none.
- **Rejections** of the request's method and of missing form values are left out: the page does not send such requests.
- **The list of sessions** is a set; groups are in the order of first appearance.

### The daemon, as an assumption

The daemon and the client library are not in this repository. `Daemon` says what the
code, its comments and tests rely on:

- A restart is a new epoch with new, empty streams. `workspace.open` tells the epoch;
  the connection cannot outlive it.
- A subscription sends the records after its cursor in order and once. A cursor inside a
  summed up range is refused with the boundary before the range; a cursor past the end is refused.
  The boundary of a refusal may be unreadable: then the follower starts from 0, as after any other refusal.
- Frames come in order and are handled one at a time. A connection that breaks may lose
  any number of the last frames. After `Close` nothing is read.
- Where the repository says nothing, both outcomes are possible: a second
  `events.subscribe` is refused or moves the subscription; unsubscribing what is not
  subscribed is accepted or refused.
- A connection that broke is noticed at last (`Done`); before that, calls on it fail.
- Approvals are pending until they are answered by somebody or their daemon dies; an answer to
  one that is not pending is refused; an approval list without a session is that of all sessions (`server.go:187-190`).
- It may refuse a subscription or end one at any time (bounded by `MaxFaults`). It does not refuse
  `workspace.open` or `session.list` on a live connection; the code treats that like a broken one.
- A session's stream starts with an event that is not a chunk, because an agent speaks when it is
  prompted; a tool call has one `tool_call` event, before its updates (`MayFollow` of `Coalescer`).

## Runs

All bounds are constants of the modules. `CHECK_DEADLOCK FALSE` is set everywhere because
every instance stops: after the last value of a hub, when a cancelled `Run` has returned, when the clicks are used up.

| run | instance | what it shows |
|---|---|---|
| `hub` | 2 connections, channels of 2, 4 values | `NoSendOnClosed`, `Conservation` (no value disappears, none from before the subscription shows up), `HeadStart`; `FeedSpec`: the hub and its handlers implement `LossyFeed`; `BroadcastReturns`: no browser can block the daemon connection; `HandlersServe`: what a channel took is written unless its browser leaves, and what a closed tab left is removed |
| `bridge` | 3 events, 2 epochs, 2 faults, compaction | `NothingSkipped`, `ResubExact` (a notice is not lost, and none makes a second subscription), `ReplayOnlyAfterFallback`, `EveryEventRelayed`, `IndicatorFollows`, `Terminates` |
| `bridge_replay` | 2 events, 2 epochs, 2 faults | a disagreement with a comment, see Findings |
| `timeline_safety` | 2 sessions, 2 events, 2 epochs, 1 fault, 2 selections, compaction | `OneSession` (panel, state, cursor and subscription are of one session), `NothingSkipped`, `TokensNotLost`, `ReplayOnlyAfterFallback` (but for a second subscription, see below) |
| `timeline_liveness` | 2 sessions, one that starts late and one that ends, 1 event, 2 epochs, 1 fault, 1 selection | `SelectionFollowed`, `EveryEventShown`, `Terminates` |
| `coalescer` | all streams of 5 texts and discrete events, of 4 calls and updates of 2 tools, and of 3 of both; 1 replay, any switches | `Coalesced` and `Complete` against a reference definition of blocks (`RunOf`); `UsageLatest`; `ToolsCorrect`; `CardsAgree` |
| `coalescer_replayed_card` | 1 tool, 3 events, 1 replay | a disagreement with a comment, see Findings |
| `control` | a poll and a click, 2 sessions with an approval each, 1 fault | `OnlyFocused`, `OneConnection`, `ApprovalShown` |
| `page` | 2 sessions in 2 workspaces, 1 event or fault | `OneFailurePerLoss`, `PageSettles` |
| `page_composer` | 1 session, no event | a disagreement with comments, see Findings |
| `view` | 2 sessions with 2 blocks each, channel of 2, store of 2, 2 turns, 1 click, 1 lost connection | `BlocksAccounted`, `ShownPreviewLoads`, `StoreOK`, `StoreRefines` |
| `view_reselect` | 2 sessions with a block each, 1 click | a disagreement with a comment, see Findings |

The runs with a disagreement need only as much as their counterexamples.

`ReplayOnlyAfterFallback` of `Timeline` exempts what is repeated after a stream was subscribed to a second time
(`Overlaps`): when the followed session is picked again, and when a token of the stream before a switch makes `serve` subscribe
(see Findings). It does not say what becomes of the state after a fallback either: that is `UsageLatest`, `ToolsCorrect` and
`Coalesced`. What holds in all these cases is `NothingSkipped`.

### Why the bounds are enough

- Hub: with one value more than the channel holds, a drop happens; with two, values
  arrive again after a drop. A second connection is needed for a visit that one
  handler's cancel interrupts while another is served. The safety results do not rest on the bounds: they are proved.
- Followers: one event lets a cursor be right or wrong, two let it skip one, three with
  compaction put a cursor inside, before and behind a summed up range. Two epochs make
  one restart. Two faults make the sequences that matter: a closed subscription followed by a
  lost connection, a loss during a recovery. Two selections make a second one that arrives
  while the first is being carried out, and a return to the first session.
- Coalescer: five events make two runs of one kind with something between them, and a run that is cut;
  four make two calls with an update each, or one with three updates. The bounds are on the length of a
  stream only: all streams up to it are explored. Switches need no bound, because they leave nothing behind.
- Control: two requests make two that find no connection, two that share one, and a poll that overlaps a
  click; a session more than the focused one has an approval that must not be touched. One fault
  is a crash, a broken connection or a cancelled request; each makes one redial, and a second would begin where the first ended.
- Page: four requests and one mutex; two workspaces make two groups; one event is a session that
  starts or ends, or a fault. `failed` is not bounded, so a second failure in a row would show.
- View: two turns make one switch, two blocks with a channel of two make one that is full with the clear frame in it; four
  artifacts at most with a store of two make evictions of the shown and of the former session. Sessions and contents are only compared, so they are symmetric; no property of the run is about liveness.

### Fairness

- `Broadcast`, once begun, runs on: it does not wait for anybody (weak fairness).
- Handlers and the goroutines of the followers are scheduled, and a dial, a sleep and a
  write come to an end (weak fairness). In `HandlersServe` the fairness is a premise: it is promised for
  a handler that is not for ever stuck in a write, and the other properties of `hub` do not assume it.
- `Cancel` of a handler needs the mutex that a Broadcast takes again and again: Go's
  `sync.Mutex` hands itself over to a waiter that has starved for a millisecond (strong fairness).
  `Return` competes with ready values in a select, which Go decides at random (strong fairness).
- The daemon answers requests, sends what it has and is started again after it died
  (weak fairness). Faults and daemon events are under no fairness, and faults are finitely
  many: `IndicatorFollows` is about a daemon that stays up at last.
- The fragments poll, requests are carried out (weak fairness), and `Lister.mu` is handed over to a request that
  has starved (strong fairness, as above). In `Control` polls go on, and a connection that broke is noticed (weak fairness).
  A switch that has begun is completed. Clicks, sessions and the focus have no fairness.
- Neither the cancelling of the context nor a selection has fairness.

## Proofs

`HubProofs` proves, for any set of connections, any capacity of at least one and any
number of values:

| theorem | says |
|---|---|
| `TypeCorrect` | `Spec => []TypeOK`, the bound on each channel included |
| `SendsAreSafe` | `Spec => []NoSendOnClosed` |
| `HeadStartHolds` | `Spec => []HeadStart` |
| `NothingVanishes` | `Spec => []Conservation` |
| `HubImplementsFeed` | `Spec => FeedSpec` |

None of the last four is inductive alone. The invariant that carries them has two parts:

- `Sync` relates the mutex, the visit, the channels and the places of the handlers: only
  a handler between its subscription and its cancel has a channel in `subs`, only an
  ended one has a closed channel, and what Broadcast still visits is part of `subs`. The
  last needs that a cancel excludes a visit, which is the mutex.
- `Ordered` says of each connection that the join point, the values written, the value
  being written, the values in the channel and, if the channel is still to be visited, the
  value being broadcast follow each other in strictly increasing order. That is why
  delivery is in order without repetition (the refinement), and why a channel that is full
  has seen at least `Cap` values since the connection joined (the head start).

The lemmas `InOrder...` say how that order survives an append, a receive and a write; they are
about sequences only. The refinement maps Subscribe to Join, Write to Deliver,
BroadcastLock to Publish, Return and WriteFails to Leave, and every other step to a stutter.

The proofs rest on `CapAssumption` and `BoundAssumption` of `Hub`, which the run of the hub evaluates.

`TimelineViewProofs` proves of `PreviewStore`, for any contents and any `maxArtifacts` of at least one:

| theorem | says |
|---|---|
| `StoreCorrect` | `StoreSpec => []StoreOK` |
| `StoreImplements` | `StoreSpec => StoreRefines` |

`StoreOK` is inductive. Its third conjunct is why: the ids in `order` are the last ones that were given out, without a hole, so
an id that is put is new, and an id that stays after an eviction was there before it (`PutKeepsOK`). The refinement maps an id to its
artifact. What `put` cuts off the ids is what `LastArtifacts` cuts off the artifacts (`EvictedIsLast`), and the ids that
stay keep theirs (`LastPut`). The proofs rest on `StoreAssumption`, which the run `view` evaluates.

`ControlProofs` proves, for any requests, sessions, approvals and any number of faults:

| theorem | says |
|---|---|
| `TypeCorrect` | `Spec => []TypeOK` |
| `OnlyFocusedAnswered` | `Spec => []OnlyFocused` |
| `OneConnectionAlive` | `Spec => []OneConnection` |

The invariant says of each request what it knows at its place (`RequestOK`): that it holds `mu` exactly while it dials or opens, and
that what it has listed is of the session it found focused, which the two properties need but do not say of the places between the
listing and the answer. `Held` and `LiveOwned` say who may own a connection: the Controller, or the one request that holds the mutex.

`PageProofs` proves `TypeCorrect` (`Spec => []TypeOK`) and `FailsOncePerLoss` (`Spec => []OneFailurePerLoss`), for any sessions,
workspaces and number of events. A failed listing leaves no broken connection behind (`Forgiven`); that it can, needs that the
request that calls is the one that holds `Lister.mu` (`RequestOK`).

`BridgeProofs` and `TimelineProofs` prove, for any streams, lengths of the logs, epochs, faults and connections (and selections), with
compaction or without:

| theorem | of `Bridge` says | of `Timeline` says |
|---|---|---|
| `TypeCorrect` | `Spec => []TypeOK` | the same |
| `ResumesWithoutHoles` | `Spec => []NothingSkipped` | the same |
| `SubscribesExactlyWhenNeeded` | `Spec => []ResubExact` | |
| `TokensKept` | | `Spec => []TokensNotLost` |
| `SessionsNeverMixed` | | `Spec => []OneSession` |
| `NothingRepeatedWithoutFallback` | `Spec => ReplayOnlyAfterFallback` | the same |

What these properties say of the follower depends on what is still on its way to it, of which they say nothing. So their invariants are
about the wire:

- `NoHoles`: what precedes the first event of a record on the wire was folded, or comes before the record on the wire (`Continues`), and so does
  what precedes the daemon's position (`Reaches`). Both are in `DaemonProofs`, with the lemmas on what a daemon's step, a frame that is put
  on the wire and a frame that is taken off do to them.
- `Told`: when a subscription has ended, its notice is on the wire or its token in `resub`; while its consent is on the way, too, which is what makes it inductive.
- `Fresh`: until a fallback, what is on the wire is new, and so is what the daemon sends next. Hence the first frame is, when it is taken.
- `OneToken` (`Bridge`): a notice or token is alone, with nothing behind it, and no subscription is active beside it. It does not hold once a call was given up, by a cancel or by a
  connection that breaks; the properties exempt or do not reach these.
- `OneStream`, `EpochOK`, `Answers` (`Timeline`): all on the connection is of the stream that is followed, or while it is left, of the one before; the
  reply to `events.unsubscribe` comes after its last frame, so that the next stream begins on an empty wire. `Shown` and `SelectOK` are what remains for
  the panel and the token of a selection.

`TimelineViewProofs` proves of `TimelineView`, for any sessions and artifacts, any capacity of the hub channel and any number of blocks, turns, clicks and drops:

| theorem | says |
|---|---|
| `TypeCorrect` | `Spec => []TypeOK` |
| `NoBlockUnaccounted` | `Spec => []BlocksAccounted` |
| `PreviewsLoad` | `Spec => []ShownPreviewLoads` |
| `StoreStaysSound` | `Spec => []StoreOK` |
| `PreviewsImplement` | `Spec => StoreRefines` |

`BlocksAccounted` counts; its invariant says why the count is right: the blocks that are shown, coming and gone have nothing in common, none is in the
channel or in `lost` twice (`Parts`), and none is numbered beyond what was rendered (`TurnsOK`). A clear frame in the channel is between the blocks of the earlier turns and those of the present one
(`ClearOK`), so when it empties the panel there is no block of the present turn in it. The counting itself is `ThreeParts` and `AsManyBeginnings`. `PreviewsOK` follows a frame
from the put of its artifact; `InStore` says that the artifact is still there, and `StoreSteps` that the application does nothing to the store but put.

`CoalescerProofs` proves, for any ids and names of tool calls, any streams and any number of events and replays:

| theorem | says |
|---|---|
| `TypeCorrect` | `Spec => []TypeOK` |
| `UsageIsLatest` | `Spec => []UsageLatest` |
| `ToolsAreCorrect` | `Spec => []ToolsCorrect` |
| `CardsAndIndexAgree` | `Spec => []CardsAgree` |
| `TextIsCoalesced` | `Spec => []Coalesced` |
| `TimelineIsComplete` | `Spec => []Complete` |

`UsageLatest` and `ToolsCorrect` are about a stream that has been gone through; in the middle of a replay they do not hold. So the invariant
(`FoldOK`) is about the part that came again and the rest: once one of the events that decide a value is among those that came (again), the value is that of the last
of them; until then, it is that of any of them (`Tracks`). At the end of the stream nothing is the rest (`TracksLast`). The other properties have an invariant each, on top of it:

- `FramesOK`: every call in the index has a card, every swap one before it, and without a replay the last frames about a call say what its entry says.
- `TextOK`: every text in the frames is the beginning of a block, and a whole one that cannot grow any more, but for one per replay. The buffer has exactly the text that is
  open at the cursor (`Fresh`), or a replay has just begun and the cut that its text will make is not yet counted (`Rerun`). That a stream begins with something that is no chunk (`StartsQuiet`)
  is why what a replay repeats does not run into that text.
- `OrderOK`: the next event does not go back behind the last frame that has content, or there is one replay more than steps back (`UpTo`, `Back`). What an event does to the frames is in two lemmas,
  `GathersOrFlushes` and `FlushesSays`.

Each proof rests on the assumption that its module names (`DaemonAssumption`, `TimelineAssumption`, `ControlAssumption`, ...), which its run evaluates. They ask only for
constants of the right kind, and that there be a first epoch, a stream to follow, and room for one frame and one artifact.

Only model-checked:

- all liveness (TLAPS does not do ENABLED and fairness);
- the violations, by nature.

## Findings

- `bridge_replay`. `subscribe` resets the cursor after every error that is not a compacted
  cursor. When the call failed because the connection broke, `follow` returns, the daemon is
  the same, and the next connection replays the whole stream into the browser log. The
  doc of type `Bridge` says that the cursor is resumed across reconnects so that this does not happen.
  A trace: events are relayed, the subscription is closed, the connection breaks during the re-subscribe.
- `view_reselect`. A click on the session that is shown already makes `/select` answer with an empty panel. `setStream` returns
  early, so the follower renders nothing again, and `sse-connect` is on the element around the panel, so nothing is reconnected; a new connection would get no
  history from the hub either. The blocks are gone until another session is chosen. The docs of `handleSelect` and of
  `TimelinePanel` call the panel one that reconnects the stream. The same happens to blocks that arrive before the response of a `/select`
  for another session (`BlocksAccounted` names them `"swapped"`), and to those rendered before the page has its connection (`"closed"`).
- `page_composer`. Only the shell renders `Composer`, with what was found when the page was loaded. A page that was loaded before
  the daemon answered, or before the timeline had picked a session, gets its header later and its input never.
- `coalescer_replayed_card`. A replay renders the card of a known call once more, with its first name.
  The update that refined only the name is no change to the list any more, so no swap is broadcast, and the new card
  keeps the first name. Status and input do not have this problem: their swaps are broadcast whether they change or not.

Without a run:

- `resub` belongs to the connection, not to the followed stream. A close that is handled before a switch leaves a
  token that `serve` takes after it: the needless re-subscribe that the comment in `onNotify` (`timeline.go:320-322`) means to exclude. Whether the
  daemon refuses it (then the connection is dropped) or moves the subscription (then events come twice) is up to the daemon.
- `ToolRef.Kind` is computed from the first name and stays when an update refines the name, against its doc. A tool that turns
  out to be `edit_buffer` stays under "tool" (`timeline.go:408`, `session/tools.go:12-13`).
- An approval is checked and answered in two calls (`server.go:226-228`). The focus may move between them; `OnlyFocused` is about the session that had the focus at the check.
- A prompt is answered with 204 before its call is made. On a connection that broke unnoticed it is lost, and the page has
  emptied its input by then (`controller.go:106-112`); the doc of `Prompt` says that turn errors surface as session events.
- `argSummary` takes the first scalar field of a map for an unknown tool. Go's map order is random, so a replay may show another field (`timeline.go:512`).
- A replay, or a switch back, puts the artifacts of a stream into the preview store again under new ids; the limit counts all of them.

## What is not modelled

- Markdown rendering: a pure function of a library.
- Templates beyond what they decide (see Modules): layout, formatting of numbers, labels and diffs. `/events` renders a line per event of the workspace; its feed is `Bridge` and `Hub`.
- Scrolling and formatting in the page; vendored code (htmx, Alpine, the web view). The swaps of htmx are modelled as the attributes of the templates ask for them.
- `main.go` beyond its cancel and its deferred closes: a sequence of constructors.
- Tokens, headers and the content security policy of the two servers: constants of a run.
- The composition of `Timeline` with `TimelineView`: the product is out of TLC's reach; their interface is `setStream`, which both have.

## Plan

Every safety invariant, action property and refinement of the runs is proved. What may follow: the parts of the proofs that a reader would want to cite as results of
their own, e.g. that the wire of `Daemon` carries one stream at a time; and, should the client library become part of this
repository, `Daemon` from its source.
