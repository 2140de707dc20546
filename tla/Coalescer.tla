------------------------------ MODULE Coalescer ------------------------------
(***************************************************************************)
(* What internal/timeline folds the events of the followed session into:   *)
(* the coalescer of coalesce.go, which turns chunks of text into blocks,   *)
(* and the usage and the tool calls of timeline.go.  onNotify handles one  *)
(* event under the mutex t.mu, so that is one step.  setStream empties     *)
(* everything; the fallback of subscribe starts the stream again from its  *)
(* first event and empties nothing.                                        *)
(*                                                                         *)
(* A text, an input and a usage are named by the position of their event.  *)
(* shown is what a browser got that takes every frame.                     *)
(***************************************************************************)
EXTENDS Integers, SequencesExt

CONSTANTS
    ToolIDs,        \* the ids of tool calls
    NoID,           \* the empty id
    Names,          \* the names of tools
    EditNames,      \* those that toolKind takes for edits
    NoName,         \* the empty name
    Alphabets,      \* bound: pairs of some types and the number of events of a
                    \* stream that has only these
    MaxEvents,      \* bound: events per stream
    MaxReplays      \* bound: replays from the first event

ASSUME CoalescerAssumption ==
    /\ NoID \notin ToolIDs /\ NoName \notin Names /\ EditNames \subseteq Names
    /\ MaxEvents \in Nat /\ MaxReplays \in Nat

VARIABLES
    stream,     \* the events of the session so far (external)
    next,       \* position of the event that is delivered next (external)
    replays,    \* how many replays there were of this session (external)
    buf,        \* coalescer.buf, the chunks in it
    kind,       \* coalescer.kind
    tools,      \* Timeline.tools
    toolIdx,    \* Timeline.toolIdx
    usage,      \* Timeline.usage: part -> the event it is from, 0 if none
    shown       \* the frames broadcast since the last clearFrame

externalVars == <<stream, next, replays>>
vars == <<externalVars, buf, kind, tools, toolIdx, usage, shown>>

Chunks == {"message", "thought"}
UsageParts == {"context", "token", "prompt"}

(* "block" stands for user_prompt, artifact_written, agent_error, summary  *)
(* and turn_end; "other" for every type that is not shown, and for the     *)
(* former with a payload that does not decode; "garbled" is a chunk with   *)
(* such a payload.  An empty status, name or input says nothing.           *)
EventTypes ==
    [type : Chunks, text : BOOLEAN]
    \cup [type : {"block", "other", "garbled"}]
    \cup [type : {"usage"}, part : UsageParts]
    \cup [type : {"tool_call"}, id : ToolIDs \cup {NoID}, name : Names]
    \cup [type : {"tool_call_update"}, id : ToolIDs, status : {"", "completed"},
          name : Names \cup {NoName}, input : BOOLEAN]

Events == {e \in EventTypes : e.type \in UNION {a[1] : a \in Alphabets}}

TypesOf(s) == {s[i].type : i \in DOMAIN s}

ToolKind(name) == IF name \in EditNames THEN "edit" ELSE "tool"

Refs ==
    [id : ToolIDs, name : Names, kind : {"edit", "tool"}, input : 1..MaxEvents,
     status : {"running", "completed"}]

(* parts are the events behind a frame. *)
Text(k, parts) == [kind |-> k, parts |-> parts]
Block(n) == [kind |-> "block", parts |-> <<n>>]
Card(n, e) == [kind |-> "card", parts |-> <<n>>, id |-> e.id, name |-> e.name, input |-> n]
Status(r) == [kind |-> "status", parts |-> <<>>, id |-> r.id, status |-> r.status]
Refine(r) == [kind |-> "refine", parts |-> <<>>, id |-> r.id, name |-> r.name, input |-> r.input]

TypeOK ==
    /\ stream \in Seq(Events) /\ Len(stream) <= MaxEvents
    /\ next \in 1..Len(stream) + 1
    /\ replays \in 0..MaxReplays
    /\ buf \in Seq(1..MaxEvents)
    /\ kind \in Chunks \cup {""}
    /\ tools \in Seq(Refs)
    /\ DOMAIN toolIdx \subseteq ToolIDs
    /\ usage \in [UsageParts -> 0..MaxEvents]
    /\ kind = "" => buf = <<>>

NoIndex == [id \in {} |-> 0]
NoUsage == [p \in UsageParts |-> 0]

Init ==
    /\ stream = <<>>
    /\ next = 1
    /\ replays = 0
    /\ buf = <<>>
    /\ kind = ""
    /\ tools = <<>>
    /\ toolIdx = NoIndex
    /\ usage = NoUsage
    /\ shown = <<>>

-----------------------------------------------------------------------------
(* onNotify: one action per kind of event e, at position n of the stream.  *)

(* flush: the text in the buffer becomes a frame. *)
Flushed == IF buf = <<>> THEN <<>> ELSE <<Text(kind, buf)>>

(* Mutant of FlushBetween: the buffer is not reset. *)
FlushKeepsText(before, after) ==
    /\ shown' = shown \o before \o Flushed \o after
    /\ UNCHANGED buf
    /\ kind' = ""

FlushBetween(before, after) ==
    /\ shown' = shown \o before \o Flushed \o after
    /\ buf' = <<>>
    /\ kind' = ""

(* Mutant of Chunk: the text of the other kind is dropped. *)
ChunkDrops(n, e) ==
    /\ e.type \in Chunks
    /\ kind' = e.type
    /\ LET kept == IF kind = e.type THEN buf ELSE <<>>
       IN  buf' = IF e.text THEN Append(kept, n) ELSE kept
    /\ UNCHANGED <<shown, tools, toolIdx, usage>>

(* accumulate: a chunk of the other kind flushes first. *)
Chunk(n, e) ==
    /\ e.type \in Chunks
    /\ kind' = e.type
    /\ LET kept == IF kind = e.type THEN buf ELSE <<>>
       IN  buf' = IF e.text THEN Append(kept, n) ELSE kept
    /\ shown' = IF kind = e.type THEN shown ELSE shown \o Flushed
    /\ UNCHANGED <<tools, toolIdx, usage>>

GarbledChunk(e) ==
    /\ e.type = "garbled"
    /\ UNCHANGED <<buf, kind, shown, tools, toolIdx, usage>>

(* Mutant of Discrete: the buffer is not flushed. *)
DiscreteKeepsBuffer(n, e) ==
    /\ e.type \in {"block", "other"}
    /\ shown' = IF e.type = "block" THEN Append(shown, Block(n)) ELSE shown
    /\ UNCHANGED <<buf, kind, tools, toolIdx, usage>>

(* renderDiscrete, but for a tool call. *)
Discrete(n, e) ==
    /\ e.type \in {"block", "other"}
    /\ FlushBetween(<<>>, IF e.type = "block" THEN <<Block(n)>> ELSE <<>>)
    /\ UNCHANGED <<tools, toolIdx, usage>>

(* Mutant of UsageEvent: what has been reported once stays. *)
UsageKeepsFirst(n, e) ==
    /\ e.type = "usage"
    /\ usage' = [usage EXCEPT ![e.part] = IF @ = 0 THEN n ELSE @]
    /\ FlushBetween(<<>>, <<>>)
    /\ UNCHANGED <<tools, toolIdx>>

(* applyUsage: the latest event of each part wins. *)
UsageEvent(n, e) ==
    /\ e.type = "usage"
    /\ usage' = [usage EXCEPT ![e.part] = n]
    /\ FlushBetween(<<>>, <<>>)
    /\ UNCHANGED <<tools, toolIdx>>

NewRef(n, e) ==
    [id |-> e.id, name |-> e.name, kind |-> ToolKind(e.name), input |-> n, status |-> "running"]

(* The index with the next entry of the list. *)
Indexed(id) ==
    [x \in DOMAIN toolIdx \cup {id} |-> IF x = id THEN Len(tools) + 1 ELSE toolIdx[x]]

(* Mutant of ToolCall: a call that is known is appended once more. *)
ToolCallAgain(n, e) ==
    /\ e.type = "tool_call"
    /\ IF e.id = NoID
       THEN UNCHANGED <<tools, toolIdx>>
       ELSE /\ toolIdx' = Indexed(e.id)
            /\ tools' = Append(tools, NewRef(n, e))
    /\ FlushBetween(<<>>, <<Card(n, e)>>)
    /\ UNCHANGED usage

(* applyTools indexes a call unless it has no id or is known; the          *)
(* coalescer renders its card in any case.                                 *)
ToolCall(n, e) ==
    /\ e.type = "tool_call"
    /\ IF e.id = NoID \/ e.id \in DOMAIN toolIdx
       THEN UNCHANGED <<tools, toolIdx>>
       ELSE /\ toolIdx' = Indexed(e.id)
            /\ tools' = Append(tools, NewRef(n, e))
    /\ FlushBetween(<<>>, <<Card(n, e)>>)
    /\ UNCHANGED usage

(* What an update makes of r, and the swaps it broadcasts. *)
Updated(r, n, e) ==
    [r EXCEPT !.status = IF e.status = "" THEN @ ELSE e.status,
              !.name = IF e.name = NoName THEN @ ELSE e.name,
              !.input = IF e.input THEN n ELSE @]

(* Mutant of Refines: a new name is not a change. *)
RefinesInput(r, e) == e.input
Refines(r, e) == e.input \/ e.name \notin {NoName, r.name}

Swaps(r, n, e) ==
    LET u == Updated(r, n, e)
    IN  (IF e.status = "" THEN <<>> ELSE <<Status(u)>>)
        \o (IF Refines(r, e) THEN <<Refine(u)>> ELSE <<>>)

(* Mutant of ToolCallUpdate: an unknown call gets its swap, too. *)
UpdateOfUnknown(n, e) ==
    /\ e.type = "tool_call_update"
    /\ IF e.id \in DOMAIN toolIdx
       THEN LET i == toolIdx[e.id]
            IN  /\ tools' = [tools EXCEPT ![i] = Updated(@, n, e)]
                /\ FlushBetween(Swaps(tools[i], n, e), <<>>)
       ELSE /\ UNCHANGED tools
            /\ FlushBetween(<<Status([id |-> e.id, status |-> "completed"])>>, <<>>)
    /\ UNCHANGED <<toolIdx, usage>>

(* applyTools changes the entry and broadcasts the swaps, then the         *)
(* coalescer flushes.                                                      *)
ToolCallUpdate(n, e) ==
    /\ e.type = "tool_call_update"
    /\ IF e.id \in DOMAIN toolIdx
       THEN LET i == toolIdx[e.id]
            IN  /\ tools' = [tools EXCEPT ![i] = Updated(@, n, e)]
                /\ FlushBetween(Swaps(tools[i], n, e), <<>>)
       ELSE UNCHANGED tools /\ FlushBetween(<<>>, <<>>)
    /\ UNCHANGED <<toolIdx, usage>>

OnPush(n, e) ==
    \/ Chunk(n, e) \/ GarbledChunk(e) \/ Discrete(n, e) \/ UsageEvent(n, e)
    \/ ToolCall(n, e) \/ ToolCallUpdate(n, e)

-----------------------------------------------------------------------------
(* The stream *)

Mentions(e, id) == e.type \in {"tool_call", "tool_call_update"} /\ e.id = id

(* A session begins with something that is not a chunk: agents speak when  *)
(* they are prompted.  A call comes before its updates, and comes once.    *)
MayFollow(s, e) ==
    /\ s = <<>> => e.type \notin Chunks \cup {"garbled"}
    /\ e.type = "tool_call" /\ e.id # NoID => \A n \in DOMAIN s : ~Mentions(s[n], e.id)

(* The next event is a new one, or in a replay an old one. *)
NextEvent(e) ==
    \/ /\ next <= Len(stream)
       /\ e = stream[next]
       /\ UNCHANGED stream
    \/ /\ next = Len(stream) + 1
       /\ next <= MaxEvents
       /\ MayFollow(stream, e)
       /\ stream' = Append(stream, e)

(* The events that the bound lets come next. *)
Candidates ==
    LET Fits(a) == TypesOf(stream) \subseteq a[1] /\ Len(stream) < a[2]
        types == UNION {a[1] : a \in {b \in Alphabets : Fits(b)}}
    IN  {e \in Events : e.type \in types}

Deliver ==
    /\ \E e \in IF next <= Len(stream) THEN {stream[next]} ELSE Candidates :
          NextEvent(e) /\ OnPush(next, e)
    /\ next' = next + 1
    /\ UNCHANGED replays

(* subscribe falls back to cursor 0. *)
Replay ==
    /\ next > 1
    /\ replays < MaxReplays
    /\ next' = 1
    /\ replays' = replays + 1
    /\ UNCHANGED <<stream, buf, kind, tools, toolIdx, usage, shown>>

(* Mutant of SetStream: the buffer is not reset. *)
SetStreamKeepsBuffer ==
    /\ stream' = <<>> /\ next' = 1 /\ replays' = 0
    /\ tools' = <<>> /\ toolIdx' = NoIndex /\ usage' = NoUsage
    /\ shown' = <<>>
    /\ UNCHANGED <<buf, kind>>

(* setStream with another session: reset, no usage, no tools, clearFrame.  *)
(* There is no bound on switches, as they leave nothing behind.            *)
SetStream ==
    /\ stream' = <<>> /\ next' = 1 /\ replays' = 0
    /\ buf' = <<>> /\ kind' = ""
    /\ tools' = <<>> /\ toolIdx' = NoIndex /\ usage' = NoUsage
    /\ shown' = <<>>

Next == Deliver \/ Replay \/ SetStream

Spec == Init /\ [][Next]_vars

-----------------------------------------------------------------------------
(* The reference: what the timeline of a stream should be *)

IsText(n) == stream[n].type \in Chunks /\ stream[n].text

(* Two chunks belong to one block if nothing but chunks of their kind, and *)
(* what is ignored, comes between them.                                    *)
SameRun(m, n) ==
    \A i \in m..n \cup n..m : stream[i].type \in {stream[m].type, "garbled"}

RunOf(n) == {m \in DOMAIN stream : IsText(m) /\ SameRun(m, n)}

CallOf(id) == SelectInSeq(stream, LAMBDA e : e.type = "tool_call" /\ e.id = id)

(* The last update of a call that says something about one of its fields,  *)
(* or else the call.                                                       *)
LastAbout(id, Says(_)) ==
    LET u == SelectLastInSeq(stream,
                 LAMBDA e : e.type = "tool_call_update" /\ e.id = id /\ Says(e))
    IN  IF u = 0 THEN CallOf(id) ELSE u

NameOf(id) == stream[LastAbout(id, LAMBDA e : e.name # NoName)].name
InputOf(id) == LastAbout(id, LAMBDA e : e.input)
StatusOf(id) ==
    LET n == LastAbout(id, LAMBDA e : e.status # "")
    IN  IF n = CallOf(id) THEN "running" ELSE stream[n].status

-----------------------------------------------------------------------------
(* Properties *)

CaughtUp == next > Len(stream)

(* parts are the beginning of a block: chunks of this stream in order, of  *)
(* one kind, none left out, none twice.                                    *)
BeginsBlock(k, parts) ==
    LET run == RunOf(parts[1])
    IN  /\ ToSet(parts) \subseteq DOMAIN stream
        /\ stream[parts[1]].type = k
        /\ ToSet(parts) = {n \in run : n <= Last(parts)}
        /\ \A i, j \in DOMAIN parts : i < j => parts[i] < parts[j]

TextFrames == {i \in DOMAIN shown : shown[i].kind \in Chunks}

(* Chunks are put together as the package comment says: the blocks of text *)
(* are the runs of chunks of one kind.  A replay may cut one short, the    *)
(* one in the buffer, but never mixes it with what comes again.            *)
Coalesced ==
    /\ \A i \in TextFrames : BeginsBlock(shown[i].kind, shown[i].parts)
    /\ buf # <<>> => BeginsBlock(kind, buf)
    /\ Cardinality({i \in TextFrames : ToSet(shown[i].parts) # RunOf(shown[i].parts[1])})
            <= replays

(* The frames, the text in the buffer being the last. *)
AllFrames == shown \o Flushed

(* i is a frame with content, and goes back behind the one before it. *)
GoesBack(frames, i) ==
    /\ frames[i].parts # <<>>
    /\ \E j \in 1..i - 1 :
          /\ frames[j].parts # <<>> /\ \A k \in j + 1..i - 1 : frames[k].parts = <<>>
          /\ Last(frames[j].parts) >= frames[i].parts[1]

(* All that is to be shown is shown, or is in the buffer, and in the order *)
(* of the events; every replay goes back once.                             *)
NothingLost ==
    LET shownParts == UNION {ToSet(f.parts) : f \in ToSet(AllFrames)}
    IN  \A n \in DOMAIN stream :
            IsText(n) \/ stream[n].type \in {"block", "tool_call"} => n \in shownParts
InOrder ==
    LET frames == AllFrames
    IN  Cardinality({i \in DOMAIN frames : GoesBack(frames, i)}) <= replays
Complete == NothingLost /\ InOrder

(* Once it has caught up with the stream, after any replays, the jump      *)
(* index lists each call once, in the order of the calls, with the last    *)
(* status, name and input that were reported.                              *)
ToolsCorrect ==
    LET Called == {id \in ToolIDs : CallOf(id) # 0}
    IN  CaughtUp =>
            /\ DOMAIN toolIdx = Called
            /\ Len(tools) = Cardinality(Called)
            /\ \A id \in Called :
                  LET r == tools[toolIdx[id]]
                  IN  /\ r.id = id
                      /\ <<r.status, r.name, r.input>> = <<StatusOf(id), NameOf(id), InputOf(id)>>
            /\ \A id, jd \in Called : CallOf(id) < CallOf(jd) => toolIdx[id] < toolIdx[jd]

(* The doc of Usage: the latest event wins, so that the accounting stays   *)
(* correct across a replay.                                                *)
UsageLatest ==
    CaughtUp =>
        \A p \in UsageParts :
            usage[p] = SelectLastInSeq(stream, LAMBDA e : e.type = "usage" /\ e.part = p)

Shows(f, kinds, id) == f.kind \in kinds /\ f.id = id

(* A swap has a target: the card of its call was broadcast before it. *)
SwapHasCard ==
    \A i \in DOMAIN shown :
        shown[i].kind \in {"status", "refine"} =>
            \E j \in 1..i - 1 : Shows(shown[j], {"card"}, shown[i].id)

Agree ==
    \A k \in DOMAIN tools :
        LET r == tools[k]
            LastFrame(kinds) == shown[SelectLastInSeq(shown, LAMBDA f : Shows(f, kinds, r.id))]
            named == LastFrame({"card", "refine"})
            chip == LastFrame({"card", "status"})
        IN  /\ <<named.name, named.input>> = <<r.name, r.input>>
            /\ (IF chip.kind = "card" THEN "running" ELSE chip.status) = r.status

(* The card in the browser, which starts as running with what the call     *)
(* said, and the jump index say the same, as long as nothing is replayed;  *)
(* and no swap is broadcast, then or later, for a card that is not there.  *)
CardsAgree == SwapHasCard /\ (replays = 0 => Agree)

(* applyTools' comment: status, name and input are applied and broadcast   *)
(* each.  So card and index should say the same after a replay, too.       *)
CardsAgreeAfterReplay == CaughtUp => Agree
=============================================================================
