-------------------------------- MODULE Daemon --------------------------------
(***************************************************************************)
(* The environment of one follower (bridge.Bridge or timeline.Timeline):   *)
(* the tend daemon with its event streams, and the follower's connection   *)
(* to it.  Neither the daemon nor the client library is part of tend-ui;   *)
(* what they do is read off the calls of internal/bridge and               *)
(* internal/timeline, their comments and their tests.                      *)
(*                                                                         *)
(*   - A stream is a log of events numbered from 1.  A restart of the      *)
(*     daemon is a new epoch, whose logs start from nothing.               *)
(*   - Old events may be compacted into a summary record.  A record        *)
(*     carries the cursor to store after it: its own number, or the end of *)
(*     the range it sums up.  A cursor inside a range cannot be resumed    *)
(*     from; the refusal names the boundary before the range.              *)
(*   - A subscription sends the records after its cursor, in order, once.  *)
(*     The daemon may end it with a notice while the connection stays up.  *)
(*   - Frames arrive in the order in which they were sent and are handled  *)
(*     one at a time on the read goroutine.  When the connection breaks    *)
(*     those on their way may be lost, the later ones first.               *)
(*   - A Call has one request in flight.  Once Close has returned nothing  *)
(*     more is read.                                                       *)
(***************************************************************************)
EXTENDS Integers, Sequences

CONSTANTS
    Streams,    \* the event streams
    MaxSeq,     \* bound: events per stream and epoch
    MaxEpoch,   \* bound: daemon epochs
    MaxFaults,  \* bound: crashes, broken connections, refusals, closed subscriptions
    Compacts    \* whether the daemon compacts its logs

ASSUME DaemonAssumption ==
    MaxSeq \in Nat /\ MaxEpoch \in Nat \ {0} /\ MaxFaults \in Nat /\ Compacts \in BOOLEAN

VARIABLES
    epoch,      \* the daemon's epoch
    up,         \* the daemon is running
    head,       \* stream -> number of its last event
    summary,    \* stream -> the range that is summed up
    pos,        \* stream -> last number sent to our subscription, -1 if none
    link,       \* our connection
    wire,       \* the frames on their way to us
    rpc,        \* the Call in progress
    faults      \* how many faults have happened

daemonVars == <<epoch, up, head, summary, pos, link, wire, rpc, faults>>

Ranges == [from : 0..MaxSeq, to : 0..MaxSeq]
NoRange == [from |-> 0, to |-> 0]

(* first..cursor is the range of event numbers a record stands for. *)
Push(s, r) == [kind |-> "push", stream |-> s, first |-> r.from, cursor |-> r.to]
Closed(s) == [kind |-> "closed", stream |-> s, first |-> 0, cursor |-> 0]
Reply(s) == [kind |-> "reply", stream |-> s, first |-> 0, cursor |-> 0]

Frames ==
    [kind : {"push", "closed", "reply"}, stream : Streams,
     first : 0..MaxSeq, cursor : 0..MaxSeq]

(* Where a Call is, what it asked, and its answer. *)
Calls ==
    [at : {"idle", "sent", "due", "wired", "answered"},
     op : {"none", "subscribe", "unsubscribe"},
     stream : Streams, from : 0..MaxSeq,
     result : {"none", "ok", "compacted", "error"}, boundary : 0..MaxSeq]

Idle ==
    [at |-> "idle", op |-> "none", stream |-> CHOOSE s \in Streams : TRUE, from |-> 0,
     result |-> "none", boundary |-> 0]

DaemonTypeOK ==
    /\ epoch \in 1..MaxEpoch
    /\ up \in BOOLEAN
    /\ head \in [Streams -> 0..MaxSeq]
    /\ summary \in [Streams -> Ranges]
    /\ pos \in [Streams -> -1..MaxSeq]
    /\ link \in {"none", "open", "broken"}
    /\ wire \in Seq(Frames)
    /\ rpc \in Calls
    /\ faults \in 0..MaxFaults

DaemonInit ==
    /\ epoch = 1
    /\ up = TRUE
    /\ head = [s \in Streams |-> 0]
    /\ summary = [s \in Streams |-> NoRange]
    /\ pos = [s \in Streams |-> -1]
    /\ link = "none"
    /\ wire = <<>>
    /\ rpc = Idle
    /\ faults = 0

-----------------------------------------------------------------------------
(* The daemon's streams *)

Fault == faults < MaxFaults /\ faults' = faults + 1

Emit(s) ==
    /\ up
    /\ head[s] < MaxSeq
    /\ head' = [head EXCEPT ![s] = @ + 1]
    /\ UNCHANGED <<epoch, up, summary, pos, link, wire, rpc, faults>>

Inside(n, r) == r.from <= n /\ n < r.to

(* The summed up range appears or grows.  A subscription is not in the     *)
(* middle of it.                                                           *)
Compact(s) ==
    /\ Compacts
    /\ up
    /\ \E r \in [from : 1..head[s], to : 1..head[s]] :
          /\ r.from < r.to
          /\ summary[s] # r
          /\ summary[s] = NoRange \/ (r.from <= summary[s].from /\ summary[s].to <= r.to)
          /\ ~Inside(pos[s], r)
          /\ summary' = [summary EXCEPT ![s] = r]
    /\ UNCHANGED <<epoch, up, head, pos, link, wire, rpc, faults>>

(* The daemon dies: its streams and its connections are gone. *)
Crash ==
    /\ up
    /\ epoch < MaxEpoch
    /\ Fault
    /\ up' = FALSE
    /\ epoch' = epoch + 1
    /\ head' = [s \in Streams |-> 0]
    /\ summary' = [s \in Streams |-> NoRange]
    /\ pos' = [s \in Streams |-> -1]
    /\ link' = IF link = "open" THEN "broken" ELSE link
    /\ \E n \in 0..Len(wire) : wire' = SubSeq(wire, 1, n)
    /\ UNCHANGED rpc

Restart ==
    /\ ~up
    /\ up' = TRUE
    /\ UNCHANGED <<epoch, head, summary, pos, link, wire, rpc, faults>>

(* The connection breaks though the daemon lives. *)
Break ==
    /\ link = "open"
    /\ Fault
    /\ link' = "broken"
    /\ pos' = [s \in Streams |-> -1]
    /\ \E n \in 0..Len(wire) : wire' = SubSeq(wire, 1, n)
    /\ UNCHANGED <<epoch, up, head, summary, rpc>>

-----------------------------------------------------------------------------
(* Our subscriptions *)

(* The record that follows event number n of stream s. *)
RecordAfter(s, n) ==
    IF summary[s].from = n + 1 THEN summary[s] ELSE [from |-> n + 1, to |-> n + 1]

PushNext(s) ==
    /\ link = "open"
    /\ pos[s] # -1
    /\ pos[s] < head[s]
    /\ LET r == RecordAfter(s, pos[s])
       IN  /\ wire' = Append(wire, Push(s, r))
           /\ pos' = [pos EXCEPT ![s] = r.to]
    /\ UNCHANGED <<epoch, up, head, summary, link, rpc, faults>>

(* The daemon ends a subscription: it overflowed, or the stream ended. *)
CloseSubscription(s) ==
    /\ link = "open"
    /\ pos[s] # -1
    /\ Fault
    /\ wire' = Append(wire, Closed(s))
    /\ pos' = [pos EXCEPT ![s] = -1]
    /\ UNCHANGED <<epoch, up, head, summary, link, rpc>>

Answer(result, boundary) ==
    rpc' = [rpc EXCEPT !.at = "due", !.result = result, !.boundary = boundary]

(* events.subscribe for a stream we are not subscribed to. *)
HandleSubscribe ==
    /\ link = "open"
    /\ rpc.at = "sent" /\ rpc.op = "subscribe"
    /\ pos[rpc.stream] = -1
    /\ LET s == rpc.stream
       IN  IF Inside(rpc.from, summary[s])
           THEN /\ Answer("compacted", summary[s].from - 1)
                /\ UNCHANGED pos
           ELSE IF rpc.from > head[s]
           THEN /\ Answer("error", 0)
                /\ UNCHANGED pos
           ELSE /\ Answer("ok", 0)
                /\ pos' = [pos EXCEPT ![s] = rpc.from]
    /\ UNCHANGED <<epoch, up, head, summary, link, wire, faults>>

(* A second events.subscribe for a stream: nothing in tend-ui says whether *)
(* it is refused or moves the subscription, so either may happen.          *)
HandleSecondSubscribe ==
    /\ link = "open"
    /\ rpc.at = "sent" /\ rpc.op = "subscribe"
    /\ pos[rpc.stream] # -1
    /\ \/ /\ Answer("error", 0)
          /\ UNCHANGED pos
       \/ /\ Answer("ok", 0)
          /\ pos' = [pos EXCEPT ![rpc.stream] = rpc.from]
    /\ UNCHANGED <<epoch, up, head, summary, link, wire, faults>>

(* The daemon refuses for a reason of its own. *)
Refuse ==
    /\ link = "open"
    /\ rpc.at = "sent" /\ rpc.op = "subscribe"
    /\ Fault
    /\ Answer("error", 0)
    /\ UNCHANGED <<epoch, up, head, summary, pos, link, wire>>

(* Nothing in tend-ui says what becomes of events.unsubscribe for a stream *)
(* that is not subscribed, so either answer may come.                      *)
HandleUnsubscribe ==
    /\ link = "open"
    /\ rpc.at = "sent" /\ rpc.op = "unsubscribe"
    /\ \/ Answer("ok", 0)
       \/ pos[rpc.stream] = -1 /\ Answer("error", 0)
    /\ pos' = [pos EXCEPT ![rpc.stream] = -1]
    /\ UNCHANGED <<epoch, up, head, summary, link, wire, faults>>

(* The answer is sent; records may have gone out before it. *)
SendReply ==
    /\ link = "open"
    /\ rpc.at = "due"
    /\ wire' = Append(wire, Reply(rpc.stream))
    /\ rpc' = [rpc EXCEPT !.at = "wired"]
    /\ UNCHANGED <<epoch, up, head, summary, pos, link, faults>>

-----------------------------------------------------------------------------
(* The client library: parts of a follower's steps *)

(* client.Dial, which succeeds only with a running daemon. *)
Connect ==
    /\ up
    /\ link = "none"
    /\ link' = "open"
    /\ UNCHANGED <<epoch, up, head, summary, pos, wire, rpc, faults>>

(* Conn.Close: nothing more is read, the daemon drops the subscriptions. *)
Disconnect ==
    /\ link' = "none"
    /\ wire' = <<>>
    /\ rpc' = Idle
    /\ pos' = [s \in Streams |-> -1]
    /\ UNCHANGED <<epoch, up, head, summary, faults>>

(* Conn.Call sends its request; what Call returns comes later. *)
Request(op, s, from) ==
    rpc' = [Idle EXCEPT !.at = "sent", !.op = op, !.stream = s, !.from = from]

(* The next frame is taken off the wire by the read goroutine. *)
Incoming(kind) == link # "none" /\ wire # <<>> /\ Head(wire).kind = kind

ReadReply ==
    /\ Incoming("reply")
    /\ wire' = Tail(wire)
    /\ rpc' = IF rpc.at = "wired" THEN [rpc EXCEPT !.at = "answered"] ELSE rpc
    /\ UNCHANGED <<epoch, up, head, summary, pos, link, faults>>

(* Conn.Done: the read goroutine has come to the end of the wire. *)
Done == link = "broken" /\ wire = <<>>

(* A Call fails without an answer once the connection is broken. *)
CallBroken == link = "broken" /\ rpc.at # "answered"

DaemonStep ==
    \/ \E s \in Streams : Emit(s) \/ Compact(s) \/ PushNext(s) \/ CloseSubscription(s)
    \/ Crash \/ Restart \/ Break
    \/ HandleSubscribe \/ HandleSecondSubscribe \/ Refuse \/ HandleUnsubscribe
    \/ SendReply

(* The daemon serves its connections and is started again when it died. *)
DaemonFairness ==
    /\ \A s \in Streams : WF_daemonVars(PushNext(s))
    /\ WF_daemonVars(HandleSubscribe \/ HandleSecondSubscribe)
    /\ WF_daemonVars(HandleUnsubscribe)
    /\ WF_daemonVars(SendReply)
    /\ WF_daemonVars(Restart)
=============================================================================
