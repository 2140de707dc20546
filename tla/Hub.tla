--------------------------------- MODULE Hub ---------------------------------
(***************************************************************************)
(* internal/bridge/hub.go with its only consumer, serveSSE of              *)
(* internal/ui/server.go.                                                  *)
(*                                                                         *)
(* A producer calls Broadcast; every browser connection is one call of     *)
(* serveSSE, which subscribes, relays the values of its channel and        *)
(* cancels its subscription when it returns.  The i-th value broadcast is  *)
(* the number i.  Broadcast holds the mutex while it visits the channels,  *)
(* but a handler receives from its channel without the mutex, so the visit *)
(* is one step per channel.  Subscribe and cancel do all their work inside *)
(* one critical section and are one step each.                             *)
(*                                                                         *)
(* joined, written, missed and torn only record what happened.             *)
(***************************************************************************)
EXTENDS Integers, Sequences

CONSTANTS
    Clients,        \* the calls of serveSSE, one per browser connection
    Cap,            \* capacity of a subscriber's channel (64 in the code)
    MaxPublished    \* bound: how many values are broadcast

ASSUME CapAssumption == Cap \in Nat \ {0}
ASSUME BoundAssumption == MaxPublished \in Nat

VARIABLES
    published,  \* number of calls of Broadcast that took the mutex
    locked,     \* the mutex is held by a Broadcast
    visiting,   \* the channels that Broadcast still has to visit
    subs,       \* Hub.subs, a channel being named by its client
    closed,     \* the channels that have been closed
    buf,        \* client -> the values in its channel
    pc,         \* client -> where its handler is
    cur,        \* client -> the value its handler is writing
    gone,       \* the clients whose browser has disconnected
    joined,     \* client -> value of published when it subscribed
    written,    \* client -> the values flushed to its browser
    missed,     \* client -> the values skipped because its channel was full
    torn        \* client -> the value lost in a failed flush, 0 if none

hubVars == <<published, locked, visiting>>
historyVars == <<joined, written, missed, torn>>
vars == <<hubVars, subs, closed, buf, pc, cur, gone, historyVars>>

HandlerStates == {"new", "select", "write", "return", "ended"}

TypeOK ==
    /\ published \in 0..MaxPublished
    /\ locked \in BOOLEAN
    /\ visiting \subseteq Clients
    /\ subs \subseteq Clients
    /\ closed \subseteq Clients
    /\ gone \subseteq Clients
    /\ buf \in [Clients -> Seq(1..MaxPublished)]
    /\ \A c \in Clients : Len(buf[c]) <= Cap
    /\ pc \in [Clients -> HandlerStates]
    /\ cur \in [Clients -> 0..MaxPublished]
    /\ joined \in [Clients -> 0..MaxPublished]
    /\ written \in [Clients -> Seq(1..MaxPublished)]
    /\ missed \in [Clients -> SUBSET (1..MaxPublished)]
    /\ torn \in [Clients -> 0..MaxPublished]

Init ==
    /\ published = 0
    /\ locked = FALSE
    /\ visiting = {}
    /\ subs = {}
    /\ closed = {}
    /\ gone = {}
    /\ buf = [c \in Clients |-> <<>>]
    /\ pc = [c \in Clients |-> "new"]
    /\ cur = [c \in Clients |-> 0]
    /\ joined = [c \in Clients |-> 0]
    /\ written = [c \in Clients |-> <<>>]
    /\ missed = [c \in Clients |-> {}]
    /\ torn = [c \in Clients |-> 0]

-----------------------------------------------------------------------------
(* Hub.Broadcast: lock, visit every channel, unlock. *)

BroadcastLock ==
    /\ ~locked
    /\ published < MaxPublished
    /\ locked' = TRUE
    /\ published' = published + 1
    /\ visiting' = subs
    /\ UNCHANGED <<subs, closed, buf, pc, cur, gone, historyVars>>

(* The two outcomes of a send on c's channel. *)
Accept(c) ==
    /\ buf' = [buf EXCEPT ![c] = Append(@, published)]
    /\ UNCHANGED missed
Skip(c) ==
    /\ missed' = [missed EXCEPT ![c] = @ \cup {published}]
    /\ UNCHANGED buf

(* Mutants of Send: a channel without a bound; one slot too few; the loop  *)
(* is left at the first full channel; a send without a default.            *)
SendUnbounded(c) ==
    /\ c \in visiting \ closed
    /\ visiting' = visiting \ {c}
    /\ Accept(c)
    /\ UNCHANGED <<published, locked, subs, closed, pc, cur, gone, joined, written, torn>>
SendOneSlotLess(c) ==
    /\ c \in visiting \ closed
    /\ visiting' = visiting \ {c}
    /\ IF Len(buf[c]) < Cap - 1 THEN Accept(c) ELSE Skip(c)
    /\ UNCHANGED <<published, locked, subs, closed, pc, cur, gone, joined, written, torn>>
SendStopsAtFull(c) ==
    /\ c \in visiting \ closed
    /\ IF Len(buf[c]) < Cap
       THEN visiting' = visiting \ {c} /\ Accept(c)
       ELSE visiting' = {} /\ Skip(c)
    /\ UNCHANGED <<published, locked, subs, closed, pc, cur, gone, joined, written, torn>>
SendBlocks(c) ==
    /\ c \in visiting \ closed
    /\ visiting' = visiting \ {c}
    /\ Len(buf[c]) < Cap
    /\ Accept(c)
    /\ UNCHANGED <<published, locked, subs, closed, pc, cur, gone, joined, written, torn>>

(* The select with a default: a full channel is skipped for this value.    *)
(* A send on a closed channel panics; NoSendOnClosed says it cannot come.  *)
Send(c) ==
    /\ c \in visiting \ closed
    /\ visiting' = visiting \ {c}
    /\ IF Len(buf[c]) < Cap THEN Accept(c) ELSE Skip(c)
    /\ UNCHANGED <<published, locked, subs, closed, pc, cur, gone, joined, written, torn>>

BroadcastUnlock ==
    /\ locked
    /\ visiting = {}
    /\ locked' = FALSE
    /\ UNCHANGED <<published, visiting, subs, closed, buf, pc, cur, gone, historyVars>>

-----------------------------------------------------------------------------
(* serveSSE *)

(* The handler starts: Hub.Subscribe, then the opening comment is written. *)
Subscribe(c) ==
    /\ pc[c] = "new"
    /\ ~locked
    /\ subs' = subs \cup {c}
    /\ joined' = [joined EXCEPT ![c] = published]
    /\ pc' = [pc EXCEPT ![c] = "select"]
    /\ UNCHANGED <<hubVars, closed, buf, cur, gone, written, missed, torn>>

(* The case of a value.  Its !open branch is dead: only the handler's own  *)
(* deferred cancel closes the channel.                                     *)
Receive(c) ==
    /\ pc[c] = "select"
    /\ buf[c] # <<>>
    /\ cur' = [cur EXCEPT ![c] = Head(buf[c])]
    /\ buf' = [buf EXCEPT ![c] = Tail(@)]
    /\ pc' = [pc EXCEPT ![c] = "write"]
    /\ UNCHANGED <<hubVars, subs, closed, gone, historyVars>>

(* Mutants of Write: the frame stays current and is written again; the     *)
(* handler returns after its first frame.                                  *)
WriteAgain(c) ==
    /\ pc[c] = "write"
    /\ written' = [written EXCEPT ![c] = Append(@, cur[c])]
    /\ Len(written[c]) < MaxPublished
    /\ UNCHANGED <<hubVars, subs, closed, buf, pc, cur, gone, joined, missed, torn>>
WriteOnce(c) ==
    /\ pc[c] = "write"
    /\ written' = [written EXCEPT ![c] = Append(@, cur[c])]
    /\ cur' = [cur EXCEPT ![c] = 0]
    /\ pc' = [pc EXCEPT ![c] = "return"]
    /\ UNCHANGED <<hubVars, subs, closed, buf, gone, joined, missed, torn>>

(* The frame is written and flushed; the browser has it. *)
Write(c) ==
    /\ pc[c] = "write"
    /\ written' = [written EXCEPT ![c] = Append(@, cur[c])]
    /\ cur' = [cur EXCEPT ![c] = 0]
    /\ pc' = [pc EXCEPT ![c] = "select"]
    /\ UNCHANGED <<hubVars, subs, closed, buf, gone, joined, missed, torn>>

(* The flush of a frame fails: the browser is gone. *)
WriteFails(c) ==
    /\ pc[c] = "write"
    /\ c \in gone
    /\ torn' = [torn EXCEPT ![c] = cur[c]]
    /\ cur' = [cur EXCEPT ![c] = 0]
    /\ pc' = [pc EXCEPT ![c] = "return"]
    /\ UNCHANGED <<hubVars, subs, closed, buf, gone, joined, written, missed>>

(* Mutant of Return: the cancel is not deferred. *)
ReturnWithoutCancel(c) ==
    /\ pc[c] = "select"
    /\ c \in gone
    /\ pc' = [pc EXCEPT ![c] = "ended"]
    /\ UNCHANGED <<hubVars, subs, closed, buf, cur, gone, historyVars>>

(* The request's context is done, or the flush of a ping fails. *)
Return(c) ==
    /\ pc[c] = "select"
    /\ c \in gone
    /\ pc' = [pc EXCEPT ![c] = "return"]
    /\ UNCHANGED <<hubVars, subs, closed, buf, cur, gone, historyVars>>

(* Mutant of Cancel: the mutex is not taken. *)
CancelUnlocked(c) ==
    /\ pc[c] = "return"
    /\ subs' = subs \ {c}
    /\ closed' = closed \cup {c}
    /\ pc' = [pc EXCEPT ![c] = "ended"]
    /\ UNCHANGED <<hubVars, buf, cur, gone, historyVars>>

(* The deferred cancel of Subscribe: delete and close under the mutex. *)
Cancel(c) ==
    /\ pc[c] = "return"
    /\ ~locked
    /\ subs' = subs \ {c}
    /\ closed' = closed \cup {c}
    /\ pc' = [pc EXCEPT ![c] = "ended"]
    /\ UNCHANGED <<hubVars, buf, cur, gone, historyVars>>

(* The browser closes the tab, navigates away or loses the connection. *)
Disconnect(c) ==
    /\ c \notin gone
    /\ pc[c] \in {"select", "write"}
    /\ gone' = gone \cup {c}
    /\ UNCHANGED <<hubVars, subs, closed, buf, pc, cur, historyVars>>

-----------------------------------------------------------------------------
Producer == BroadcastLock \/ BroadcastUnlock \/ \E c \in Clients : Send(c)

Handler(c) ==
    \/ Subscribe(c) \/ Receive(c) \/ Write(c)
    \/ WriteFails(c) \/ Return(c) \/ Cancel(c)

Next == Producer \/ \E c \in Clients : Handler(c) \/ Disconnect(c)

Spec == Init /\ [][Next]_vars

(* A Broadcast that has begun runs on: it never waits for a handler. *)
ProducerFairness ==
    WF_vars(BroadcastUnlock \/ \E c \in Clients : Send(c))

(* A handler keeps running.  Select chooses among its ready cases at       *)
(* random, so each of them is taken in the end; a write returns because    *)
(* the browser reads or has gone; sync.Mutex hands itself to a waiter that *)
(* has starved, hence the strong fairness of Cancel.                       *)
HandlerFairness ==
    \A c \in Clients :
        /\ WF_vars(Receive(c))
        /\ WF_vars(Write(c) \/ WriteFails(c))
        /\ SF_vars(Return(c))
        /\ SF_vars(Cancel(c))

(* Handlers may be stuck in a write for ever. *)
StalledSpec == Spec /\ ProducerFairness

-----------------------------------------------------------------------------
(* Properties *)

Values(s) == {s[i] : i \in DOMAIN s}

(* The values broadcast since c subscribed, as far as they concern c. *)
Owed(c) == (joined[c] + 1)..published

(* Broadcast never sends on a channel that cancel has closed: the visit of *)
(* a channel and its close exclude each other, whatever the handlers do.   *)
NoSendOnClosed == visiting \cap closed = {}

(* Every value broadcast while c is subscribed is accounted for: it is on  *)
(* its way, in the channel, being written, flushed to the browser, lost in *)
(* a failed flush, or was skipped on a full channel.  Nothing older than   *)
(* the subscription ever shows up.                                         *)
Conservation ==
    \A c \in subs :
        Owed(c) =
            Values(written[c]) \cup Values(buf[c]) \cup missed[c]
            \cup ({cur[c], torn[c]} \ {0})
            \cup (IF c \in visiting THEN {published} ELSE {})

(* The channel gives every connection a head start: none of the first Cap  *)
(* values broadcast after it subscribed is skipped, however slow it is.    *)
HeadStart == \A c \in Clients : \A v \in missed[c] : v > joined[c] + Cap

(* A Broadcast comes to its end even if no handler ever runs again: a slow *)
(* browser cannot block the daemon connection.                             *)
BroadcastReturns == locked ~> ~locked

(* What the hub has for c is what it should have in the end: for a         *)
(* connection that stays, nothing that is not flushed to the browser; for  *)
(* one that went away, no subscription.                                    *)
Settled(c) == IF c \in gone THEN c \notin subs ELSE buf[c] = <<>> /\ cur[c] = 0

(* With handlers that run, a value that got into the channel of a          *)
(* connection that stays reaches the browser, and the hub does not collect *)
(* the dead channels of connections that went away.                        *)
HandlersServe == HandlerFairness => \A c \in Clients : []<>Settled(c)

LastWritten(c) ==
    IF written[c] = <<>> THEN joined[c] ELSE written[c][Len(written[c])]

(* What the browser sees is a lossy feed: the hub implements LossyFeed. *)
Feed ==
    INSTANCE LossyFeed WITH
        Readers <- Clients,
        reading <- {c \in Clients : pc[c] \in {"select", "write"}},
        last <- [c \in Clients |-> LastWritten(c)],
        got <- written

FeedSpec == Feed!Spec
=============================================================================
