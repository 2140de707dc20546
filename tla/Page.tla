--------------------------------- MODULE Page ---------------------------------
(***************************************************************************)
(* The page and the fragments that it polls: the shell, the session rail,  *)
(* the header and the jump index, which the handlers of                    *)
(* internal/ui/server.go put together from internal/session/lister.go and  *)
(* from what the follower of the timeline holds.                           *)
(*                                                                         *)
(* The shell is loaded once; from then on htmx repeats the request of each *)
(* fragment.  Every request runs on a goroutine of its own.  List holds    *)
(* Lister.mu from its first to its last step, so requests queue for it;    *)
(* what a handler reads of the follower it reads afterwards, one thing     *)
(* after the other, while the follower switches.                           *)
(*                                                                         *)
(* What the page shows of a fragment is the last response, so a request    *)
(* keeps its response until the browser has it.  Sessions are numbered in  *)
(* the order in which they are listed, and belong to the workspaces in     *)
(* turn.                                                                   *)
(***************************************************************************)
EXTENDS Integers, FiniteSets, SequencesExt

CONSTANTS
    MaxSession,     \* bound: the sessions are 1..MaxSession
    Workspaces,     \* bound: how many workspaces there are
    MaxEvents       \* bound: sessions that start or end, crashes, broken
                    \* connections and cancelled requests

ASSUME PageAssumption ==
    MaxSession \in Nat /\ Workspaces \in Nat \ {0} /\ MaxEvents \in Nat

VARIABLES
    up,         \* the daemon is running (external)
    listed,     \* the sessions of session.list (external)
    events,     \* how many events of MaxEvents have happened (external)
    current,    \* Timeline.current, 0 for none
    folded,     \* the session behind Timeline.usage and Timeline.tools
    mu,         \* who holds Lister.mu
    conn,       \* Lister.conn
    failed,     \* listings that failed on a healthy daemon, one after the other
    req,        \* fragment -> its request
    page        \* whether it is loaded, and has the input for prompts

daemonVars == <<up, listed, events>>
timelineVars == <<current, folded>>
listerVars == <<mu, conn, failed>>
vars == <<daemonVars, timelineVars, listerVars, req, page>>

Sessions == 1..MaxSession
None == 0
WorkspaceOf(s) == s % Workspaces

(* The fragments that are polled, and the whole page. *)
Polled == {"rail", "header", "jump"}
Fragments == Polled \cup {"shell"}
Listing == {"rail", "header", "shell"}

Places == {"idle", "dial", "call", "mark", "focus", "usage", "tools", "swap"}

(* list is the local variable sessions, as a set (its order is that of the *)
(* numbers); the rest is what the templates are given.                     *)
NoReq == [at |-> "idle", list |-> {}, mark |-> None, cur |-> None, usage |-> None, tools |-> None]

ReqType ==
    [at : Places, list : SUBSET Sessions, mark : Sessions \cup {None},
     cur : Sessions \cup {None}, usage : Sessions \cup {None}, tools : Sessions \cup {None}]

(* The mutex is held while a request dials or calls, and a request dials   *)
(* only when there is no connection.                                       *)
TypeOK ==
    /\ up \in BOOLEAN
    /\ listed \subseteq Sessions
    /\ events \in 0..MaxEvents
    /\ {current, folded} \subseteq Sessions \cup {None}
    /\ mu \in Listing \cup {"free"}
    /\ conn \in {"nil", "live", "broken"}
    /\ failed \in Nat
    /\ req \in [Fragments -> ReqType]
    /\ page \in [loaded : BOOLEAN, composer : BOOLEAN]
    /\ \A f \in Fragments : req[f].at \in {"dial", "call"} <=> mu = f
    /\ \A f \in Fragments : req[f].at = "dial" => conn = "nil"
    /\ \A f \in Fragments : req[f].at = "call" => conn # "nil"

Init ==
    /\ up \in BOOLEAN
    /\ listed \in SUBSET Sessions
    /\ events = 0
    /\ current = None
    /\ folded = None
    /\ mu = "free"
    /\ conn = "nil"
    /\ failed = 0
    /\ req = [f \in Fragments |-> NoReq]
    /\ page = [loaded |-> FALSE, composer |-> FALSE]

-----------------------------------------------------------------------------
(* The templates *)

(* groupByWorkspace: a group for each workspace, in the order in which     *)
(* they are first seen.                                                    *)
Groups(set) ==
    LET first == {s \in set : \A t \in set : WorkspaceOf(t) = WorkspaceOf(s) => s <= t}
        order == SetToSortSeq(first, <)
    IN  [n \in DOMAIN order |-> {s \in set : WorkspaceOf(s) = WorkspaceOf(order[n])}]

(* sessionRow: the row of the followed session is marked active. *)
Row(s, q) == [session |-> s, active |-> s = q.mark]

SessionRail(q) ==
    LET groups == Groups(q.list)
    IN  [n \in DOMAIN groups |-> {Row(s, q) : s \in groups[n]}]

(* Mutant of Found: the header makes do with any session. *)
FoundAny(q) == q.list # {}

(* headerData's Found. *)
Found(q) == q.cur \in q.list

(* SessionHeader, or its empty state. *)
SessionHeader(q) == [session |-> q.cur, usage |-> q.usage, found |-> Found(q)]

(* Composer, which only the shell renders: the input is there or it is not. *)
Composer(q) == Found(q)

-----------------------------------------------------------------------------
(* Requests *)

Step(f, from, new) == req[f].at = from /\ req' = [req EXCEPT ![f] = new]
At(f, place) == [req[f] EXCEPT !.at = place]

(* The web view loads the page, then the page polls. *)
MayBegin(f) == page.loaded = (f \in Polled)

(* Lister.List.  A request that waits for the mutex is not told from one   *)
(* that is yet to come.                                                    *)
Lock(f) ==
    /\ f \in Listing
    /\ MayBegin(f)
    /\ mu = "free"
    /\ mu' = f
    /\ Step(f, "idle", At(f, IF conn = "nil" THEN "dial" ELSE "call"))
    /\ UNCHANGED <<daemonVars, timelineVars, conn, failed, page>>

Event == events < MaxEvents /\ events' = events + 1

(* A step fails for a reason, or because the request's context is done. *)
FailsFor(reason) == (reason /\ UNCHANGED events) \/ Event

(* The connection is dialed and its workspace is opened. *)
Dial(f) ==
    /\ up
    /\ conn' = "live"
    /\ Step(f, "dial", At(f, "call"))
    /\ UNCHANGED <<daemonVars, timelineVars, mu, failed, page>>

(* Where a handler goes on with the sessions that List returned. *)
Return(f, sessions) ==
    /\ mu' = "free"
    /\ req' = [req EXCEPT ![f] = [At(f, IF f = "header" THEN "focus" ELSE "mark")
                                     EXCEPT !.list = sessions]]

(* A failure counts if the daemon is up and no fault of now explains it. *)
CountFailure == failed' = IF events' # events THEN 0 ELSE IF up THEN failed + 1 ELSE failed

(* Nothing to dial, or workspace.open fails: the connection is not kept. *)
DialFails(f) ==
    /\ req[f].at = "dial"
    /\ FailsFor(~up)
    /\ Return(f, {})
    /\ CountFailure
    /\ UNCHANGED <<up, listed, timelineVars, conn, page>>

Call(f) ==
    /\ req[f].at = "call"
    /\ conn = "live"
    /\ failed' = 0
    /\ Return(f, listed)
    /\ UNCHANGED <<daemonVars, timelineVars, conn, page>>

(* Mutant of CallFails: the connection is kept. *)
CallFailsKeepsConn(f) ==
    /\ req[f].at = "call"
    /\ FailsFor(conn = "broken")
    /\ Return(f, {})
    /\ CountFailure
    /\ UNCHANGED <<up, listed, timelineVars, conn, page>>

(* session.list fails: the connection is closed and forgotten. *)
CallFails(f) ==
    /\ req[f].at = "call"
    /\ FailsFor(conn = "broken")
    /\ conn' = "nil"
    /\ Return(f, {})
    /\ CountFailure
    /\ UNCHANGED <<up, listed, timelineVars, page>>

(* Mutant of Close: the mutex is not taken. *)
CloseUnlocked ==
    /\ conn # "nil"
    /\ Event
    /\ conn' = "nil"
    /\ failed' = 0
    /\ UNCHANGED <<up, listed, timelineVars, mu, req, page>>

Close ==
    /\ mu = "free"
    /\ conn # "nil"
    /\ Event
    /\ conn' = "nil"
    /\ failed' = 0
    /\ UNCHANGED <<up, listed, timelineVars, mu, req, page>>

-----------------------------------------------------------------------------
(* The rest of the handlers *)

(* Current, for the mark in the rail. *)
ReadMark(f) ==
    /\ Step(f, "mark", [At(f, IF f = "rail" THEN "swap" ELSE "focus") EXCEPT !.mark = current])
    /\ UNCHANGED <<daemonVars, timelineVars, listerVars, page>>

After(f) == IF f = "shell" THEN "tools" ELSE "swap"

(* headerData: Current, then the usage if the session was listed. *)
ReadFocus(f) ==
    /\ Step(f, "focus",
            LET q == [req[f] EXCEPT !.cur = current]
            IN  IF Found(q) THEN [q EXCEPT !.at = "usage"]
                ELSE [q EXCEPT !.at = After(f), !.cur = None])
    /\ UNCHANGED <<daemonVars, timelineVars, listerVars, page>>

ReadUsage(f) ==
    /\ Step(f, "usage", [At(f, After(f)) EXCEPT !.usage = folded])
    /\ UNCHANGED <<daemonVars, timelineVars, listerVars, page>>

(* ToolCalls, for the jump index. *)
ReadTools(f) ==
    /\ f \in Listing \/ MayBegin(f)
    /\ Step(f, IF f \in Listing THEN "tools" ELSE "idle", [At(f, "swap") EXCEPT !.tools = folded])
    /\ UNCHANGED <<daemonVars, timelineVars, listerVars, page>>

(* The browser puts the response into the page. *)
Swap(f) ==
    /\ Step(f, "swap", NoReq)
    /\ page' = IF f = "shell" THEN [loaded |-> TRUE, composer |-> Composer(req[f])] ELSE page
    /\ UNCHANGED <<daemonVars, timelineVars, listerVars>>

-----------------------------------------------------------------------------
(* The other parties *)

(* setStream: first the focus, then the rest under the mutex. *)
Focus(s) ==
    /\ folded = current
    /\ s # current
    /\ current' = s
    /\ UNCHANGED <<daemonVars, folded, listerVars, req, page>>

Refold ==
    /\ folded # current
    /\ folded' = current
    /\ UNCHANGED <<daemonVars, current, listerVars, req, page>>

SessionChanges(s) ==
    /\ up
    /\ Event
    /\ listed' = IF s \in listed THEN listed \ {s} ELSE listed \cup {s}
    /\ UNCHANGED <<up, timelineVars, listerVars, req, page>>

Broken == IF conn = "live" THEN "broken" ELSE conn

Crash ==
    /\ up
    /\ Event
    /\ up' = FALSE
    /\ conn' = Broken
    /\ failed' = 0
    /\ UNCHANGED <<listed, timelineVars, mu, req, page>>

Start ==
    /\ ~up
    /\ up' = TRUE
    /\ UNCHANGED <<listed, events, timelineVars, listerVars, req, page>>

Break ==
    /\ conn = "live"
    /\ Event
    /\ conn' = Broken
    /\ failed' = 0
    /\ UNCHANGED <<up, listed, timelineVars, mu, req, page>>

List(f) == Lock(f) \/ Dial(f) \/ DialFails(f) \/ Call(f) \/ CallFails(f)

Handle(f) == List(f) \/ ReadMark(f) \/ ReadFocus(f) \/ ReadUsage(f) \/ ReadTools(f) \/ Swap(f)

Next ==
    \/ \E f \in Fragments : Handle(f)
    \/ \E s \in Sessions : Focus(s) \/ SessionChanges(s)
    \/ Refold \/ Crash \/ Start \/ Break \/ Close

Spec == Init /\ [][Next]_vars

(* The page is loaded and polls, requests are carried out, Lister.mu is    *)
(* handed over to one that has starved (strong fairness), a switch is      *)
(* completed and the daemon is started again.                              *)
FairSpec ==
    /\ Spec
    /\ \A f \in Fragments : WF_vars(Handle(f)) /\ SF_vars(Lock(f))
    /\ WF_vars(Refold) /\ WF_vars(Start)

-----------------------------------------------------------------------------
(* Properties *)

(* A lost connection costs one listing: List finds out by failing, but the *)
(* next one dials.  Without another fault no two fail while the daemon is  *)
(* up, whichever requests they are for.                                    *)
OneFailurePerLoss == failed <= 1

(* A response is right: the rail has every session that is listed once,    *)
(* under its workspace, and marks the one that is followed; the header     *)
(* pairs that session with its own usage, and the jump index is its own.   *)
Right(f) ==
    LET q == req[f]
    IN  /\ f = "rail" =>
              LET rail == SessionRail(q)
              IN  /\ UNION {rail[i] : i \in DOMAIN rail} =
                        {[session |-> s, active |-> s = current] : s \in listed}
                  /\ \A i, j \in DOMAIN rail :
                        \A t \in rail[i] : \A u \in rail[j] :
                            i = j <=> WorkspaceOf(t.session) = WorkspaceOf(u.session)
        /\ f = "header" =>
              SessionHeader(q) =
                  IF current \in listed
                  THEN [session |-> current, usage |-> current, found |-> TRUE]
                  ELSE [session |-> None, usage |-> None, found |-> FALSE]
        /\ f = "jump" => q.tools = current

(* Once the follower stays with a session the page comes to say what is,   *)
(* though a poll was caught in the middle of the switch, though it waited  *)
(* for the lister, and though the connection was lost: responses keep      *)
(* coming, and from some point on all of them are right.                   *)
PageSettles ==
    /\ \A f \in Polled : []<>(req[f].at = "swap")
    /\ \A s \in Sessions :
          <>[](current = s) => <>[](\A f \in Polled : req[f].at = "swap" => Right(f))

(* The doc of Composer calls it the prompt input for the focused session,  *)
(* and that of main says that tend-ui opens whether or not the daemon is   *)
(* up yet: once the header has a session, the page gets the input, too.    *)
ComposerAppears ==
    (req["header"].at = "swap" /\ Found(req["header"])) ~> page.composer
=============================================================================
