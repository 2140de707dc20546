------------------------------- MODULE Control -------------------------------
(***************************************************************************)
(* The interactive controls: the handlers of internal/ui/server.go that    *)
(* list and answer approvals, prompt, cancel and stop, over the one        *)
(* connection of internal/control/controller.go.                           *)
(*                                                                         *)
(* net/http runs every request on a goroutine of its own.  A handler reads *)
(* the focus (Timeline.Current), gets the connection from ensure, calls    *)
(* the daemon, and may go round again; the follower moves the focus, other *)
(* clients answer approvals, and the connection breaks between any two of  *)
(* these steps.  ensure holds Controller.mu while it dials.                *)
(*                                                                         *)
(* An approval names its session.  shown is the approvals panel of the     *)
(* page.                                                                   *)
(***************************************************************************)
EXTENDS Naturals, FiniteSets

CONSTANTS
    Polls,          \* the requests that htmx repeats for the panel
    Clicks,         \* the requests that the user makes
    Sessions,
    None,           \* no session, no approval, nobody
    PerSession,     \* bound: approvals of a session
    MaxFaults       \* bound: crashes, broken connections, cancelled requests

ASSUME ControlAssumption ==
    /\ None \notin Sessions \cup Polls \cup Clicks
    /\ PerSession \in Nat /\ MaxFaults \in Nat

VARIABLES
    up,         \* the daemon is running (external)
    approval,   \* approval -> what the daemon knows of it (external)
    link,       \* connection -> its state (external)
    faults,     \* how many faults have happened (external)
    current,    \* Timeline.current
    mu,         \* who holds Controller.mu
    conn,       \* Controller.conn, 0 for nil
    req,        \* request -> its place and its local variables
    shown       \* the approvals in the page's panel

daemonVars == <<up, approval, link, faults>>
vars == <<daemonVars, current, mu, conn, req, shown>>

Requests == Polls \cup Clicks
Approvals == Sessions \X (1..PerSession)
SessionOf(a) == a[1]

(* Connections are numbered as they are dialed; a new one needs a fault. *)
Conns == 1..MaxFaults + 1

(* A phase is the call that a handler is after: approval.list to check the *)
(* posted id, approval.respond, approval.list for the panel, agent.prompt, *)
(* agent.cancel or agent.stop.                                             *)
Phases == {"check", "respond", "panel", "prompt", "act"}

Places == {"idle", "focus", "ensure", "dial", "open", "call", "answer", "swap"}

ReqType ==
    [at : Places, phase : Phases, id : Approvals \cup {None}, cur : Sessions \cup {None},
     via : Conns \cup {0}, list : SUBSET Approvals, ok : BOOLEAN]

Calling == {"ensure", "dial", "open", "call", "answer"}

(* No call is made without a session, none without a connection, and the   *)
(* mutex is held exactly while a request dials.                            *)
TypeOK ==
    /\ up \in BOOLEAN
    /\ approval \in [Approvals -> {"none", "pending", "resolved"}]
    /\ link \in [Conns -> {"new", "live", "broken", "done"}]
    /\ faults \in 0..MaxFaults
    /\ current \in Sessions \cup {None}
    /\ mu \in Requests \cup {None}
    /\ conn \in Conns \cup {0}
    /\ req \in [Requests -> ReqType]
    /\ shown \subseteq Approvals
    /\ \A r \in Requests :
          /\ req[r].at \in Calling => req[r].cur # None
          /\ req[r].at \in {"open", "call", "answer"} => req[r].via # 0
          /\ req[r].at \in {"dial", "open"} <=> mu = r

NoReq ==
    [at |-> "idle", phase |-> "panel", id |-> None, cur |-> None, via |-> 0, list |-> {},
     ok |-> TRUE]

Init ==
    /\ up \in BOOLEAN
    /\ approval = [a \in Approvals |-> "none"]
    /\ link = [c \in Conns |-> "new"]
    /\ faults = 0
    /\ current = None
    /\ mu = None
    /\ conn = 0
    /\ req = [r \in Requests |-> NoReq]
    /\ shown = {}

-----------------------------------------------------------------------------
(* Requests begin *)

Begin(r, phase, id) ==
    /\ req[r].at = "idle"
    /\ req' = [req EXCEPT ![r] = [NoReq EXCEPT !.at = "focus", !.phase = phase, !.id = id]]
    /\ UNCHANGED <<daemonVars, current, mu, conn, shown>>

(* The panel polls /approvals. *)
Poll(r) == Begin(r, "panel", None)

(* The user approves or denies what the panel shows, sends a prompt, or    *)
(* presses one of the two buttons of the header.                           *)
Answer(r) == \E a \in shown : Begin(r, "check", a)
Prompt(r) == Begin(r, "prompt", None)
Press(r) == Begin(r, "act", None)

-----------------------------------------------------------------------------
(* The handlers *)

Step(r, from, new) == req[r].at = from /\ req' = [req EXCEPT ![r] = new]
At(r, place) == [req[r] EXCEPT !.at = place]

(* The panel is rendered with the approvals l; a panel is swapped in, an   *)
(* error or an empty response is not.                                      *)
Render(r, l) == [NoReq EXCEPT !.at = "swap", !.list = l, !.cur = req[r].cur]
Respond(r) == NoReq

(* Mutant of ReadFocus: the empty session is not special. *)
ReadFocusAlways(r) ==
    /\ Step(r, "focus", [At(r, "ensure") EXCEPT !.cur = current])
    /\ UNCHANGED <<daemonVars, current, mu, conn, shown>>

(* Current is read.  With no session the approvals are empty without a     *)
(* call, and a prompt, a cancel or a stop is a bad request.                *)
ReadFocus(r) ==
    /\ Step(r, "focus",
            IF current # None THEN [At(r, "ensure") EXCEPT !.cur = current]
            ELSE IF req[r].phase \in {"check", "panel"} THEN Render(r, {})
            ELSE Respond(r))
    /\ UNCHANGED <<daemonVars, current, mu, conn, shown>>

(* A prompt that is blank is answered without a call. *)
BlankPrompt(r) ==
    /\ req[r].phase = "prompt"
    /\ current # None
    /\ Step(r, "focus", Respond(r))
    /\ UNCHANGED <<daemonVars, current, mu, conn, shown>>

(* What an error of ensure or of a call comes to: no approvals, or a 502.  *)
Failed(r) == IF req[r].phase \in {"check", "panel"} THEN Render(r, {}) ELSE Respond(r)

-----------------------------------------------------------------------------
(* Controller.ensure *)

(* Mutant of Usable: Done is not asked. *)
UsableUnasked == conn # 0

(* The cached connection is not known to be done; it may be broken. *)
Usable == conn # 0 /\ link[conn] # "done"

EnsureCached(r) ==
    /\ mu = None
    /\ Usable
    /\ Step(r, "ensure", [At(r, "call") EXCEPT !.via = conn])
    /\ UNCHANGED <<daemonVars, current, mu, conn, shown>>

(* Mutant of EnsureDials: the mutex is released before the dial. *)
EnsureDialsUnlocked(r) ==
    /\ mu = None
    /\ ~Usable
    /\ conn' = 0
    /\ Step(r, "ensure", At(r, "dial"))
    /\ UNCHANGED <<daemonVars, current, mu, shown>>

EnsureDials(r) ==
    /\ mu = None
    /\ ~Usable
    /\ mu' = r
    /\ conn' = 0
    /\ Step(r, "ensure", At(r, "dial"))
    /\ UNCHANGED <<daemonVars, current, shown>>

Fault == faults < MaxFaults /\ faults' = faults + 1

(* A step fails for a reason, or because the request's context is done. *)
FailsFor(reason) == (reason /\ UNCHANGED faults) \/ Fault

Dial(r) ==
    /\ up
    /\ \E c \in Conns :
          /\ link[c] = "new"
          /\ \A d \in Conns : d < c => link[d] # "new"
          /\ link' = [link EXCEPT ![c] = "live"]
          /\ Step(r, "dial", [At(r, "open") EXCEPT !.via = c])
    /\ UNCHANGED <<up, approval, faults, current, mu, conn, shown>>

(* No daemon. *)
DialFails(r) ==
    /\ Step(r, "dial", Failed(r))
    /\ FailsFor(~up)
    /\ mu' = None
    /\ UNCHANGED <<up, approval, link, current, conn, shown>>

(* workspace.open *)
Open(r) ==
    /\ Step(r, "open", At(r, "call"))
    /\ link[req[r].via] = "live"
    /\ conn' = req[r].via
    /\ mu' = None
    /\ UNCHANGED <<daemonVars, current, shown>>

(* Mutant of OpenFails: the connection is not closed. *)
OpenFailsLeaks(r) ==
    /\ Step(r, "open", Failed(r))
    /\ FailsFor(link[req[r].via] # "live")
    /\ mu' = None
    /\ UNCHANGED <<up, approval, link, current, conn, shown>>

OpenFails(r) ==
    /\ Step(r, "open", Failed(r))
    /\ FailsFor(link[req[r].via] # "live")
    /\ link' = [link EXCEPT ![req[r].via] = "done"]
    /\ mu' = None
    /\ UNCHANGED <<up, approval, current, conn, shown>>

(* Close; a request that comes after it dials again. *)
Close ==
    /\ mu = None
    /\ conn # 0
    /\ Fault
    /\ link' = [link EXCEPT ![conn] = "done"]
    /\ conn' = 0
    /\ UNCHANGED <<up, approval, current, mu, req, shown>>

-----------------------------------------------------------------------------
(* Calls *)

Pending(s) == {a \in Approvals : approval[a] = "pending" /\ s \in {SessionOf(a), None}}

(* The daemon carries out a call.  The empty session lists all approvals;  *)
(* an answer to what is not pending is refused.                            *)
Call(r) ==
    /\ req[r].at = "call"
    /\ req[r].phase # "prompt"
    /\ link[req[r].via] = "live"
    /\ LET id == req[r].id
           ok == req[r].phase = "respond" => approval[id] = "pending"
       IN  /\ approval' = IF req[r].phase = "respond" /\ ok
                          THEN [approval EXCEPT ![id] = "resolved"] ELSE approval
           /\ Step(r, "call", [At(r, "answer") EXCEPT
                  !.ok = ok,
                  !.list = IF req[r].phase \in {"check", "panel"} THEN Pending(req[r].cur) ELSE {}])
    /\ UNCHANGED <<up, link, faults, current, mu, conn, shown>>

(* Controller.Prompt leaves the call to a goroutine, and the request is    *)
(* answered.  What comes of the call is told to nobody.                    *)
DispatchPrompt(r) ==
    /\ req[r].phase = "prompt"
    /\ Step(r, "call", Respond(r))
    /\ UNCHANGED <<daemonVars, current, mu, conn, shown>>

(* The connection breaks before the call, or before its reply is read. *)
CallFails(r) ==
    /\ req[r].at \in {"call", "answer"}
    /\ req[r].phase # "prompt"
    /\ FailsFor(link[req[r].via] # "live")
    /\ req' = [req EXCEPT ![r] = Failed(r)]
    /\ UNCHANGED <<up, approval, link, current, mu, conn, shown>>

(* Mutant of Contains: any posted id will do. *)
ContainsAny(l, id) == TRUE
(* containsApproval *)
Contains(l, id) == id \in l

(* The reply is read.  A posted id that is pending for the session that    *)
(* had the focus is answered, then the panel is listed anew.               *)
Answered(r) ==
    /\ LET q == req[r]
       IN  Step(r, "answer",
                IF ~q.ok THEN Failed(r)
                ELSE IF q.phase = "check" /\ Contains(q.list, q.id)
                THEN [At(r, "ensure") EXCEPT !.phase = "respond", !.via = 0, !.list = {}]
                ELSE IF q.phase = "respond"
                THEN [NoReq EXCEPT !.at = "focus"]
                ELSE IF q.phase \in {"check", "panel"} THEN Render(r, q.list)
                ELSE Respond(r))
    /\ UNCHANGED <<daemonVars, current, mu, conn, shown>>

(* The browser puts the panel of a response into the page. *)
Swap(r) ==
    /\ Step(r, "swap", NoReq)
    /\ shown' = req[r].list
    /\ UNCHANGED <<daemonVars, current, mu, conn>>

-----------------------------------------------------------------------------
(* The other parties *)

(* The follower's setStream moves the focus. *)
Focus(s) ==
    /\ s # current
    /\ current' = s
    /\ UNCHANGED <<daemonVars, mu, conn, req, shown>>

(* An agent asks; another client answers, or the turn is cancelled. *)
Ask(a) ==
    /\ up
    /\ approval[a] = "none"
    /\ approval' = [approval EXCEPT ![a] = "pending"]
    /\ UNCHANGED <<up, link, faults, current, mu, conn, req, shown>>

ResolvedElsewhere(a) ==
    /\ approval[a] = "pending"
    /\ approval' = [approval EXCEPT ![a] = "resolved"]
    /\ UNCHANGED <<up, link, faults, current, mu, conn, req, shown>>

Crash ==
    /\ up
    /\ Fault
    /\ up' = FALSE
    /\ link' = [c \in Conns |-> IF link[c] = "live" THEN "broken" ELSE link[c]]
    /\ approval' = [a \in Approvals |->
                       IF approval[a] = "pending" THEN "resolved" ELSE approval[a]]
    /\ UNCHANGED <<current, mu, conn, req, shown>>

Start ==
    /\ ~up
    /\ up' = TRUE
    /\ UNCHANGED <<approval, link, faults, current, mu, conn, req, shown>>

Break(c) ==
    /\ link[c] = "live"
    /\ Fault
    /\ link' = [link EXCEPT ![c] = "broken"]
    /\ UNCHANGED <<up, approval, current, mu, conn, req, shown>>

(* The client library notices and closes Done. *)
Notice(c) ==
    /\ link[c] = "broken"
    /\ link' = [link EXCEPT ![c] = "done"]
    /\ UNCHANGED <<up, approval, faults, current, mu, conn, req, shown>>

Ensure(r) == EnsureCached(r) \/ EnsureDials(r) \/ Dial(r) \/ DialFails(r) \/ Open(r) \/ OpenFails(r)

Handle(r) ==
    \/ ReadFocus(r) \/ BlankPrompt(r) \/ Ensure(r) \/ Call(r) \/ DispatchPrompt(r)
    \/ CallFails(r) \/ Answered(r) \/ Swap(r)

Environment ==
    \/ \E s \in Sessions : Focus(s)
    \/ \E a \in Approvals : Ask(a) \/ ResolvedElsewhere(a)
    \/ Crash \/ Start
    \/ \E c \in Conns : Break(c) \/ Notice(c)

Next ==
    \/ \E r \in Polls : Poll(r)
    \/ \E r \in Clicks : Answer(r) \/ Prompt(r) \/ Press(r)
    \/ \E r \in Requests : Handle(r)
    \/ Close
    \/ Environment

Spec == Init /\ [][Next]_vars

(* Polls go on, goroutines are scheduled, the mutex is handed over to one  *)
(* that has starved, calls and dials come to an end, a broken connection   *)
(* is noticed and the daemon is started again.                             *)
FairSpec ==
    /\ Spec
    /\ \A r \in Polls : WF_vars(Poll(r))
    /\ \A r \in Requests : WF_vars(Handle(r))
    /\ WF_vars(Start \/ \E c \in Conns : Notice(c))

-----------------------------------------------------------------------------
(* Properties *)

(* A request answers and shows only approvals of the session that it found *)
(* to have the focus: a stale panel cannot reach into another session, and *)
(* without a focus nothing is listed.  The focus may have moved since: the *)
(* check and the answer are two calls.                                     *)
OnlyFocused ==
    \A r \in Requests :
        LET q == req[r]
        IN  /\ q.at = "call" /\ q.phase = "respond" => SessionOf(q.id) = q.cur
            /\ q.at = "swap" => \A a \in q.list : SessionOf(a) = q.cur

(* Requests that come together do not dial twice, and a connection that is *)
(* given up is closed: there is never more than one.                       *)
OneConnection ==
    /\ Cardinality({c \in Conns : link[c] = "live"}) <= 1
    /\ \A c \in Conns : link[c] = "live" =>
          c = conn \/ \E r \in Requests : req[r].at = "open" /\ req[r].via = c

(* A pending approval of the focused session gets into the panel, whatever *)
(* happened to the connection or the daemon, unless it is resolved or the  *)
(* focus moves.                                                            *)
ApprovalShown ==
    \A a \in Approvals :
        approval[a] = "pending" /\ current = SessionOf(a)
            ~> a \in shown \/ approval[a] # "pending" \/ current # SessionOf(a)
=============================================================================
