---------------------------- MODULE ControlProofs ----------------------------
(***************************************************************************)
(* Theorems about Control, for any requests, sessions, approvals and any   *)
(* number of faults.                                                       *)
(*                                                                         *)
(* RequestOK is what one handler knows: the types of its local variables,  *)
(* whether it holds the mutex, and whose approvals it has in hand.  Held   *)
(* and LiveOwned say who may own a connection: the Controller, or the one  *)
(* request that holds the mutex, and never both.                           *)
(***************************************************************************)
EXTENDS Control, FiniteSetTheorems, TLAPS

(* Of one request and whether it holds Controller.mu.  What was listed for *)
(* a session is of that session, and only what was listed is answered.     *)
RequestOK(q, holds) ==
    /\ q \in ReqType
    /\ q.at \in Calling => q.cur # None
    /\ q.at \in {"open", "call", "answer"} => q.via # 0
    /\ q.at \in {"dial", "open"} <=> holds
    /\ q.at = "swap" \/ (q.at = "answer" /\ q.phase \in {"check", "panel"}) =>
          \A a \in q.list : SessionOf(a) = q.cur
    /\ q.phase = "respond" => q.at # "focus" /\ SessionOf(q.id) = q.cur

RequestsOK == \A r \in Requests : RequestOK(req[r], mu = r)

SharedOK ==
    /\ up \in BOOLEAN
    /\ approval \in [Approvals -> {"none", "pending", "resolved"}]
    /\ link \in [Conns -> {"new", "live", "broken", "done"}]
    /\ faults \in 0..MaxFaults
    /\ current \in Sessions \cup {None}
    /\ mu \in Requests \cup {None}
    /\ conn \in Conns \cup {0}
    /\ DOMAIN req = Requests /\ req = [r \in Requests |-> req[r]]
    /\ shown \subseteq Approvals

(* Nobody dials while there is a connection. *)
Held == mu # None => conn = 0

(* A live connection is the Controller's or that of the one who opens it.  *)
LiveOwned ==
    \A c \in Conns : link[c] = "live" =>
        c = conn \/ \E r \in Requests : req[r].at = "open" /\ req[r].via = c

IInv == SharedOK /\ RequestsOK /\ Held /\ LiveOwned
-----------------------------------------------------------------------------
LEMMA NoReqOK == RequestOK(NoReq, FALSE)
  BY DEF RequestOK, NoReq, ReqType, Places, Phases, Calling

LEMMA NoneApart == \A r \in Requests : r # None
  BY ControlAssumption DEF Requests

LEMMA IInvInit == Init => IInv
  <1> SUFFICES ASSUME Init PROVE IInv
    OBVIOUS
  <1>1. \A r \in Requests : req[r] = NoReq /\ mu # r
    BY NoneApart DEF Init
  <1>2. RequestsOK
    BY <1>1, NoReqOK DEF RequestsOK
  <1>3. SharedOK
    BY ControlAssumption DEF Init, SharedOK
  <1>4. Held /\ LiveOwned
    BY DEF Init, Held, LiveOwned
  <1> QED BY <1>2, <1>3, <1>4 DEF IInv

(* What a handler goes on with. *)
LEMMA RenderOK ==
  ASSUME NEW r \in Requests, NEW l, l \subseteq Approvals, RequestOK(req[r], mu = r),
         \A a \in l : SessionOf(a) = req[r].cur
  PROVE  RequestOK(Render(r, l), FALSE)
  BY DEF RequestOK, Render, NoReq, ReqType, Places, Phases, Calling

LEMMA FailedOK ==
  ASSUME NEW r \in Requests, RequestOK(req[r], mu = r)
  PROVE  RequestOK(Failed(r), FALSE)
  BY NoReqOK, RenderOK DEF Failed, Respond

(* A request steps to q; the mutex is let be, or only r has to do with it. *)
LEMMA StepOK ==
  ASSUME IInv, NEW r \in Requests, NEW q, RequestOK(q, mu' = r),
         req' = [req EXCEPT ![r] = q],
         mu' = mu \/ (mu \in {r, None} /\ mu' \in {r, None})
  PROVE  RequestsOK' /\ (DOMAIN req = Requests /\ req = [x \in Requests |-> req[x]])'
  <1>1. req' = [x \in Requests |-> req'[x]] /\ DOMAIN req' = Requests
    BY DEF IInv, SharedOK
  <1>2. req'[r] = q
    BY DEF IInv, SharedOK
  <1>3. ASSUME NEW x \in Requests PROVE RequestOK(req'[x], mu' = x)
    <2>1. CASE x = r
      BY <2>1, <1>2
    <2>2. CASE x # r
      <3>1. req'[x] = req[x]
        BY <2>2 DEF IInv, SharedOK
      <3>2. (mu' = x) <=> (mu = x)
        BY <2>2, NoneApart
      <3>3. RequestOK(req[x], mu = x)
        BY DEF IInv, RequestsOK
      <3> QED BY <3>1, <3>2, <3>3 DEF RequestOK
    <2> QED BY <2>1, <2>2
  <1> QED BY <1>1, <1>3 DEF RequestsOK

(* A handler that only changes its request and lets the mutex be. *)
LEMMA MoveKeepsIInv ==
  ASSUME IInv, NEW r \in Requests, NEW q, RequestOK(q, mu = r),
         req[r].at # "open", req' = [req EXCEPT ![r] = q],
         UNCHANGED <<daemonVars, current, mu, conn, shown>>
  PROVE  IInv'
  <1> USE DEF daemonVars
  <1>1. RequestsOK' /\ (DOMAIN req = Requests /\ req = [x \in Requests |-> req[x]])'
    BY StepOK
  <1>2. SharedOK'
    BY <1>1 DEF IInv, SharedOK
  <1>3. Held'
    BY DEF IInv, Held
  <1>4. LiveOwned'
    BY DEF IInv, SharedOK, LiveOwned
  <1> QED BY <1>1, <1>2, <1>3, <1>4 DEF IInv

LEMMA BeginKeepsIInv ==
  ASSUME IInv, NEW r \in Requests, NEW phase \in Phases \ {"respond"},
         NEW id \in Approvals \cup {None}, Begin(r, phase, id)
  PROVE  IInv'
  <1> DEFINE q == [NoReq EXCEPT !.at = "focus", !.phase = phase, !.id = id]
  <1>1. mu # r
    BY DEF IInv, RequestsOK, RequestOK, Begin
  <1>2. RequestOK(q, mu = r)
    BY <1>1 DEF RequestOK, NoReq, ReqType, Places, Calling
  <1> QED BY <1>2, MoveKeepsIInv DEF Begin

LEMMA ReadFocusKeepsIInv ==
  ASSUME IInv, NEW r \in Requests, ReadFocus(r)
  PROVE  IInv'
  <1> DEFINE q == IF current # None THEN [At(r, "ensure") EXCEPT !.cur = current]
                  ELSE IF req[r].phase \in {"check", "panel"} THEN Render(r, {})
                  ELSE Respond(r)
  <1>1. RequestOK(req[r], mu = r) /\ req[r].at = "focus" /\ mu # r
    BY DEF IInv, RequestsOK, RequestOK, ReadFocus, Step
  <1>2. CASE current # None
    <2>1. current \in Sessions
      BY <1>2 DEF IInv, SharedOK
    <2>2. RequestOK(q, mu = r)
      BY <1>1, <1>2, <2>1 DEF RequestOK, ReqType, Places, Phases, Calling, At
    <2> QED BY <1>1, <2>2, MoveKeepsIInv DEF ReadFocus, Step
  <1>3. CASE current = None
    <2>1. RequestOK(q, mu = r)
      BY <1>1, <1>3, RenderOK, NoReqOK DEF Respond
    <2> QED BY <1>1, <2>1, MoveKeepsIInv DEF ReadFocus, Step
  <1> QED BY <1>2, <1>3

LEMMA BlankPromptKeepsIInv ==
  ASSUME IInv, NEW r \in Requests, BlankPrompt(r)
  PROVE  IInv'
  <1>1. mu # r /\ req[r].at = "focus"
    BY DEF IInv, RequestsOK, RequestOK, BlankPrompt, Step
  <1> QED BY <1>1, NoReqOK, MoveKeepsIInv DEF BlankPrompt, Step, Respond

LEMMA EnsureCachedKeepsIInv ==
  ASSUME IInv, NEW r \in Requests, EnsureCached(r)
  PROVE  IInv'
  <1> DEFINE q == [At(r, "call") EXCEPT !.via = conn]
  <1>1. RequestOK(req[r], mu = r) /\ req[r].at = "ensure" /\ mu # r
    BY DEF IInv, RequestsOK, RequestOK, EnsureCached, Step
  <1>2. conn # 0 /\ conn \in Conns
    BY DEF IInv, SharedOK, EnsureCached, Usable
  <1>3. RequestOK(q, mu = r)
    BY <1>1, <1>2 DEF RequestOK, ReqType, Places, Phases, Calling, At
  <1> QED BY <1>1, <1>3, MoveKeepsIInv DEF EnsureCached, Step

LEMMA EnsureDialsKeepsIInv ==
  ASSUME IInv, NEW r \in Requests, EnsureDials(r)
  PROVE  IInv'
  <1> USE DEF EnsureDials, Step, daemonVars
  <1>1. RequestOK(req[r], mu = r) /\ r # None
    BY NoneApart DEF IInv, RequestsOK
  <1>2. RequestOK(At(r, "dial"), mu' = r)
    BY <1>1 DEF RequestOK, ReqType, Places, Phases, Calling, At
  <1>3. RequestsOK' /\ (DOMAIN req = Requests /\ req = [x \in Requests |-> req[x]])'
    BY <1>2, StepOK
  <1>4. SharedOK'
    BY <1>3 DEF IInv, SharedOK
  <1>5. Held'
    BY DEF Held
  <1>6. LiveOwned'
    (* What the Controller had is done, and nobody is dialing. *)
    <2>1. \A c \in Conns : link[c] = "live" => c # conn
      BY DEF Usable, Conns
    <2>2. \A x \in Requests : req[x].at # "open"
      BY NoneApart DEF IInv, RequestsOK, RequestOK
    <2> QED BY <2>1, <2>2 DEF IInv, LiveOwned
  <1> QED BY <1>3, <1>4, <1>5, <1>6 DEF IInv

(* Of a request that dials or opens: it is the only one. *)
LEMMA HolderAlone ==
  ASSUME IInv, NEW r \in Requests, req[r].at \in {"dial", "open"}
  PROVE  /\ mu = r /\ conn = 0
         /\ RequestOK(req[r], TRUE)
         /\ \A x \in Requests : req[x].at \in {"dial", "open"} => x = r
         /\ \A c \in Conns : link[c] = "live" => req[r].at = "open" /\ req[r].via = c
  <1>1. \A x \in Requests : req[x].at \in {"dial", "open"} <=> mu = x
    BY DEF IInv, RequestsOK, RequestOK
  <1>2. mu = r /\ conn = 0
    BY <1>1, NoneApart DEF IInv, Held
  <1>3. RequestOK(req[r], TRUE)
    BY <1>2 DEF IInv, RequestsOK
  <1>4. \A c \in Conns : c # conn
    BY <1>2 DEF Conns
  <1>5. \A c \in Conns : link[c] = "live" => req[r].at = "open" /\ req[r].via = c
    BY <1>1, <1>2, <1>4 DEF IInv, LiveOwned
  <1> QED BY <1>1, <1>2, <1>3, <1>5

LEMMA DialKeepsIInv ==
  ASSUME IInv, NEW r \in Requests, Dial(r)
  PROVE  IInv'
  <1> PICK c \in Conns :
         /\ link[c] = "new"
         /\ link' = [link EXCEPT ![c] = "live"]
         /\ Step(r, "dial", [At(r, "open") EXCEPT !.via = c])
    BY DEF Dial
  <1> DEFINE q == [At(r, "open") EXCEPT !.via = c]
  <1>0. req[r].at = "dial" /\ req' = [req EXCEPT ![r] = q]
        /\ UNCHANGED <<up, approval, faults, current, mu, conn, shown>>
    BY DEF Dial, Step
  <1>1. mu = r /\ conn = 0 /\ RequestOK(req[r], TRUE)
    BY <1>0, HolderAlone
  <1>2. RequestOK(q, mu' = r)
    <2>1. c # 0
      BY DEF Conns
    <2>2. q \in ReqType
      BY <1>1 DEF RequestOK, ReqType, Places, At
    <2>3. q = [req[r] EXCEPT !.at = "open", !.via = c]
      BY DEF At
    <2>4. q.at = "open" /\ q.via = c /\ q.cur = req[r].cur /\ q.phase = req[r].phase
          /\ q.id = req[r].id
      BY <1>1, <2>3 DEF RequestOK, ReqType
    <2> HIDE DEF q
    <2> QED BY <1>0, <1>1, <2>1, <2>2, <2>4 DEF RequestOK, Calling
  <1>3. RequestsOK' /\ (DOMAIN req = Requests /\ req = [x \in Requests |-> req[x]])'
    BY <1>0, <1>2, StepOK
  <1>4. SharedOK'
    BY <1>0, <1>3 DEF IInv, SharedOK
  <1>5. Held'
    BY <1>0, <1>1 DEF Held
  <1>6. LiveOwned'
    <2>1. ASSUME NEW d \in Conns, link'[d] = "live" PROVE d = c
      BY <1>0, <2>1, HolderAlone DEF IInv, SharedOK
    <2>2. req'[r].at = "open" /\ req'[r].via = c
      BY <1>0, <1>2 DEF IInv, SharedOK, At, RequestOK, ReqType
    <2> QED BY <2>1, <2>2 DEF LiveOwned
  <1> QED BY <1>3, <1>4, <1>5, <1>6 DEF IInv

(* The holder gives up the mutex and goes on with what Failed makes of it; *)
(* its connection, if it had one, is closed.                               *)
LEMMA GivesUpKeepsIInv ==
  ASSUME IInv, NEW r \in Requests, req[r].at \in {"dial", "open"},
         req' = [req EXCEPT ![r] = Failed(r)], mu' = None,
         link' \in [Conns -> {"new", "live", "broken", "done"}],
         \A c \in Conns : link'[c] # "live",
         faults' \in 0..MaxFaults,
         UNCHANGED <<up, approval, current, conn, shown>>
  PROVE  IInv'
  <1>1. mu = r /\ RequestOK(req[r], mu = r) /\ mu' # r
    BY HolderAlone, NoneApart
  <1>2. RequestOK(Failed(r), mu' = r)
    BY <1>1, FailedOK
  <1>3. RequestsOK' /\ (DOMAIN req = Requests /\ req = [x \in Requests |-> req[x]])'
    BY <1>1, <1>2, StepOK
  <1>4. SharedOK'
    BY <1>3 DEF IInv, SharedOK
  <1>5. Held' /\ LiveOwned'
    BY DEF Held, LiveOwned
  <1> QED BY <1>3, <1>4, <1>5 DEF IInv

LEMMA FailsForOK ==
  ASSUME IInv, NEW reason, FailsFor(reason)
  PROVE  faults' \in 0..MaxFaults
  BY ControlAssumption DEF IInv, SharedOK, FailsFor, Fault

LEMMA DialFailsKeepsIInv ==
  ASSUME IInv, NEW r \in Requests, DialFails(r)
  PROVE  IInv'
  <1> USE DEF DialFails, Step
  <1>1. faults' \in 0..MaxFaults
    BY FailsForOK
  <1>2. \A c \in Conns : link[c] # "live"
    BY HolderAlone
  <1> QED BY <1>1, <1>2, GivesUpKeepsIInv DEF IInv, SharedOK

LEMMA OpenFailsKeepsIInv ==
  ASSUME IInv, NEW r \in Requests, OpenFails(r)
  PROVE  IInv'
  <1> USE DEF OpenFails, Step
  <1>1. faults' \in 0..MaxFaults
    BY FailsForOK
  <1>2. link' \in [Conns -> {"new", "live", "broken", "done"}]
        /\ \A c \in Conns : link'[c] # "live"
    BY HolderAlone DEF IInv, SharedOK
  <1> QED BY <1>1, <1>2, GivesUpKeepsIInv

LEMMA OpenKeepsIInv ==
  ASSUME IInv, NEW r \in Requests, Open(r)
  PROVE  IInv'
  <1> USE DEF daemonVars
  <1> DEFINE q == At(r, "call")
  <1>0. /\ req[r].at = "open" /\ req' = [req EXCEPT ![r] = q]
        /\ conn' = req[r].via /\ mu' = None
        /\ UNCHANGED <<daemonVars, current, shown>>
    BY DEF Open, Step
  <1>1. mu = r /\ RequestOK(req[r], TRUE) /\ r # None
    BY <1>0, HolderAlone, NoneApart
  <1>2. RequestOK(q, mu' = r)
    BY <1>0, <1>1 DEF RequestOK, ReqType, Places, Phases, Calling, At
  <1>3. RequestsOK' /\ (DOMAIN req = Requests /\ req = [x \in Requests |-> req[x]])'
    BY <1>0, <1>1, <1>2, StepOK
  <1>4. conn' \in Conns \cup {0}
    BY <1>0, <1>1 DEF RequestOK, ReqType
  <1>5. SharedOK'
    BY <1>0, <1>3, <1>4 DEF IInv, SharedOK
  <1>6. Held'
    BY <1>0 DEF Held
  <1>7. LiveOwned'
    BY <1>0, HolderAlone DEF LiveOwned
  <1> QED BY <1>3, <1>5, <1>6, <1>7 DEF IInv

LEMMA CloseKeepsIInv ==
  ASSUME IInv, Close
  PROVE  IInv'
  <1>1. \A x \in Requests : req[x].at # "open"
    BY NoneApart DEF IInv, RequestsOK, RequestOK, Close
  <1>2. LiveOwned'
    BY <1>1 DEF IInv, LiveOwned, SharedOK, Close
  <1>3. SharedOK'
    BY ControlAssumption DEF IInv, SharedOK, Close, Fault
  <1>4. RequestsOK' /\ Held'
    BY DEF IInv, RequestsOK, Held, Close
  <1> QED BY <1>2, <1>3, <1>4 DEF IInv
-----------------------------------------------------------------------------
(* The other parties let the requests, the mutex and the connection be,    *)
(* and bring no connection to life.                                        *)
LEMMA ElsewhereKeepsIInv ==
  ASSUME IInv, UNCHANGED <<mu, conn, req, shown>>, SharedOK',
         \A c \in Conns : link'[c] = "live" => link[c] = "live"
  PROVE  IInv'
  <1>1. RequestsOK' /\ Held'
    BY DEF IInv, RequestsOK, Held
  <1>2. LiveOwned'
    BY DEF IInv, LiveOwned
  <1> QED BY <1>1, <1>2 DEF IInv

LEMMA EnvironmentKeepsIInv ==
  ASSUME IInv, Environment
  PROVE  IInv'
  <1> USE DEF IInv, SharedOK, daemonVars
  <1>1. ASSUME NEW s \in Sessions, Focus(s) PROVE IInv'
    BY <1>1, ElsewhereKeepsIInv DEF Focus
  <1>2. ASSUME NEW a \in Approvals, Ask(a) \/ ResolvedElsewhere(a) PROVE IInv'
    <2>1. SharedOK'
      BY <1>2 DEF Ask, ResolvedElsewhere
    <2> QED BY <1>2, <2>1, ElsewhereKeepsIInv DEF Ask, ResolvedElsewhere
  <1>3. CASE Crash
    <2>1. approval' \in [Approvals -> {"none", "pending", "resolved"}]
      BY <1>3 DEF Crash
    <2>2. link' \in [Conns -> {"new", "live", "broken", "done"}]
      BY <1>3 DEF Crash
    <2>3. faults' \in 0..MaxFaults
      BY <1>3, ControlAssumption DEF Crash, Fault
    <2>4. SharedOK'
      BY <1>3, <2>1, <2>2, <2>3 DEF Crash
    <2>5. \A c \in Conns : link'[c] = "live" => link[c] = "live"
      BY <1>3 DEF Crash
    <2> QED BY <1>3, <2>4, <2>5, ElsewhereKeepsIInv DEF Crash
  <1>4. CASE Start
    BY <1>4, ElsewhereKeepsIInv DEF Start
  <1>5. ASSUME NEW c \in Conns, Break(c) \/ Notice(c) PROVE IInv'
    <2>1. SharedOK'
      BY <1>5, ControlAssumption DEF Break, Notice, Fault
    <2> QED BY <1>5, <2>1, ElsewhereKeepsIInv DEF Break, Notice
  <1> QED BY <1>1, <1>2, <1>3, <1>4, <1>5 DEF Environment
-----------------------------------------------------------------------------
LEMMA CallKeepsIInv ==
  ASSUME IInv, NEW r \in Requests, Call(r)
  PROVE  IInv'
  <1> DEFINE id == req[r].id
             ok == req[r].phase = "respond" => approval[id] = "pending"
             l == IF req[r].phase \in {"check", "panel"} THEN Pending(req[r].cur) ELSE {}
             q == [At(r, "answer") EXCEPT !.ok = ok, !.list = l]
  <1>0. /\ req[r].at = "call" /\ req' = [req EXCEPT ![r] = q]
        /\ approval' = IF req[r].phase = "respond" /\ ok
                       THEN [approval EXCEPT ![id] = "resolved"] ELSE approval
        /\ UNCHANGED <<up, link, faults, current, mu, conn, shown>>
    BY DEF Call, Step
  <1>1. RequestOK(req[r], mu = r) /\ mu # r
    BY <1>0 DEF IInv, RequestsOK, RequestOK
  <1>2. req[r].cur \in Sessions /\ req[r].cur # None
    BY <1>0, <1>1 DEF RequestOK, ReqType, Calling
  <1>3. l \subseteq Approvals /\ \A a \in l : SessionOf(a) = req[r].cur
    BY <1>2 DEF Pending
  <1>4. ok \in BOOLEAN
    OBVIOUS
  <1>5. RequestOK(q, mu' = r)
    <2> HIDE DEF l, ok
    <2> QED BY <1>0, <1>1, <1>3, <1>4 DEF RequestOK, ReqType, Places, Phases, Calling, At
  <1>6. RequestsOK' /\ (DOMAIN req = Requests /\ req = [x \in Requests |-> req[x]])'
    <2> HIDE DEF q
    <2> QED BY <1>0, <1>5, StepOK
  <1>7. approval' \in [Approvals -> {"none", "pending", "resolved"}]
    BY <1>0 DEF IInv, SharedOK
  <1>8. SharedOK'
    BY <1>0, <1>6, <1>7 DEF IInv, SharedOK
  <1>9. Held'
    BY <1>0 DEF IInv, Held
  <1>10. LiveOwned'
    BY <1>0 DEF IInv, SharedOK, LiveOwned
  <1> QED BY <1>6, <1>8, <1>9, <1>10 DEF IInv

LEMMA DispatchPromptKeepsIInv ==
  ASSUME IInv, NEW r \in Requests, DispatchPrompt(r)
  PROVE  IInv'
  <1>1. mu # r /\ req[r].at = "call"
    BY DEF IInv, RequestsOK, RequestOK, DispatchPrompt, Step
  <1> QED BY <1>1, NoReqOK, MoveKeepsIInv DEF DispatchPrompt, Step, Respond

LEMMA CallFailsKeepsIInv ==
  ASSUME IInv, NEW r \in Requests, CallFails(r)
  PROVE  IInv'
  <1> USE DEF CallFails
  <1>1. RequestOK(req[r], mu = r) /\ mu # r
    BY DEF IInv, RequestsOK, RequestOK
  <1>2. RequestOK(Failed(r), mu' = r)
    BY <1>1, FailedOK
  <1>3. RequestsOK' /\ (DOMAIN req = Requests /\ req = [x \in Requests |-> req[x]])'
    BY <1>2, StepOK
  <1>4. SharedOK'
    BY <1>3, FailsForOK DEF IInv, SharedOK
  <1>5. Held' /\ LiveOwned'
    BY DEF IInv, SharedOK, Held, LiveOwned
  <1> QED BY <1>3, <1>4, <1>5 DEF IInv

LEMMA AnsweredKeepsIInv ==
  ASSUME IInv, NEW r \in Requests, Answered(r)
  PROVE  IInv'
  <1> DEFINE q == req[r]
             asks == [At(r, "ensure") EXCEPT !.phase = "respond", !.via = 0, !.list = {}]
             again == [NoReq EXCEPT !.at = "focus"]
             new == IF ~q.ok THEN Failed(r)
                    ELSE IF q.phase = "check" /\ Contains(q.list, q.id) THEN asks
                    ELSE IF q.phase = "respond" THEN again
                    ELSE IF q.phase \in {"check", "panel"} THEN Render(r, q.list)
                    ELSE Respond(r)
  <1>0. /\ q.at = "answer" /\ req' = [req EXCEPT ![r] = new]
        /\ UNCHANGED <<daemonVars, current, mu, conn, shown>>
    BY DEF Answered, Step
  <1>1. RequestOK(q, mu = r) /\ mu # r
    BY <1>0 DEF IInv, RequestsOK, RequestOK
  <1>2. RequestOK(Failed(r), mu = r)
    BY <1>1, FailedOK
  <1>3. q.phase = "check" /\ Contains(q.list, q.id) => RequestOK(asks, mu = r)
    (* What is answered was listed for the session that had the focus. *)
    BY <1>0, <1>1 DEF RequestOK, ReqType, Places, Phases, Calling, At, Contains
  <1>4. RequestOK(again, mu = r)
    BY <1>1 DEF RequestOK, NoReq, ReqType, Places, Phases, Calling
  <1>5. q.phase \in {"check", "panel"} => RequestOK(Render(r, q.list), mu = r)
    BY <1>0, <1>1, RenderOK DEF RequestOK, ReqType
  <1>6. RequestOK(Respond(r), mu = r)
    BY <1>1, NoReqOK DEF Respond
  <1>7. RequestOK(new, mu = r)
    <2> HIDE DEF q, asks, again
    <2> QED BY <1>2, <1>3, <1>4, <1>5, <1>6
  <1> HIDE DEF new
  <1> QED BY <1>0, <1>7, MoveKeepsIInv

LEMMA SwapKeepsIInv ==
  ASSUME IInv, NEW r \in Requests, Swap(r)
  PROVE  IInv'
  <1> USE DEF Swap, Step, daemonVars
  <1>1. RequestOK(req[r], mu = r) /\ mu # r
    BY DEF IInv, RequestsOK, RequestOK
  <1>2. req[r].list \subseteq Approvals
    BY <1>1 DEF RequestOK, ReqType
  <1>3. RequestsOK' /\ (DOMAIN req = Requests /\ req = [x \in Requests |-> req[x]])'
    BY <1>1, NoReqOK, StepOK
  <1>4. SharedOK'
    BY <1>2, <1>3 DEF IInv, SharedOK
  <1>5. Held' /\ LiveOwned'
    BY DEF IInv, SharedOK, Held, LiveOwned
  <1> QED BY <1>3, <1>4, <1>5 DEF IInv
-----------------------------------------------------------------------------
LEMMA IInvStep == IInv /\ [Next]_vars => IInv'
  <1> SUFFICES ASSUME IInv, [Next]_vars PROVE IInv'
    OBVIOUS
  <1>1. ASSUME NEW r \in Requests, Poll(r) \/ Prompt(r) \/ Press(r) PROVE IInv'
    BY <1>1, BeginKeepsIInv DEF Poll, Prompt, Press, Phases
  <1>2. ASSUME NEW r \in Requests, Answer(r) PROVE IInv'
    <2>1. PICK a \in shown : Begin(r, "check", a)
      BY <1>2 DEF Answer
    <2>2. a \in Approvals
      BY DEF IInv, SharedOK
    <2> QED BY <2>1, <2>2, BeginKeepsIInv DEF Phases
  <1>3. ASSUME NEW r \in Requests, Ensure(r) PROVE IInv'
    BY <1>3, EnsureCachedKeepsIInv, EnsureDialsKeepsIInv, DialKeepsIInv, DialFailsKeepsIInv,
       OpenKeepsIInv, OpenFailsKeepsIInv DEF Ensure
  <1>4. ASSUME NEW r \in Requests, Handle(r) PROVE IInv'
    BY <1>3, <1>4, ReadFocusKeepsIInv, BlankPromptKeepsIInv, CallKeepsIInv,
       DispatchPromptKeepsIInv, CallFailsKeepsIInv, AnsweredKeepsIInv, SwapKeepsIInv DEF Handle
  <1>5. CASE UNCHANGED vars
    BY <1>5 DEF vars, daemonVars, IInv, SharedOK, RequestsOK, Held, LiveOwned
  <1> QED BY <1>1, <1>2, <1>4, <1>5, CloseKeepsIInv, EnvironmentKeepsIInv DEF Next, Requests

LEMMA InductiveInvariant == Spec => []IInv
  BY IInvInit, IInvStep, PTL DEF Spec

(* Every variable stays within its type; no call is made without a session *)
(* or a connection, and Controller.mu is held exactly while a request      *)
(* dials and opens the workspace.                                          *)
THEOREM TypeCorrect == Spec => []TypeOK
  <1>1. IInv => TypeOK
    <2> SUFFICES ASSUME IInv PROVE TypeOK
      OBVIOUS
    <2>1. \A r \in Requests : RequestOK(req[r], mu = r)
      BY DEF IInv, RequestsOK
    <2>2. req \in [Requests -> ReqType]
      BY <2>1 DEF IInv, SharedOK, RequestOK
    <2>3. \A r \in Requests :
             /\ req[r].at \in Calling => req[r].cur # None
             /\ req[r].at \in {"open", "call", "answer"} => req[r].via # 0
             /\ req[r].at \in {"dial", "open"} <=> mu = r
      BY <2>1 DEF RequestOK
    <2> QED BY <2>2, <2>3 DEF TypeOK, IInv, SharedOK
  <1> QED BY <1>1, InductiveInvariant, PTL

(* handleApprovalsRespond answers, and the panel shows, only approvals of  *)
(* the session that the request found to have the focus: a stale panel     *)
(* does not reach into another session, however the focus, the approvals   *)
(* and the connection change between the calls.                            *)
THEOREM OnlyFocusedAnswered == Spec => []OnlyFocused
  <1>1. IInv => OnlyFocused
    BY DEF IInv, RequestsOK, RequestOK, OnlyFocused
  <1> QED BY <1>1, InductiveInvariant, PTL

(* Requests that come together to ensure do not dial twice, and what is    *)
(* given up is closed: never are two connections to the daemon alive.      *)
THEOREM OneConnectionAlive == Spec => []OneConnection
  <1>1. IInv => OneConnection
    <2> SUFFICES ASSUME IInv PROVE OneConnection
      OBVIOUS
    <2> DEFINE Alive == {c \in Conns : link[c] = "live"}
    <2>1. \A c, d \in Alive : c = d
      <3>1. CASE \E r \in Requests : req[r].at = "open"
        BY <3>1, HolderAlone
      <3>2. CASE ~ \E r \in Requests : req[r].at = "open"
        BY <3>2 DEF IInv, LiveOwned
      <3> QED BY <3>1, <3>2
    <2>2. Cardinality(Alive) <= 1
      <3> HIDE DEF Alive
      <3>1. CASE Alive = {}
        BY <3>1, FS_EmptySet
      <3>2. ASSUME NEW c \in Alive PROVE Cardinality(Alive) = 1
        <4>1. Alive = {c}
          BY <2>1
        <4> QED BY <4>1, FS_Singleton
      <3> QED BY <3>1, <3>2
    <2> QED BY <2>2 DEF OneConnection, IInv, LiveOwned
  <1> QED BY <1>1, InductiveInvariant, PTL
=============================================================================
