------------------------------ MODULE PageProofs ------------------------------
(***************************************************************************)
(* Theorems about Page, for any number of sessions, workspaces and events. *)
(*                                                                         *)
(* RequestOK is what a request knows of the lister: whether it holds       *)
(* Lister.mu and whether there is a connection.  Forgiven says why no two  *)
(* listings fail in a row: after the first the connection is a new one, or *)
(* none.                                                                   *)
(***************************************************************************)
EXTENDS Page, TLAPS

(* Of one request, whether it holds Lister.mu, and Lister.conn. *)
RequestOK(q, holds, c) ==
    /\ q \in ReqType
    /\ q.at \in {"dial", "call"} <=> holds
    /\ q.at = "dial" => c = "nil"
    /\ q.at = "call" => c # "nil"

RequestsOK ==
    /\ DOMAIN req = Fragments /\ req = [f \in Fragments |-> req[f]]
    /\ \A f \in Fragments : RequestOK(req[f], mu = f, conn)

ListerOK ==
    /\ mu \in Listing \cup {"free"}
    /\ conn \in {"nil", "live", "broken"}
    /\ failed \in Nat

SharedOK ==
    /\ up \in BOOLEAN
    /\ listed \subseteq Sessions
    /\ events \in 0..MaxEvents
    /\ current \in Sessions \cup {None}
    /\ folded \in Sessions \cup {None}
    /\ page \in [loaded : BOOLEAN, composer : BOOLEAN]

(* A listing that failed left no broken connection behind, and a fault     *)
(* that breaks another one starts the count anew.                          *)
Forgiven == failed <= 1 /\ (failed = 1 => conn # "broken")

IInv == SharedOK /\ ListerOK /\ RequestsOK /\ Forgiven
-----------------------------------------------------------------------------
LEMMA NoReqOK == \A c : RequestOK(NoReq, FALSE, c)
  BY DEF RequestOK, NoReq, ReqType, Places

LEMMA ListingHolds == Listing \subseteq Fragments /\ "free" \notin Fragments
  BY DEF Listing, Fragments, Polled

LEMMA IInvInit == Init => IInv
  <1> SUFFICES ASSUME Init PROVE IInv
    OBVIOUS
  <1>1. \A f \in Fragments : req[f] = NoReq /\ mu # f
    BY ListingHolds DEF Init
  <1>2. RequestsOK
    BY <1>1, NoReqOK DEF RequestsOK, Init
  <1>3. SharedOK
    BY PageAssumption DEF Init, SharedOK
  <1>4. ListerOK /\ Forgiven
    BY DEF Init, ListerOK, Forgiven
  <1> QED BY <1>2, <1>3, <1>4 DEF IInv

(* A request steps to q; the mutex and the connection are let be, or are   *)
(* only its own business.                                                  *)
LEMMA StepOK ==
  ASSUME RequestsOK, NEW f \in Fragments, NEW q, RequestOK(q, mu' = f, conn'),
         req' = [req EXCEPT ![f] = q],
         \/ mu' = mu /\ conn' = conn
         \/ mu \in {f, "free"} /\ mu' \in {f, "free"}
  PROVE  RequestsOK'
  <1>1. req' = [x \in Fragments |-> req'[x]] /\ DOMAIN req' = Fragments
    BY DEF RequestsOK
  <1>2. ASSUME NEW x \in Fragments PROVE RequestOK(req'[x], mu' = x, conn')
    <2>1. CASE x = f
      BY <2>1 DEF RequestsOK
    <2>2. CASE x # f
      <3>1. req'[x] = req[x] /\ RequestOK(req[x], mu = x, conn)
        BY <2>2 DEF RequestsOK
      <3>2. CASE mu' = mu /\ conn' = conn
        BY <3>1, <3>2
      <3>3. CASE mu \in {f, "free"} /\ mu' \in {f, "free"}
        <4>1. mu # x /\ mu' # x
          BY <2>2, <3>3, ListingHolds
        <4> QED BY <3>1, <4>1 DEF RequestOK
      <3> QED BY <3>2, <3>3
    <2> QED BY <2>1, <2>2
  <1> QED BY <1>1, <1>2 DEF RequestsOK

(* A request that does not have to do with the lister. *)
LEMMA MoveKeepsIInv ==
  ASSUME IInv, NEW f \in Fragments, NEW q, RequestOK(q, mu = f, conn),
         req' = [req EXCEPT ![f] = q],
         UNCHANGED <<daemonVars, timelineVars, listerVars>>,
         page' \in [loaded : BOOLEAN, composer : BOOLEAN]
  PROVE  IInv'
  <1> USE DEF daemonVars, timelineVars, listerVars
  <1>1. RequestsOK'
    BY StepOK DEF IInv
  <1>2. SharedOK'
    BY DEF IInv, SharedOK
  <1>3. ListerOK' /\ Forgiven'
    BY DEF IInv, ListerOK, Forgiven
  <1> QED BY <1>1, <1>2, <1>3 DEF IInv

-----------------------------------------------------------------------------
(* Lister.List *)

LEMMA LockKeepsIInv ==
  ASSUME IInv, NEW f \in Fragments, Lock(f)
  PROVE  IInv'
  <1> USE DEF Lock, Step, daemonVars, timelineVars
  <1> DEFINE q == At(f, IF conn = "nil" THEN "dial" ELSE "call")
  <1>1. RequestOK(req[f], mu = f, conn)
    BY DEF IInv, RequestsOK
  <1>2. RequestOK(q, mu' = f, conn')
    BY <1>1 DEF RequestOK, ReqType, Places, At
  <1>3. RequestsOK'
    <2> HIDE DEF q
    <2>1. req' = [req EXCEPT ![f] = q]
      BY DEF q
    <2> QED BY <1>2, <2>1, StepOK DEF IInv
  <1>4. SharedOK' /\ ListerOK' /\ Forgiven'
    BY DEF IInv, SharedOK, ListerOK, Forgiven
  <1> QED BY <1>3, <1>4 DEF IInv

LEMMA DialKeepsIInv ==
  ASSUME IInv, NEW f \in Fragments, Dial(f)
  PROVE  IInv'
  <1> USE DEF Dial, Step, daemonVars, timelineVars
  <1>1. RequestOK(req[f], mu = f, conn) /\ mu = f
    BY DEF IInv, RequestsOK, RequestOK
  <1>2. RequestOK(At(f, "call"), mu' = f, conn')
    BY <1>1 DEF RequestOK, ReqType, Places, At
  <1>3. RequestsOK'
    BY <1>1, <1>2, StepOK DEF IInv
  <1>4. SharedOK' /\ ListerOK' /\ Forgiven'
    BY DEF IInv, SharedOK, ListerOK, Forgiven
  <1> QED BY <1>3, <1>4 DEF IInv

LEMMA ReturnKeepsRequests ==
  ASSUME IInv, NEW f \in Fragments, mu = f, NEW l, l \subseteq Sessions, Return(f, l)
  PROVE  RequestsOK'
  <1> DEFINE at == IF f = "header" THEN "focus" ELSE "mark"
             q == [At(f, at) EXCEPT !.list = l]
  <1>1. req[f] \in ReqType
    BY DEF IInv, RequestsOK, RequestOK
  <1>2. q \in ReqType
    BY <1>1 DEF ReqType, Places, At
  <1>3. q.at \notin {"dial", "call"}
    BY <1>1 DEF ReqType, At
  <1>4. mu' # f
    BY ListingHolds DEF Return
  <1>5. RequestOK(q, mu' = f, conn')
    BY <1>2, <1>3, <1>4 DEF RequestOK
  <1>6. req' = [req EXCEPT ![f] = q] /\ mu' = "free"
    BY DEF Return
  <1> HIDE DEF q
  <1> QED BY <1>5, <1>6, StepOK DEF IInv

LEMMA FailsForOK ==
  ASSUME IInv, NEW reason, FailsFor(reason)
  PROVE  /\ events' \in 0..MaxEvents
         /\ events' # events \/ reason
  BY PageAssumption DEF IInv, SharedOK, FailsFor, Event

LEMMA CallKeepsIInv ==
  ASSUME IInv, NEW f \in Fragments, Call(f)
  PROVE  IInv'
  <1> USE DEF Call, daemonVars, timelineVars
  <1>1. mu = f
    BY DEF IInv, RequestsOK, RequestOK
  <1>2. RequestsOK'
    BY <1>1, ReturnKeepsRequests DEF IInv, SharedOK
  <1>3. SharedOK' /\ ListerOK' /\ Forgiven'
    BY DEF IInv, SharedOK, ListerOK, Forgiven, Return
  <1> QED BY <1>2, <1>3 DEF IInv

(* A dial fails while the daemon is down, which does not count, or because *)
(* of a fault of now.                                                      *)
LEMMA DialFailsKeepsIInv ==
  ASSUME IInv, NEW f \in Fragments, DialFails(f)
  PROVE  IInv'
  <1> USE DEF DialFails, timelineVars
  <1>1. mu = f
    BY DEF IInv, RequestsOK, RequestOK
  <1>2. events' \in 0..MaxEvents /\ (events' # events \/ ~up)
    BY FailsForOK
  <1>3. RequestsOK'
    BY <1>1, ReturnKeepsRequests
  <1>4. SharedOK'
    BY <1>2 DEF IInv, SharedOK
  <1>5. failed' = 0 \/ failed' = failed
    BY <1>2 DEF CountFailure
  <1>6. ListerOK' /\ Forgiven'
    BY <1>5 DEF IInv, ListerOK, Forgiven, Return
  <1> QED BY <1>3, <1>4, <1>6 DEF IInv

(* The connection was broken, so the listing before it had not failed; and *)
(* the connection is forgotten.                                            *)
LEMMA CallFailsKeepsIInv ==
  ASSUME IInv, NEW f \in Fragments, CallFails(f)
  PROVE  IInv'
  <1> USE DEF CallFails, timelineVars
  <1>1. mu = f
    BY DEF IInv, RequestsOK, RequestOK
  <1>2. events' \in 0..MaxEvents /\ (events' # events \/ conn = "broken")
    BY FailsForOK
  <1>3. RequestsOK'
    BY <1>1, ReturnKeepsRequests
  <1>4. SharedOK'
    BY <1>2 DEF IInv, SharedOK
  <1>5. failed \in Nat /\ (failed = 0 \/ conn # "broken")
    BY DEF IInv, ListerOK, Forgiven
  <1>6. failed' \in Nat /\ failed' <= 1
    BY <1>2, <1>5 DEF CountFailure, IInv, Forgiven
  <1>7. ListerOK' /\ Forgiven'
    BY <1>6 DEF ListerOK, Forgiven, Return
  <1> QED BY <1>3, <1>4, <1>7 DEF IInv
-----------------------------------------------------------------------------
(* The rest of the handlers *)

LEMMA ReadMarkKeepsIInv ==
  ASSUME IInv, NEW f \in Fragments, ReadMark(f)
  PROVE  IInv'
  <1> DEFINE q == [At(f, IF f = "rail" THEN "swap" ELSE "focus") EXCEPT !.mark = current]
  <1>1. RequestOK(req[f], mu = f, conn) /\ req[f].at = "mark" /\ req' = [req EXCEPT ![f] = q]
    BY DEF IInv, RequestsOK, ReadMark, Step
  <1>2. RequestOK(q, mu = f, conn)
    BY <1>1 DEF IInv, SharedOK, RequestOK, ReqType, Places, At
  <1> HIDE DEF q
  <1> QED BY <1>1, <1>2, MoveKeepsIInv DEF ReadMark, IInv, SharedOK

LEMMA ReadFocusKeepsIInv ==
  ASSUME IInv, NEW f \in Fragments, ReadFocus(f)
  PROVE  IInv'
  <1> DEFINE p == [req[f] EXCEPT !.cur = current]
             q == IF Found(p) THEN [p EXCEPT !.at = "usage"]
                  ELSE [p EXCEPT !.at = After(f), !.cur = None]
  <1>1. RequestOK(req[f], mu = f, conn) /\ req[f].at = "focus" /\ req' = [req EXCEPT ![f] = q]
    BY DEF IInv, RequestsOK, ReadFocus, Step
  <1>2. p \in ReqType
    BY <1>1 DEF IInv, SharedOK, RequestOK, ReqType
  <1>3. After(f) \in {"tools", "swap"}
    BY DEF After
  <1>4. q \in ReqType /\ q.at \notin {"dial", "call"}
    <2> HIDE DEF p
    <2> QED BY <1>2, <1>3 DEF ReqType, Places
  <1>5. RequestOK(q, mu = f, conn)
    <2> HIDE DEF q
    <2> QED BY <1>1, <1>4 DEF RequestOK
  <1> HIDE DEF q
  <1> QED BY <1>1, <1>5, MoveKeepsIInv DEF ReadFocus, IInv, SharedOK

LEMMA ReadUsageKeepsIInv ==
  ASSUME IInv, NEW f \in Fragments, ReadUsage(f)
  PROVE  IInv'
  <1> DEFINE q == [At(f, After(f)) EXCEPT !.usage = folded]
  <1>1. RequestOK(req[f], mu = f, conn) /\ req[f].at = "usage" /\ req' = [req EXCEPT ![f] = q]
    BY DEF IInv, RequestsOK, ReadUsage, Step
  <1>2. After(f) \in {"tools", "swap"}
    BY DEF After
  <1>3. RequestOK(q, mu = f, conn)
    BY <1>1, <1>2 DEF IInv, SharedOK, RequestOK, ReqType, Places, At
  <1> HIDE DEF q
  <1> QED BY <1>1, <1>3, MoveKeepsIInv DEF ReadUsage, IInv, SharedOK

LEMMA ReadToolsKeepsIInv ==
  ASSUME IInv, NEW f \in Fragments, ReadTools(f)
  PROVE  IInv'
  <1> DEFINE q == [At(f, "swap") EXCEPT !.tools = folded]
  <1>1. /\ RequestOK(req[f], mu = f, conn) /\ req[f].at \in {"tools", "idle"}
        /\ req' = [req EXCEPT ![f] = q]
    BY DEF IInv, RequestsOK, ReadTools, Step
  <1>2. RequestOK(q, mu = f, conn)
    BY <1>1 DEF IInv, SharedOK, RequestOK, ReqType, Places, At
  <1> HIDE DEF q
  <1> QED BY <1>1, <1>2, MoveKeepsIInv DEF ReadTools, IInv, SharedOK

LEMMA SwapKeepsIInv ==
  ASSUME IInv, NEW f \in Fragments, Swap(f)
  PROVE  IInv'
  <1>1. mu # f /\ req' = [req EXCEPT ![f] = NoReq]
    BY DEF IInv, RequestsOK, RequestOK, Swap, Step
  <1>2. RequestOK(NoReq, mu = f, conn)
    BY <1>1, NoReqOK
  <1>3. page' \in [loaded : BOOLEAN, composer : BOOLEAN]
    BY DEF Swap, IInv, SharedOK, Composer, Found
  <1> QED BY <1>1, <1>2, <1>3, MoveKeepsIInv DEF Swap
-----------------------------------------------------------------------------
(* The other parties let the requests and the mutex be; a connection that  *)
(* they break is no longer live, and a fault starts the count anew.        *)
LEMMA ElsewhereKeepsIInv ==
  ASSUME IInv, UNCHANGED <<mu, req>>, SharedOK',
         \/ UNCHANGED <<conn, failed>>
         \/ failed' = 0 /\ conn' \in {conn, Broken}
         \/ failed' = 0 /\ conn' = "nil" /\ mu = "free"
  PROVE  IInv'
  <1>1. ListerOK' /\ Forgiven'
    BY DEF IInv, ListerOK, Forgiven, Broken
  <1>2. \A f \in Fragments : RequestOK(req[f], mu = f, conn)
    BY DEF IInv, RequestsOK
  <1>3. \A f \in Fragments : RequestOK(req[f], mu = f, conn')
    BY <1>2, ListingHolds DEF RequestOK, Broken
  <1>4. RequestsOK'
    BY <1>3 DEF IInv, RequestsOK
  <1> QED BY <1>1, <1>4 DEF IInv

LEMMA OthersKeepIInv ==
  ASSUME IInv,
         \/ \E s \in Sessions : Focus(s) \/ SessionChanges(s)
         \/ Refold \/ Crash \/ Start \/ Break \/ Close
  PROVE  IInv'
  <1> USE DEF daemonVars, timelineVars, listerVars, IInv, SharedOK
  <1>1. Event => events' \in 0..MaxEvents
    BY PageAssumption DEF Event
  <1>2. ASSUME NEW s \in Sessions, Focus(s) PROVE IInv'
    BY <1>2, ElsewhereKeepsIInv DEF Focus
  <1>3. ASSUME NEW s \in Sessions, SessionChanges(s) PROVE IInv'
    <2>1. listed' \subseteq Sessions
      BY <1>3 DEF SessionChanges
    <2> QED BY <1>1, <1>3, <2>1, ElsewhereKeepsIInv DEF SessionChanges
  <1>4. CASE Refold
    BY <1>4, ElsewhereKeepsIInv DEF Refold
  <1>5. CASE Crash
    BY <1>1, <1>5, ElsewhereKeepsIInv DEF Crash
  <1>6. CASE Start
    BY <1>6, ElsewhereKeepsIInv DEF Start
  <1>7. CASE Break
    BY <1>1, <1>7, ElsewhereKeepsIInv DEF Break
  <1>8. CASE Close
    BY <1>1, <1>8, ElsewhereKeepsIInv DEF Close
  <1> QED BY <1>2, <1>3, <1>4, <1>5, <1>6, <1>7, <1>8
-----------------------------------------------------------------------------
LEMMA IInvStep == IInv /\ [Next]_vars => IInv'
  <1> SUFFICES ASSUME IInv, [Next]_vars PROVE IInv'
    OBVIOUS
  <1>1. ASSUME NEW f \in Fragments, List(f) PROVE IInv'
    BY <1>1, LockKeepsIInv, DialKeepsIInv, DialFailsKeepsIInv, CallKeepsIInv, CallFailsKeepsIInv
    DEF List
  <1>2. ASSUME NEW f \in Fragments, Handle(f) PROVE IInv'
    BY <1>1, <1>2, ReadMarkKeepsIInv, ReadFocusKeepsIInv, ReadUsageKeepsIInv,
       ReadToolsKeepsIInv, SwapKeepsIInv DEF Handle
  <1>3. CASE UNCHANGED vars
    BY <1>3, ElsewhereKeepsIInv
    DEF vars, daemonVars, timelineVars, listerVars, IInv, SharedOK
  <1> QED BY <1>2, <1>3, OthersKeepIInv DEF Next

LEMMA InductiveInvariant == Spec => []IInv
  BY IInvInit, IInvStep, PTL DEF Spec

(* Every variable stays within its type; Lister.mu is held exactly while a *)
(* request dials or calls, and it dials just when there is no connection.  *)
THEOREM TypeCorrect == Spec => []TypeOK
  <1>1. IInv => TypeOK
    <2> SUFFICES ASSUME IInv PROVE TypeOK
      OBVIOUS
    <2>1. req \in [Fragments -> ReqType]
      BY DEF IInv, RequestsOK, RequestOK
    <2> QED BY <2>1 DEF TypeOK, IInv, SharedOK, ListerOK, RequestsOK, RequestOK
  <1> QED BY <1>1, InductiveInvariant, PTL

(* Lister.List finds out that its connection is lost by failing, once: the *)
(* next listing, whichever handler asks for it, dials.                     *)
THEOREM FailsOncePerLoss == Spec => []OneFailurePerLoss
  <1>1. IInv => OneFailurePerLoss
    BY DEF IInv, Forgiven, OneFailurePerLoss
  <1> QED BY <1>1, InductiveInvariant, PTL
=============================================================================
