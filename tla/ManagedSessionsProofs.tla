----------------------- MODULE ManagedSessionsProofs -----------------------
(***************************************************************************)
(* Proofs about managed sessions for any number of requests, stores,       *)
(* sessions and races: the invariants TLC checks on small instances, and   *)
(* that the sessions implement ManagedContract, whose promise is off once  *)
(* a write rests on a stale read.                                          *)
(***************************************************************************)
EXTENDS ManagedSessions, TLAPS

LEMMA IdleType == Idle \in Request /\ Idle.session = None /\ Idle.kind = "idle"
  BY DEF Idle, Request, Kind

LEMMA SizeType == ASSUME NEW s PROVE Size(s) \in {0, 1}
  BY DEF Size

LEMMA VerdictType ==
  ASSUME TypeOK PROVE Verdict \in Reason \union {None}
  BY DEF TypeOK, Verdict, Reason

\* The steps of a request, whatever it is doing.
LEMMA GoesType ==
  ASSUME TypeOK, NEW c \in Call, NEW kind \in Kind,
         NEW t \in Store \union {None}, NEW s \in Session \union {None},
         NEW r \in Reason \union {None}, Goes(c, kind, t, s, r)
  PROVE  request' \in [Call -> Request]
<1>1. [kind |-> kind, store |-> t, session |-> s, reason |-> r] \in Request
  BY DEF Request
<1>2. QED
  BY <1>1 DEF Goes, TypeOK

LEMMA EndsType ==
  ASSUME TypeOK, NEW c \in Call, NEW stale, Ends(c, stale)
  PROVE  request' \in [Call -> Request] /\ races' \in Nat
  BY IdleType DEF TypeOK, Ends

LEMMA EndOpenType ==
  ASSUME TypeOK, NEW found, NEW why \in Reason, EndOpen(found, why)
  PROVE  /\ open' \in Session \union {None}
         /\ lapse' = None
         /\ reason' \in [Session -> Reason \union {None}]
         /\ logged' \in Nat
         /\ ended' \in Nat
<1>1. CASE open = None
  BY <1>1, SizeType DEF TypeOK, EndOpen
<1>2. CASE open # None
  <2>1. open \in Session
    BY <1>2 DEF TypeOK
  <2>2. [reason EXCEPT ![open] = why] \in [Session -> Reason \union {None}]
    BY <2>1 DEF TypeOK
  <2>3. QED
    BY <1>2, <2>2, SizeType DEF TypeOK, EndOpen
<1>3. QED
  BY <1>1, <1>2

\* What a request in progress knows.
LEMMA RequestTypes ==
  ASSUME IInv, NEW c \in Call
  PROVE  /\ request[c] \in Request
         /\ request[c].session \in Session \union {None}
         /\ request[c].reason \in Reason \union {None}
         /\ request[c].store \in Store \union {None}
         /\ request[c].kind \in {"start", "replace", "revoke"} =>
              request[c].store \in Store
         /\ request[c].kind \in {"resolve", "refresh", "end"} =>
              request[c].session \in Session
         /\ request[c].kind \in {"resolve", "end"} => request[c].reason \in Reason
  BY DEF IInv, TypeOK, Request, RequestInv

-----------------------------------------------------------------------------

LEMMA TypeStep == ASSUME IInv, [Next]_vars PROVE TypeOK'
<1> USE DEF sessionVars
<1>a. TypeOK
  BY DEF IInv
<1>1. ASSUME NEW t \in Store, UpsertTenantAccess(t) \/ ExpireAccess(t)
      PROVE  TypeOK'
  BY <1>1, <1>a DEF UpsertTenantAccess, ExpireAccess, TypeOK, Access
<1>2. CASE EnableAdministrator
  BY <1>2, <1>a DEF EnableAdministrator, TypeOK
<1>3. ASSUME NEW d \in {"idle_timeout", "absolute_timeout"}, Lapse(d)
      PROVE  TypeOK'
  BY <1>3, <1>a DEF Lapse, TypeOK
<1>4. ASSUME NEW c \in Call, NEW t \in Store, BeginRevoke(c, t) PROVE TypeOK'
  <2>1. OpenIn(t) \in Session \union {None}
    BY <1>a DEF OpenIn, TypeOK
  <2>2. request' \in [Call -> Request]
    BY <1>4, <1>a, <2>1, GoesType DEF BeginRevoke, Begins, Kind
  <2>3. QED
    BY <1>4, <1>a, <2>2 DEF BeginRevoke, TypeOK
<1>5. ASSUME NEW c \in Call, NEW t \in Store, BeginStart(c, t) PROVE TypeOK'
  <2>1. request' \in [Call -> Request]
    BY <1>5, <1>a, GoesType DEF BeginStart, Begins, Kind
  <2>2. QED
    BY <1>5, <1>a, <2>1 DEF BeginStart, TypeOK
<1>6. ASSUME NEW c \in Call, RevokeTenantAccess(c) PROVE TypeOK'
  <2>1. request' \in [Call -> Request] /\ races' \in Nat
    BY <1>6, <1>a, EndsType DEF RevokeTenantAccess
  <2>2. access' \in [Store -> Access]
    BY <1>6, <1>a DEF RevokeTenantAccess, TypeOK, Access
  <2>3. CASE OpenIn(request[c].store) # None
    <3>1. EndOpen(request[c].session, "access_revoked")
      BY <1>6, <2>3 DEF RevokeTenantAccess
    <3>2. "access_revoked" \in Reason
      BY DEF Reason
    <3>3. QED
      BY <1>6, <1>a, <2>1, <2>2, <3>1, <3>2, EndOpenType
         DEF RevokeTenantAccess, TypeOK
  <2>4. CASE OpenIn(request[c].store) = None
    BY <1>6, <1>a, <2>1, <2>2, <2>4, SizeType DEF RevokeTenantAccess, TypeOK
  <2>5. QED
    BY <2>3, <2>4
<1>7. ASSUME NEW c \in Call, BeginDisable(c) PROVE TypeOK'
  <2>1. request' \in [Call -> Request]
    BY <1>7, <1>a, GoesType DEF BeginDisable, Begins, Kind, TypeOK
  <2>2. QED
    BY <1>7, <1>a, <2>1 DEF BeginDisable, TypeOK
<1>8. ASSUME NEW c \in Call, DisableAdministrator(c) PROVE TypeOK'
  <2>1. "admin_disabled" \in Reason
    BY DEF Reason
  <2>2. QED
    BY <1>8, <1>a, <2>1, EndOpenType, EndsType DEF DisableAdministrator, TypeOK
<1>9. ASSUME NEW c \in Call, FindPrevious(c) PROVE TypeOK'
  <2>1. request' \in [Call -> Request]
    BY <1>9, <1>a, GoesType, RequestTypes DEF FindPrevious, Kind, TypeOK
  <2>2. QED
    BY <1>9, <1>a, <2>1 DEF FindPrevious, TypeOK
<1>10. ASSUME NEW c \in Call, StartSession(c) PROVE TypeOK'
  <2>1. request[c].store \in Store
    BY <1>10, RequestTypes DEF StartSession
  <2>2. started' \in 0 .. MaxSessions /\ open' \in Session
    BY <1>10, <1>a, ConstantsAssumption DEF StartSession, TypeOK, Session
  <2>3. reason' \in [Session -> Reason \union {None}]
    <3>1. CASE open = None
      BY <1>10, <1>a, <3>1 DEF StartSession, TypeOK
    <3>2. CASE open # None
      <4>1. open \in Session /\ "store_switch" \in Reason
        BY <1>a, <3>2 DEF TypeOK, Reason
      <4>2. QED
        BY <1>10, <1>a, <3>2, <4>1 DEF StartSession, TypeOK
    <3>3. QED
      BY <3>1, <3>2
  <2>4. logged' \in Nat /\ ended' \in Nat
    BY <1>10, <1>a, SizeType DEF StartSession, TypeOK
  <2>5. request' \in [Call -> Request] /\ races' \in Nat
    BY <1>10, <1>a, EndsType DEF StartSession
  <2>6. QED
    BY <1>10, <1>a, <2>1, <2>2, <2>3, <2>4, <2>5 DEF StartSession, TypeOK
<1>11. ASSUME NEW c \in Call, BeginResolve(c) PROVE TypeOK'
  <2>1. request' \in [Call -> Request]
    <3>1. Verdict \in Reason \union {None} /\ open \in Session \union {None}
      BY <1>a, VerdictType DEF TypeOK
    <3>2. (IF Verdict = None THEN "refresh" ELSE "resolve") \in Kind
      BY DEF Kind
    <3>3. QED
      BY <1>11, <1>a, <3>1, <3>2, GoesType DEF BeginResolve, Begins
  <2>2. QED
    BY <1>11, <1>a, <2>1 DEF BeginResolve, TypeOK
<1>12. ASSUME NEW c \in Call, RefreshActor(c) PROVE TypeOK'
  BY <1>12, <1>a, EndsType DEF RefreshActor, TypeOK
<1>13. ASSUME NEW c \in Call, BeginEnd(c) PROVE TypeOK'
  <2>1. request' \in [Call -> Request]
    <3>1. CASE Begins(c, "end", None, open, "user_exit")
      BY <1>a, <3>1, GoesType DEF Begins, Kind, Reason, TypeOK
    <3>2. CASE Goes(c, "end", None, open, request[c].reason)
      BY <1>a, <3>2, GoesType, RequestTypes DEF Kind, TypeOK
    <3>3. CASE request' = [request EXCEPT ![c] = Idle]
      BY <1>a, <3>3, IdleType DEF TypeOK
    <3>4. QED
      BY <1>13, <3>1, <3>2, <3>3 DEF BeginEnd
  <2>2. QED
    BY <1>13, <1>a, <2>1 DEF BeginEnd, TypeOK
<1>14. ASSUME NEW c \in Call, EndCurrentSession(c) PROVE TypeOK'
  <2>1. request[c].session \in Session /\ request[c].reason \in Reason
    BY <1>14, RequestTypes DEF EndCurrentSession
  <2>2. reason' \in [Session -> Reason \union {None}]
    BY <1>14, <1>a, <2>1 DEF EndCurrentSession, TypeOK
  <2>3. QED
    BY <1>14, <1>a, <2>2, EndsType DEF EndCurrentSession, TypeOK
<1>15. ASSUME NEW c \in Call, RollBack(c) PROVE TypeOK'
  BY <1>15, <1>a, IdleType DEF RollBack, TypeOK
<1>16. CASE UNCHANGED vars
  BY <1>16, <1>a DEF vars, TypeOK
<1>17. QED
  BY <1>1, <1>2, <1>3, <1>4, <1>5, <1>6, <1>7, <1>8, <1>9, <1>10, <1>11,
     <1>12, <1>13, <1>14, <1>15, <1>16
     DEF Next

\* What requests are sure of once past their checks.
LEMMA RequestStep == ASSUME IInv, [Next]_vars PROVE RequestInv'
<1> USE DEF RequestInv
<1>a. TypeOK /\ RequestInv
  BY DEF IInv
<1>1. ASSUME NEW c \in Call, request' = [request EXCEPT ![c] = Idle]
      PROVE  RequestInv'
  BY <1>1, <1>a, IdleType DEF TypeOK
<1>2. ASSUME UNCHANGED request PROVE RequestInv'
  BY <1>2, <1>a
<1>3. ASSUME NEW c \in Call, NEW kind, NEW t, NEW s, NEW r,
             Goes(c, kind, t, s, r),
             kind \in {"start", "replace", "revoke"} => t \in Store,
             kind \in {"resolve", "refresh", "end"} => s \in Session,
             kind \in {"resolve", "end"} => r \in Reason
      PROVE  RequestInv'
  BY <1>3, <1>a DEF Goes, TypeOK
<1>4. ASSUME NEW c \in Call, NEW t \in Store, BeginRevoke(c, t) \/ BeginStart(c, t)
      PROVE  RequestInv'
  BY <1>3, <1>4 DEF BeginRevoke, BeginStart, Begins
<1>5. ASSUME NEW c \in Call, BeginDisable(c) PROVE RequestInv'
  BY <1>3, <1>5 DEF BeginDisable, Begins
<1>6. ASSUME NEW c \in Call, FindPrevious(c) PROVE RequestInv'
  BY <1>3, <1>6, RequestTypes DEF FindPrevious
<1>7. ASSUME NEW c \in Call, BeginResolve(c) PROVE RequestInv'
  <2>1. open \in Session /\ Verdict \in Reason \union {None}
    BY <1>7, <1>a, VerdictType DEF BeginResolve, TypeOK
  <2>2. CASE Verdict = None
    BY <1>3, <1>7, <2>1, <2>2 DEF BeginResolve, Begins
  <2>3. CASE Verdict # None
    BY <1>3, <1>7, <2>1, <2>3 DEF BeginResolve, Begins
  <2>4. QED
    BY <2>2, <2>3
<1>8. ASSUME NEW c \in Call, BeginEnd(c) PROVE RequestInv'
  <2>1. CASE open # None /\ Begins(c, "end", None, open, "user_exit")
    BY <1>3, <1>a, <2>1 DEF Begins, TypeOK, Reason
  <2>2. CASE /\ request[c].kind = "resolve"
             /\ open = request[c].session
             /\ Goes(c, "end", None, open, request[c].reason)
    BY <1>3, <2>2, RequestTypes
  <2>3. CASE request' = [request EXCEPT ![c] = Idle]
    BY <1>1, <2>3
  <2>4. QED
    BY <1>8, <2>1, <2>2, <2>3 DEF BeginEnd
<1>9. QED
  BY <1>1, <1>2, <1>4, <1>5, <1>6, <1>7, <1>8
     DEF Next, vars, UpsertTenantAccess, ExpireAccess, EnableAdministrator,
         Lapse, RevokeTenantAccess, DisableAdministrator, StartSession,
         RefreshActor, EndCurrentSession, RollBack, Ends

\* The open session is the latest one and has no reason yet.
LEMMA SessionStep == ASSUME IInv, [Next]_vars PROVE SessionInv'
<1> USE DEF SessionInv, sessionVars
<1>a. TypeOK /\ SessionInv /\ (open # None => open \in Session)
  BY DEF IInv, TypeOK
<1>b. started \in Nat /\ None \notin Nat /\ None \notin Store
      /\ \A s \in Session : s \in Nat
  BY <1>a, ConstantsAssumption DEF TypeOK, Session
<1>1. ASSUME NEW c \in Call, request' = [request EXCEPT ![c] = Idle],
             UNCHANGED started
      PROVE  \A d \in Call : request'[d].session # None =>
                               request'[d].session <= started'
  BY <1>1, <1>a, IdleType DEF TypeOK
<1>2. ASSUME NEW c \in Call, NEW kind, NEW t, NEW s, NEW r,
             Goes(c, kind, t, s, r), UNCHANGED sessionVars,
             s # None => s <= started
      PROVE  SessionInv'
  BY <1>2, <1>a DEF Goes, TypeOK
<1>3. ASSUME UNCHANGED <<started, storeOf, open, reason, request>>
      PROVE  SessionInv'
  BY <1>3, <1>a
<1>4. ASSUME NEW c \in Call, NEW found, NEW why, EndOpen(found, why),
             request' = [request EXCEPT ![c] = Idle],
             UNCHANGED <<started, storeOf>>
      PROVE  SessionInv'
  <2>1. \A s \in Session : reason'[s] # None => s <= started' /\ s # open'
    <3>1. CASE open = None
      BY <1>4, <1>a, <1>b, <3>1 DEF EndOpen, TypeOK
    <3>2. CASE open # None
      BY <1>4, <1>a, <1>b, <3>2 DEF EndOpen, TypeOK
    <3>3. QED
      BY <3>1, <3>2
  <2>2. QED
    BY <1>1, <1>4, <2>1 DEF EndOpen
<1>5. ASSUME NEW c \in Call, RevokeTenantAccess(c) PROVE SessionInv'
  <2>1. request' = [request EXCEPT ![c] = Idle] /\ UNCHANGED <<started, storeOf>>
    BY <1>5 DEF RevokeTenantAccess, Ends
  <2>2. CASE EndOpen(request[c].session, "access_revoked")
    BY <1>4, <2>1, <2>2
  <2>3. CASE UNCHANGED <<open, reason>>
    BY <1>1, <1>a, <2>1, <2>3
  <2>4. QED
    BY <1>5, <2>2, <2>3 DEF RevokeTenantAccess
<1>6. ASSUME NEW c \in Call, DisableAdministrator(c) PROVE SessionInv'
  BY <1>4, <1>6 DEF DisableAdministrator, Ends
<1>7. ASSUME NEW c \in Call, StartSession(c) PROVE SessionInv'
  <2>1. request' = [request EXCEPT ![c] = Idle] /\ started' = started + 1
        /\ open' = started' /\ storeOf' = request[c].store
    BY <1>7 DEF StartSession, Ends
  <2>2. request[c].store \in Store
    BY <1>7, RequestTypes DEF StartSession
  <2>3. \A s \in Session : reason'[s] # None => s <= started
    <3>1. CASE open = None
      BY <1>7, <1>a, <3>1 DEF StartSession, TypeOK
    <3>2. CASE open # None
      BY <1>7, <1>a, <1>b, <3>2 DEF StartSession, TypeOK
    <3>3. QED
      BY <3>1, <3>2
  <2>4. \A s \in Session : reason'[s] # None => s <= started' /\ s # open'
    BY <1>b, <2>1, <2>3
  <2>5. \A d \in Call : request[d].session # None =>
          request[d].session \in Nat /\ request[d].session <= started
    BY <1>a, <1>b DEF TypeOK, Request
  <2>6. \A d \in Call : request'[d].session # None =>
                          request'[d].session <= started'
    BY <1>a, <1>b, <2>1, <2>5, IdleType DEF TypeOK
  <2>7. QED
    BY <2>1, <2>2, <2>4, <2>6
<1>8. ASSUME NEW c \in Call, EndCurrentSession(c) PROVE SessionInv'
  <2>1. request' = [request EXCEPT ![c] = Idle] /\ UNCHANGED <<started, storeOf>>
        /\ reason' = [reason EXCEPT ![request[c].session] = request[c].reason]
    BY <1>8 DEF EndCurrentSession, Ends
  <2>2. request[c].session \in Session /\ request[c].session <= started
    BY <1>8, <1>a, <1>b, RequestTypes, ConstantsAssumption
       DEF EndCurrentSession
  <2>3. open' # request[c].session /\ open' \in {open, None}
    BY <1>8, <1>b, <2>2 DEF EndCurrentSession
  <2>4. \A s \in Session : reason'[s] # None => s <= started' /\ s # open'
    BY <1>a, <1>b, <2>1, <2>2, <2>3 DEF TypeOK
  <2>5. QED
    BY <1>1, <1>a, <2>1, <2>3, <2>4
<1>9. ASSUME NEW c \in Call, NEW t \in Store, BeginRevoke(c, t) \/ BeginStart(c, t)
      PROVE  SessionInv'
  <2>1. OpenIn(t) # None => OpenIn(t) <= started
    BY <1>a, <1>b DEF OpenIn
  <2>2. QED
    BY <1>2, <1>9, <2>1 DEF BeginRevoke, BeginStart, Begins
<1>10. ASSUME NEW c \in Call, BeginDisable(c) \/ FindPrevious(c) \/ BeginResolve(c)
       PROVE  SessionInv'
  BY <1>2, <1>10, <1>a, <1>b DEF BeginDisable, FindPrevious, BeginResolve, Begins
<1>11. ASSUME NEW c \in Call, BeginEnd(c) PROVE SessionInv'
  <2>1. CASE Begins(c, "end", None, open, "user_exit") /\ UNCHANGED sessionVars
    BY <1>2, <1>a, <1>b, <2>1 DEF Begins
  <2>2. CASE Goes(c, "end", None, open, request[c].reason)
             /\ UNCHANGED sessionVars
    BY <1>2, <1>a, <1>b, <2>2
  <2>3. CASE request' = [request EXCEPT ![c] = Idle] /\ UNCHANGED sessionVars
    BY <1>1, <1>a, <2>3
  <2>4. QED
    BY <1>11, <2>1, <2>2, <2>3 DEF BeginEnd
<1>12. ASSUME NEW c \in Call, RollBack(c) \/ RefreshActor(c) PROVE SessionInv'
  <2>1. request' = [request EXCEPT ![c] = Idle]
        /\ UNCHANGED <<started, storeOf, open, reason>>
    BY <1>12 DEF RollBack, RefreshActor, Ends
  <2>2. QED
    BY <1>1, <1>a, <2>1
<1>13. QED
  BY <1>3, <1>5, <1>6, <1>7, <1>8, <1>9, <1>10, <1>11, <1>12
     DEF Next, vars, UpsertTenantAccess, ExpireAccess, EnableAdministrator, Lapse

\* Each write ends what it logs, unless it rests on a stale read.
LEMMA LogStep == ASSUME IInv, [Next]_vars PROVE EndsAreLogged'
<1> USE DEF EndsAreLogged, sessionVars
<1>a. TypeOK /\ EndsAreLogged
  BY DEF IInv
<1>b. logged \in Nat /\ ended \in Nat /\ races \in Nat
  BY <1>a DEF TypeOK
<1>1. ASSUME NEW found, NEW was, logged' = logged + Size(found),
             ended' = ended + Size(was),
             found # was => races' = races + 1,
             races' \in {races, races + 1}
      PROVE  EndsAreLogged'
  <2>1. CASE found = was
    BY <1>1, <1>a, <1>b, <2>1, SizeType
  <2>2. CASE found # was
    BY <1>1, <1>a, <1>b, <2>2, SizeType
  <2>3. QED
    BY <2>1, <2>2
<1>2. ASSUME NEW c \in Call, RevokeTenantAccess(c) PROVE EndsAreLogged'
  <2>1. ended' = ended + Size(OpenIn(request[c].store))
    BY <1>2, <1>b DEF RevokeTenantAccess, EndOpen, OpenIn, Size
  <2>2. logged' = logged + Size(request[c].session)
    BY <1>2 DEF RevokeTenantAccess, EndOpen
  <2>3. QED
    BY <1>1, <1>2, <2>1, <2>2 DEF RevokeTenantAccess, Ends
<1>3. ASSUME NEW c \in Call, DisableAdministrator(c) PROVE EndsAreLogged'
  BY <1>1, <1>3 DEF DisableAdministrator, EndOpen, Ends
<1>4. ASSUME NEW c \in Call, StartSession(c) PROVE EndsAreLogged'
  BY <1>1, <1>4 DEF StartSession, Ends
<1>5. ASSUME NEW c \in Call, EndCurrentSession(c) PROVE EndsAreLogged'
  BY <1>5, <1>a, <1>b DEF EndCurrentSession, Ends
<1>6. ASSUME UNCHANGED <<logged, ended, races>> PROVE EndsAreLogged'
  BY <1>6, <1>a
<1>7. QED
  BY <1>2, <1>3, <1>4, <1>5, <1>6
     DEF Next, vars, UpsertTenantAccess, ExpireAccess, EnableAdministrator,
         Lapse, BeginRevoke, BeginDisable, BeginStart, FindPrevious,
         BeginResolve, RefreshActor, BeginEnd, RollBack, Ends

LEMMA InvariantHolds == Spec => []IInv
<1>1. Init => IInv
  BY ConstantsAssumption, IdleType
     DEF Init, IInv, TypeOK, SessionInv, RequestInv, EndsAreLogged, Access
<1>2. IInv /\ [Next]_vars => IInv'
  BY TypeStep, SessionStep, RequestStep, LogStep DEF IInv
<1>3. QED
  BY <1>1, <1>2, PTL DEF Spec

\* Every reachable state of the sessions is well-typed.
THEOREM TypeCorrect == Spec => []TypeOK
<1>1. IInv => TypeOK
  BY DEF IInv
<1>2. QED
  BY <1>1, InvariantHolds, PTL

\* The open session, the reasons on record, what requests know of them and the
\* budget of log entries are invariant.
THEOREM InductiveInvariant == Spec => []IInv
  BY InvariantHolds

\* The log and the ends of sessions differ by one for each stale write at most.
THEOREM EveryEndIsLogged == Spec => []EndsAreLogged
<1>1. IInv => EndsAreLogged
  BY DEF IInv
<1>2. QED
  BY <1>1, InvariantHolds, PTL

-----------------------------------------------------------------------------

LEMMA ReasonStep ==
  ASSUME IInv, [Next]_vars, races' = races,
         NEW s \in Session, reason[s] # None
  PROVE  reason'[s] = reason[s]
<1>a. TypeOK /\ SessionInv /\ s # open /\ races \in Nat
  BY DEF IInv, TypeOK, SessionInv
<1>1. ASSUME NEW found, NEW why, EndOpen(found, why)
      PROVE  reason'[s] = reason[s]
  BY <1>1, <1>a DEF EndOpen, TypeOK
<1>2. ASSUME NEW c \in Call, StartSession(c) PROVE reason'[s] = reason[s]
  BY <1>2, <1>a DEF StartSession, TypeOK
<1>3. ASSUME NEW c \in Call, EndCurrentSession(c) PROVE reason'[s] = reason[s]
  <2>1. open = request[c].session
    BY <1>3, <1>a DEF EndCurrentSession, Ends
  <2>2. QED
    BY <1>3, <1>a, <2>1 DEF EndCurrentSession, TypeOK
<1>4. ASSUME UNCHANGED reason PROVE reason'[s] = reason[s]
  BY <1>4
<1>5. QED
  BY <1>1, <1>2, <1>3, <1>4
     DEF Next, vars, sessionVars, UpsertTenantAccess, ExpireAccess,
         EnableAdministrator, Lapse, BeginRevoke, RevokeTenantAccess,
         BeginDisable, DisableAdministrator, BeginStart, FindPrevious,
         BeginResolve, RefreshActor, BeginEnd, RollBack

\* The reason a session ended for is replaced by late writes only.
THEOREM ReasonsAreFinal == Spec => ReasonIsFinal
<1>1. IInv /\ [Next]_vars =>
        [races' = races =>
           \A s \in Session : reason[s] # None => reason'[s] = reason[s]]_vars
  BY ReasonStep
<1>2. QED
  BY <1>1, InvariantHolds, PTL DEF Spec, ReasonIsFinal

-----------------------------------------------------------------------------

Granted  == {t \in Store : access[t] \in {"usable", "expired"}}
Visiting == IF open = None THEN None ELSE storeOf
promised == <<isActive, Granted, Visiting, logged>>

\* Where there is no session there is none in a store.
LEMMA VisitingWhere ==
  ASSUME IInv
  PROVE  /\ Visiting = None <=> open = None
         /\ \A t \in Store : Visiting = t <=> OpenIn(t) # None
         /\ logged \in Nat
  BY ConstantsAssumption DEF IInv, TypeOK, SessionInv, Visiting, OpenIn

LEMMA ContractStep ==
  ASSUME IInv, [Next]_vars, races = 0, races' = 0
  PROVE  [Contract!KeepPromise]_promised
<1> USE DEF Contract!KeepPromise, sessionVars, Granted
<1>a. TypeOK /\ SessionInv
  BY DEF IInv
<1>1. ASSUME NEW t \in Store, UpsertTenantAccess(t)
      PROVE  [Contract!KeepPromise]_promised
  <2>1. Granted' = Granted \union {t}
    BY <1>1, <1>a DEF UpsertTenantAccess, TypeOK
  <2>2. UNCHANGED <<isActive, Visiting, logged>>
    BY <1>1 DEF UpsertTenantAccess, Visiting
  <2>3. Contract!Grant
    BY <2>1, <2>2 DEF Contract!Grant, Visiting
  <2>4. QED
    BY <2>3
<1>2. ASSUME NEW t \in Store, ExpireAccess(t)
      PROVE  [Contract!KeepPromise]_promised
  <2>1. Granted' = Granted
    BY <1>2, <1>a DEF ExpireAccess, TypeOK
  <2>2. QED
    BY <1>2, <2>1 DEF ExpireAccess, Visiting, promised
<1>3. CASE EnableAdministrator
  <2>1. Contract!SetEnabled
    BY <1>3 DEF EnableAdministrator, Contract!SetEnabled
  <2>2. QED
    BY <2>1
<1>4. ASSUME NEW c \in Call, RevokeTenantAccess(c)
      PROVE  [Contract!KeepPromise]_promised
  <2> DEFINE t == request[c].store
  <2>1. t \in Store /\ request[c].session = OpenIn(t)
    BY <1>4, RequestTypes DEF RevokeTenantAccess, Ends
  <2>2. Granted' = Granted \ {t}
    BY <1>4, <1>a, <2>1 DEF RevokeTenantAccess, TypeOK
  <2>3. CASE OpenIn(t) # None
    <3>1. open' = None /\ logged' = logged + 1
      BY <1>4, <2>1, <2>3 DEF RevokeTenantAccess, EndOpen, Size
    <3>2. Visiting = t /\ Visiting' = None /\ t # None
      BY <2>1, <2>3, <3>1, VisitingWhere, ConstantsAssumption DEF Visiting
    <3>3. Contract!Revoke
      BY <1>4, <2>1, <2>2, <3>1, <3>2
         DEF RevokeTenantAccess, Contract!Revoke, Contract!Leave, Visiting
    <3>4. QED
      BY <3>3
  <2>4. CASE OpenIn(t) = None
    <3>1. UNCHANGED <<open, storeOf, logged>>
      BY <1>4, <2>1, <2>4, VisitingWhere DEF RevokeTenantAccess, Size
    <3>2. Visiting # t /\ Visiting' = Visiting
      BY <2>1, <2>4, <3>1, VisitingWhere DEF Visiting
    <3>3. Contract!Revoke
      BY <1>4, <2>1, <2>2, <3>1, <3>2
         DEF RevokeTenantAccess, Contract!Revoke, Visiting
    <3>4. QED
      BY <3>3
  <2>5. QED
    BY <2>3, <2>4
<1>5. ASSUME NEW c \in Call, DisableAdministrator(c)
      PROVE  [Contract!KeepPromise]_promised
  <2>1. open' = None /\ logged' = logged + Size(open)
    BY <1>5 DEF DisableAdministrator, EndOpen, Ends
  <2>2. Contract!Leave /\ Visiting' = None
    BY <2>1, VisitingWhere DEF Contract!Leave, Visiting, Size
  <2>3. Contract!SetEnabled
    BY <1>5, <2>2 DEF DisableAdministrator, Contract!SetEnabled, Visiting
  <2>4. QED
    BY <2>3
<1>6. ASSUME NEW c \in Call, StartSession(c)
      PROVE  [Contract!KeepPromise]_promised
  <2> DEFINE t == request[c].store
  <2>1. t \in Store /\ ~Withdrawn(t) /\ request[c].session = open
    BY <1>6, RequestTypes DEF StartSession, Ends
  <2>2. started' # None
    BY <1>6, <1>a, ConstantsAssumption DEF StartSession, TypeOK
  <2>3. Visiting' = t
    BY <1>6, <2>2 DEF StartSession, Visiting
  <2>4. t \in Granted /\ isActive /\ UNCHANGED <<isActive, access>>
    BY <1>6, <1>a, <2>1 DEF StartSession, Withdrawn, TypeOK, Access
  <2>5. logged' = logged + Size(open)
    BY <1>6, <2>1 DEF StartSession
  <2>6. Contract!Leave
    BY <2>5, VisitingWhere DEF Contract!Leave, Visiting, Size
  <2>7. Contract!Visit
    BY <2>3, <2>4, <2>6 DEF Contract!Visit, Visiting
  <2>8. QED
    BY <2>7
<1>7. ASSUME NEW c \in Call, EndCurrentSession(c)
      PROVE  [Contract!KeepPromise]_promised
  <2>1. open = request[c].session /\ open # None
    BY <1>7, RequestTypes, ConstantsAssumption
       DEF EndCurrentSession, Ends, Session
  <2>2. open' = None /\ logged' = logged + 1
        /\ UNCHANGED <<isActive, access>>
    BY <1>7, <2>1 DEF EndCurrentSession
  <2>3. Visiting # None /\ Visiting' = None
    BY <2>1, <2>2, VisitingWhere DEF Visiting
  <2>4. Contract!Exit
    BY <2>2, <2>3 DEF Contract!Exit, Contract!Leave, Visiting
  <2>5. QED
    BY <2>4
<1>8. ASSUME UNCHANGED <<isActive, access, open, storeOf, logged>>
      PROVE  [Contract!KeepPromise]_promised
  BY <1>8 DEF promised, Visiting
<1>9. QED
  BY <1>1, <1>2, <1>3, <1>4, <1>5, <1>6, <1>7, <1>8
     DEF Next, vars, Lapse, BeginRevoke, BeginDisable, BeginStart,
         FindPrevious, BeginResolve, RefreshActor, BeginEnd, RollBack

LEMMA RacesGrow ==
  ASSUME TypeOK, [Next]_vars PROVE races' \in Nat /\ races <= races'
<1>1. UNCHANGED races \/ races' = races + 1
  BY DEF Next, vars, UpsertTenantAccess, ExpireAccess, EnableAdministrator,
         Lapse, BeginRevoke, RevokeTenantAccess, BeginDisable,
         DisableAdministrator, BeginStart, FindPrevious, StartSession,
         BeginResolve, RefreshActor, BeginEnd, EndCurrentSession, RollBack, Ends
<1>2. QED
  BY <1>1 DEF TypeOK

\* Until a write rests on a stale read, the sessions implement the contract of
\* managed access, for any number of requests, stores and sessions.
THEOREM Implementation == Spec => ImplementsContract
<1>1. Init => Contract!Init
  BY DEF Init, Contract!Init
<1>2. IInv /\ [Next]_vars => [Contract!Next]_Contract!vars
  <2> SUFFICES ASSUME IInv, [Next]_vars PROVE [Contract!Next]_Contract!vars
    OBVIOUS
  <2>1. races \in Nat /\ races' \in Nat /\ races <= races'
    BY RacesGrow DEF IInv, TypeOK
  <2>2. CASE races' > 0
    BY <2>2 DEF Contract!Next
  <2>3. CASE ~(races' > 0)
    <3>1. races' = 0 /\ races = 0
      BY <2>1, <2>3
    <3>2. [Contract!KeepPromise]_promised
      BY <3>1, ContractStep
    <3>3. QED
      BY <3>1, <3>2
         DEF promised, Granted, Visiting, Contract!Next, Contract!vars
  <2>4. QED
    BY <2>2, <2>3
<1>3. QED
  BY <1>1, <1>2, InvariantHolds, PTL DEF Spec, ImplementsContract, Contract!Spec
=============================================================================
