-------------------------- MODULE ManagedSessions --------------------------
(***************************************************************************)
(* The sessions in which one administrator manages stores: platform        *)
(* administrators grant and revoke the access to each store and disable or *)
(* enable the account, the administrator starts and leaves sessions, and   *)
(* every managed request resolves the session its token names.             *)
(*                                                                         *)
(* Operations read first and write later, under READ COMMITTED: the access *)
(* is checked before the transaction that starts a session, the open       *)
(* session is looked up before the update that ends what is open by then,  *)
(* and the log entries are about the sessions looked up.  A partial unique *)
(* index admits one session that has not ended, so "open" names it; a      *)
(* second start that meets the index fails, as in RollBack.                *)
(*                                                                         *)
(* Left out: permissions, feature flags and the audit of denials, and      *)
(* stores that a zone storefront operates, whose every request is refused. *)
(***************************************************************************)
EXTENDS Integers

CONSTANTS
  Call,         \* requests of the administrator and of platform ones
  Store,
  None,         \* no session, store or reason
  MaxSessions,  \* bound on the sessions started
  MaxRaces      \* bound on writes that rest on a stale read

ASSUME ConstantsAssumption ==
  /\ None \notin Store
  /\ None \notin Nat
  /\ MaxSessions \in Nat
  /\ MaxRaces \in Nat

VARIABLES
  isActive,  \* admin_users: is_active
  access,    \* admin_tenant_access: of each store
  started,   \* admin_management_sessions: their number
  storeOf,   \* store of the latest session
  open,      \* the session with no ended_at, or None
  lapse,     \* which deadline the open session has passed, or None
  reason,    \* sessions: end_reason
  logged,    \* activity_logs: ManagementSessionEnded entries
  ended,     \* history: sessions ended
  request,   \* requests: what each is doing
  races      \* history: writes that rest on a stale read

sessionVars == <<started, storeOf, open, lapse, reason, logged, ended>>
vars == <<isActive, access, sessionVars, request, races>>

Reason  == {"user_exit", "store_switch", "idle_timeout", "absolute_timeout",
            "access_revoked", "admin_disabled"}
Access  == {"none", "usable", "expired", "revoked"}
Session == 1 .. MaxSessions

Kind    == {"idle", "start", "replace", "revoke", "disable", "resolve",
            "refresh", "end"}
Request == [kind    : Kind,
            store   : Store \union {None},
            session : Session \union {None},
            reason  : Reason \union {None}]
Idle    == [kind |-> "idle", store |-> None, session |-> None, reason |-> None]

TypeOK ==
  /\ isActive \in BOOLEAN
  /\ access \in [Store -> Access]
  /\ started \in 0 .. MaxSessions
  /\ storeOf \in Store \union {None}
  /\ open \in Session \union {None}
  /\ lapse \in {"idle_timeout", "absolute_timeout", None}
  /\ reason \in [Session -> Reason \union {None}]
  /\ logged \in Nat
  /\ ended \in Nat
  /\ request \in [Call -> Request]
  /\ races \in Nat

Init ==
  /\ isActive = TRUE
  /\ access = [t \in Store |-> "none"]
  /\ started = 0
  /\ storeOf = None
  /\ open = None
  /\ lapse = None
  /\ reason = [s \in Session |-> None]
  /\ logged = 0
  /\ ended = 0
  /\ request = [c \in Call |-> Idle]
  /\ races = 0

-----------------------------------------------------------------------------

\* A request takes its next step, knowing store t, session s and reason r.
Goes(c, kind, t, s, r) ==
  request' = [request EXCEPT ![c] =
                [kind |-> kind, store |-> t, session |-> s, reason |-> r]]

Begins(c, kind, t, s, r) == request[c] = Idle /\ Goes(c, kind, t, s, r)

\* A request's last write; a stale one rests on what has changed.
Ends(c, stale) ==
  /\ request' = [request EXCEPT ![c] = Idle]
  /\ IF stale THEN races < MaxRaces /\ races' = races + 1 ELSE UNCHANGED races

Size(s) == IF s = None THEN 0 ELSE 1

\* The update that ends the open session, with a log entry for the one that
\* had been found before it.
EndOpenUnlogged(found, why) ==
  /\ open' = None
  /\ lapse' = None
  /\ reason' = IF open = None THEN reason ELSE [reason EXCEPT ![open] = why]
  /\ ended' = ended + Size(open)
  /\ logged' = logged
EndOpen(found, why) ==
  /\ open' = None
  /\ lapse' = None
  /\ reason' = IF open = None THEN reason ELSE [reason EXCEPT ![open] = why]
  /\ ended' = ended + Size(open)
  /\ logged' = logged + Size(found)

\* isAccessUsable.
Usable(t) == access[t] = "usable"

-----------------------------------------------------------------------------
(* Platform administrators                                                 *)

\* upsertTenantAccess; the check of the account precedes it and is not relied
\* on, for every session checks the account again.
UpsertTenantAccess(t) ==
  /\ isActive
  /\ access' = [access EXCEPT ![t] = "usable"]
  /\ UNCHANGED <<isActive, sessionVars, request, races>>

ExpireAccess(t) ==
  /\ access[t] = "usable"
  /\ access' = [access EXCEPT ![t] = "expired"]
  /\ UNCHANGED <<isActive, sessionVars, request, races>>

\* The open session of an access is that of its store.
OpenInNever(t)     == None
OpenIn(t)          == IF storeOf = t THEN open ELSE None

BeginRevoke(c, t) ==
  /\ access[t] # "none"
  /\ Begins(c, "revoke", t, OpenIn(t), None)
  /\ UNCHANGED <<isActive, access, sessionVars, races>>

RevokeTenantAccess(c) ==
  LET t     == request[c].store
      found == request[c].session
  IN  /\ request[c].kind = "revoke"
      /\ access' = [access EXCEPT ![t] = "revoked"]
      /\ IF OpenIn(t) # None
         THEN EndOpen(found, "access_revoked")
         ELSE /\ logged' = logged + Size(found)
              /\ UNCHANGED <<open, lapse, reason, ended>>
      /\ Ends(c, found # OpenIn(t))
      /\ UNCHANGED <<isActive, started, storeOf>>

BeginDisable(c) ==
  /\ Begins(c, "disable", None, open, None)
  /\ UNCHANGED <<isActive, access, sessionVars, races>>

DisableAdministrator(c) ==
  /\ request[c].kind = "disable"
  /\ isActive' = FALSE
  /\ EndOpen(request[c].session, "admin_disabled")
  /\ Ends(c, request[c].session # open)
  /\ UNCHANGED <<access, started, storeOf>>

EnableAdministrator ==
  /\ isActive' = TRUE
  /\ UNCHANGED <<access, sessionVars, request, races>>

-----------------------------------------------------------------------------
(* The administrator                                                       *)

\* startSession, the check before its transaction.
CheckStart(t) == Usable(t) /\ isActive

BeginStart(c, t) ==
  /\ CheckStart(t)
  /\ Begins(c, "start", t, None, None)
  /\ UNCHANGED <<isActive, access, sessionVars, races>>

\* previousSessions.
FindPrevious(c) ==
  /\ request[c].kind = "start"
  /\ Goes(c, "replace", request[c].store, open, None)
  /\ UNCHANGED <<isActive, access, sessionVars, races>>

Withdrawn(t) == access[t] \in {"none", "revoked"} \/ ~isActive

\* The update of the previous sessions and the new one.
StartSession(c) ==
  LET t     == request[c].store
      found == request[c].session
  IN  /\ request[c].kind = "replace"
      /\ started < MaxSessions
      /\ started' = started + 1
      /\ storeOf' = t
      /\ open' = started + 1
      /\ lapse' = None
      /\ reason' = IF open = None THEN reason
                   ELSE [reason EXCEPT ![open] = "store_switch"]
      /\ ended' = ended + Size(open)
      /\ logged' = logged + Size(found)
      /\ Ends(c, Withdrawn(t) \/ found # open)
      /\ UNCHANGED <<isActive, access>>

\* The deadlines of a session: 45 idle minutes, 8 hours.
Lapse(deadline) ==
  /\ open # None
  /\ lapse # "absolute_timeout"
  /\ lapse' = deadline
  /\ UNCHANGED <<isActive, access, started, storeOf, open, reason, logged,
                 ended, request, races>>

\* resolveActor, and getCurrentSession but for the account: why the open
\* session may not go on, or None.
Verdict ==
  CASE ~isActive                   -> "admin_disabled"
    [] isActive /\ lapse # None    -> lapse
    [] isActive /\ lapse = None /\ ~Usable(storeOf) -> "access_revoked"
    [] OTHER                       -> None

BeginResolve(c) ==
  /\ open # None
  /\ Begins(c, IF Verdict = None THEN "refresh" ELSE "resolve", None, open,
            Verdict)
  /\ UNCHANGED <<isActive, access, sessionVars, races>>

\* last_active_at is written to the session that was read, open or not.
RefreshActor(c) ==
  /\ request[c].kind = "refresh"
  /\ lapse' = IF open = request[c].session /\ lapse = "idle_timeout"
              THEN None ELSE lapse
  /\ Ends(c, FALSE)
  /\ UNCHANGED <<isActive, access, started, storeOf, open, reason, logged,
                 ended>>

\* endCurrentSession looks the open session up once more.
BeginEnd(c) ==
  \/ /\ open # None
     /\ Begins(c, "end", None, open, "user_exit")
     /\ UNCHANGED <<isActive, access, sessionVars, races>>
  \/ /\ request[c].kind = "resolve"
     /\ IF open = request[c].session
        THEN Goes(c, "end", None, open, request[c].reason)
        ELSE request' = [request EXCEPT ![c] = Idle]
     /\ UNCHANGED <<isActive, access, sessionVars, races>>

\* It is ended by id: with a reason and an entry even if it has ended since.
EndCurrentSession(c) ==
  LET s == request[c].session
  IN  /\ request[c].kind = "end"
      /\ reason' = [reason EXCEPT ![s] = request[c].reason]
      /\ logged' = logged + 1
      /\ IF open = s
         THEN open' = None /\ lapse' = None /\ ended' = ended + 1
         ELSE UNCHANGED <<open, lapse, ended>>
      /\ Ends(c, open # s)
      /\ UNCHANGED <<isActive, access, started, storeOf>>

\* A transaction fails, on the unique index too, or its process dies.
RollBack(c) ==
  /\ request[c] # Idle
  /\ request' = [request EXCEPT ![c] = Idle]
  /\ UNCHANGED <<isActive, access, sessionVars, races>>

Next ==
  \/ \E t \in Store : UpsertTenantAccess(t) \/ ExpireAccess(t)
  \/ EnableAdministrator
  \/ \E deadline \in {"idle_timeout", "absolute_timeout"} : Lapse(deadline)
  \/ \E c \in Call :
       \/ \E t \in Store : BeginRevoke(c, t) \/ BeginStart(c, t)
       \/ RevokeTenantAccess(c)
       \/ BeginDisable(c)
       \/ DisableAdministrator(c)
       \/ FindPrevious(c)
       \/ StartSession(c)
       \/ BeginResolve(c)
       \/ RefreshActor(c)
       \/ BeginEnd(c)
       \/ EndCurrentSession(c)
       \/ RollBack(c)

Spec == Init /\ [][Next]_vars

-----------------------------------------------------------------------------
(* Properties                                                              *)

\* The activity log keeps up with the sessions: each write that rests on a
\* stale read misses one end or adds one at most, and nothing else does.
EndsAreLogged == logged <= ended + races /\ ended <= logged + races

\* A session ends for one reason: only a write that comes too late, for it
\* found the session open, replaces what is on record.
ReasonIsFinal ==
  [][races' = races =>
       \A s \in Session : reason[s] # None => reason'[s] = reason[s]]_vars

\* Until a write rests on a stale read, no session is open without an account
\* and an access that stand, and every end is logged: "revokes an assignment,
\* terminates its sessions, and audits both changes".
Contract == INSTANCE ManagedContract WITH
  enabled  <- isActive,
  granted  <- {t \in Store : access[t] \in {"usable", "expired"}},
  visiting <- IF open = None THEN None ELSE storeOf,
  trail    <- logged,
  excused  <- (races > 0)
ImplementsContract == Contract!Spec

-----------------------------------------------------------------------------
(* The inductive invariant                                                 *)

\* The open session is the latest, a reason is on record for an ended one
\* only, and requests name sessions that have been started.
SessionInv ==
  /\ open # None => open = started /\ storeOf \in Store
  /\ \A s \in Session : reason[s] # None => s <= started /\ s # open
  /\ \A c \in Call : request[c].session # None => request[c].session <= started

\* What a request knows once it is past its checks.
RequestInv ==
  \A c \in Call :
    /\ request[c].kind \in {"start", "replace", "revoke"} =>
         request[c].store \in Store
    /\ request[c].kind \in {"resolve", "refresh", "end"} =>
         request[c].session \in Session
    /\ request[c].kind \in {"resolve", "end"} => request[c].reason \in Reason

IInv ==
  /\ TypeOK
  /\ SessionInv
  /\ RequestInv
  /\ EndsAreLogged
=============================================================================
