------------------------------ MODULE Dialects ------------------------------
(***************************************************************************)
(* The two implementations of the control plane.  On PostgreSQL every call *)
(* of auth/service.py and auth/sessions.py is one SECURITY DEFINER         *)
(* function; on SQLite, the database of the test-suite, the same call is   *)
(* written out in Python over the ORM.  Each call is given here twice, as  *)
(* what it answers and the rows it leaves when no other call is in         *)
(* progress: under its SQL name as PostgreSQL runs it, under its Python    *)
(* name as the SQLite fallback does.                                       *)
(*                                                                         *)
(* The web layer stands in front of both: the middleware drops a revoked   *)
(* or stale session, and the routes ask the capability matrix.  The audit  *)
(* events the calls append are left out: the two do not write the same     *)
(* ones (the SQLite switch_organisation writes none).                      *)
(***************************************************************************)
EXTENDS Access

Rows == [member |-> member, session |-> session, invitation |-> invitation]

\* An exception: RAISE EXCEPTION on PostgreSQL, RuntimeError or IntegrityError on SQLite.
Refused == [ok |-> FALSE, rows |-> Rows, answer |-> {}]

Answers(answer) == [ok |-> TRUE, rows |-> Rows, answer |-> {answer}]

Leaves(rows, answer) == [ok |-> TRUE, rows |-> rows, answer |-> {answer}]

Row(s) == member[session[s].principal]

\* The session rows after an UPDATE that sets revoked_at on those of the set.
Revoking(set) == [q \in Sessions |-> IF q \in set THEN [session[q] EXCEPT !.revoked = TRUE]
                                                  ELSE session[q]]

Switched(s, here, m) ==
    [session EXCEPT ![s] = [@ EXCEPT !.here    = here,
                                     !.version = IF here THEN m.auth_version ELSE 0,
                                     !.told    = IF here THEN m.role ELSE "none",
                                     !.token   = @ + 1]]

(***************************************************************************)
(* PostgreSQL: the functions of migration 0002, run alone.                 *)
(***************************************************************************)

\* One row for the join of session, organisation and membership.
fn_auth_lookup_session(s) ==
    [revoked |-> ~Live(s),
     stale   |-> session[s].here /\ ~(Active(session[s].principal)
                                       /\ Row(s).auth_version = session[s].version),
     role    |-> IF session[s].here THEN Row(s).role ELSE "none"]

fn_auth_revoke_session(s) ==
    IF Live(s) THEN Leaves([Rows EXCEPT !.session = Revoking({s})], TRUE) ELSE Answers(FALSE)

fn_auth_revoke_all_sessions(s) ==
    LET own == {q \in Sessions : Live(q) /\ session[q].principal = session[s].principal}
    IN  IF Live(s) THEN Leaves([Rows EXCEPT !.session = Revoking(own)], Cardinality(own))
                   ELSE Answers(0)

fn_auth_switch_organisation(s, here) ==
    IF Live(s) /\ (here => Active(session[s].principal))
    THEN Leaves([Rows EXCEPT !.session = Switched(s, here, Row(s))], "switched")
    ELSE Refused

fn_org_list(s) ==
    IF Live(s) /\ IsMember(session[s].principal)
    THEN Answers([role |-> Row(s).role, status |-> Row(s).status])
    ELSE Answers("none")

\* The actor joined with an active membership of the session's organisation.
ActingRole(s) ==
    IF Live(s) /\ session[s].here /\ Active(session[s].principal) THEN Row(s).role ELSE "none"

fn_membership_list(s) == IF ActingRole(s) = "none" THEN Refused ELSE Answers(member)

fn_membership_mutate_with_mutex(s, p, role, status) ==
    IF /\ Usable(s)
       /\ MayMutate(session[s].principal, p, role)
       /\ ~LastOwner(p, role, status)
    THEN Leaves([Rows EXCEPT
                    !.member  = [member EXCEPT ![p] = [role         |-> role,
                                                       status       |-> status,
                                                       auth_version |-> @.auth_version + 1]],
                    !.session = Revoking({q \in Sessions : /\ Live(q) /\ session[q].here
                                                           /\ session[q].principal = p})],
                <<role, status, member[p].auth_version + 1>>)
    ELSE Refused

fn_invitation_create(s, i, p, role) ==
    IF /\ ActingRole(s) \in {"owner", "admin"}
       /\ ActingRole(s) = "admin" => role # "owner"
       /\ ~Active(p)
    THEN Leaves([Rows EXCEPT !.invitation[i] = [email |-> p, role |-> role,
                                                status |-> "pending", expired |-> FALSE]],
                p)
    ELSE Refused

fn_invitation_lookup(i) == IF invitation[i].status = "none" THEN Answers("none")
                                                            ELSE Answers(invitation[i])

fn_invitation_accept_with_mutex(s, i) ==
    LET p == session[s].principal IN
    IF /\ Live(s)
       /\ invitation[i].status = "pending" /\ ~invitation[i].expired
       /\ invitation[i].email = p
       /\ ~IsMember(p)
    THEN Leaves([Rows EXCEPT
                    !.invitation[i].status = "accepted",
                    !.member[p] = [role |-> invitation[i].role, status |-> "active",
                                   auth_version |-> 1]],
                invitation[i].role)
    ELSE Refused

\* TRUE when the guarded UPDATE found a pending row.
fn_invitation_revoke(s, i) ==
    IF ActingRole(s) \notin {"owner", "admin"} THEN Refused
    ELSE IF invitation[i].status = "pending"
         THEN Leaves([Rows EXCEPT !.invitation[i].status = "revoked"], TRUE)
         ELSE Answers(FALSE)

fn_invitation_list(s) ==
    IF ActingRole(s) \in {"owner", "admin"} THEN Answers(invitation) ELSE Refused

(***************************************************************************)
(* SQLite: the same calls as the Python fallbacks make them.               *)
(***************************************************************************)

\* A stale session has no role.
lookup_session(s) ==
    LET here == session[s].here
        mem  == Row(s)
        stale == here /\ (~IsMember(session[s].principal) \/ mem.status # "active"
                           \/ mem.auth_version # session[s].version)
    IN  [revoked |-> session[s].revoked,
         stale   |-> stale,
         role    |-> IF here /\ ~stale THEN mem.role ELSE "none"]

\* The SELECT of the session row that every fallback starts with.
SessionFound(s) == ~session[s].revoked

revoke_session(s) ==
    IF SessionFound(s) THEN Leaves([Rows EXCEPT !.session[s].revoked = TRUE], TRUE)
                       ELSE Answers(FALSE)

revoke_all_sessions(s) ==
    LET all_s == {q \in Sessions : SessionFound(q)
                                   /\ session[q].principal = session[s].principal}
    IN  IF SessionFound(s)
        THEN Leaves([Rows EXCEPT !.session = Revoking(all_s)], Cardinality(all_s))
        ELSE Answers(0)

switch_organisation(s, here) ==
    LET mem == Row(s) IN
    IF ~SessionFound(s) \/ (here /\ (mem.role = "none" \/ mem.status # "active"))
    THEN Refused
    ELSE Leaves([Rows EXCEPT !.session = Switched(s, here, mem)], "switched")

\* Suspended memberships are listed too.
list_organisations(s) ==
    IF SessionFound(s) /\ Row(s).role # "none"
    THEN Answers([role |-> Row(s).role, status |-> Row(s).status])
    ELSE Answers("none")

\* No look at the caller's own membership: the route's permission check is the only one.
list_memberships(s) == IF SessionFound(s) /\ session[s].here THEN Answers(member) ELSE Refused

\* actor_mem: by organisation and principal, status active, owner or administrator.
ActorMem(s) ==
    /\ SessionFound(s) /\ session[s].here
    /\ Row(s).status = "active"
    /\ Row(s).role \in {"owner", "admin"}

\* The loop that sets revoked_at on the target's sessions.
TargetSessions(p) == {q \in Sessions : /\ session[q].principal = p
                                       /\ session[q].here /\ SessionFound(q)}

\* No comparison of membership_auth_version: the middleware's is_stale is the only one.
mutate_membership(s, p, role, status) ==
    IF \/ ~ActorMem(s)
       \/ session[s].principal = p
       \/ member[p].role = "none"
       \/ Row(s).role = "admin" /\ (member[p].role = "owner" \/ role = "owner")
       \/ /\ member[p].role = "owner" /\ member[p].status = "active"
          /\ role # "owner" \/ status # "active"
          /\ Cardinality({q \in Principals : member[q].role = "owner"
                                             /\ member[q].status = "active"}) <= 1
    THEN Refused
    ELSE LET version == member[p].auth_version + 1 IN
         Leaves([Rows EXCEPT !.member[p] = [role |-> role, status |-> status,
                                            auth_version |-> version],
                             !.session   = Revoking(TargetSessions(p))],
                <<role, status, version>>)

create_invitation(s, i, p, role) ==
    IF \/ ~ActorMem(s)
       \/ Row(s).role = "admin" /\ role = "owner"
       \/ member[p].role # "none" /\ member[p].status = "active"
    THEN Refused
    ELSE Leaves([Rows EXCEPT !.invitation[i] = [email |-> p, role |-> role,
                                                status |-> "pending", expired |-> FALSE]],
                p)

lookup_invitation(i) == IF invitation[i].email = NoOne THEN Answers("none")
                                                       ELSE Answers(invitation[i])

\* The flush of a second membership violates uq_memberships_org_principal.
accept_invitation(s, i) ==
    LET p == session[s].principal IN
    IF \/ ~SessionFound(s)
       \/ invitation[i].status # "pending" \/ invitation[i].expired
       \/ invitation[i].email # p
       \/ member[p].role # "none"
    THEN Refused
    ELSE Leaves([Rows EXCEPT !.invitation[i].status = "accepted",
                             !.member[p] = [role |-> invitation[i].role,
                                            status |-> "active", auth_version |-> 1]],
                invitation[i].role)

revoke_invitation(s, i) ==
    CASE ~ActorMem(s) -> Refused
      [] ActorMem(s) /\ invitation[i].status = "pending" ->
             Leaves([Rows EXCEPT !.invitation[i].status = "revoked"], TRUE)
      [] ActorMem(s) /\ invitation[i].status # "pending" -> Answers(FALSE)

list_invitations(s) == IF ActorMem(s) THEN Answers(invitation) ELSE Refused

(***************************************************************************)
(* The web layer.                                                          *)
(***************************************************************************)

\* Fault for sensitivity: the middleware looks at is_revoked only.
FaultAdmitsStale(info) == ~info.revoked

\* AuthenticationMiddleware keeps the session of a request only if the lookup found it
\* neither revoked nor stale.
Admitted(info) == ~info.revoked /\ ~info.stale

\* CAPABILITY_MATRIX: the rows of MEMBERSHIP_LIST, MEMBERSHIP_MUTATE, INVITATION_CREATE,
\* INVITATION_REVOKE and INVITATION_LIST are the same.
require_permission(role) == role \in {"owner", "admin"}

can_manage_target_role(actor_role, target_role) ==
    actor_role = "owner" \/ (actor_role = "admin" /\ target_role # "owner")

\* The routes for listing and revoking: the permission check, then the call.
ManagerRoute(role, outcome) == IF require_permission(role) THEN outcome ELSE Refused

\* The routes that give somebody a role check that role as well.
TargetRoute(role, target_role, outcome) ==
    IF require_permission(role) /\ can_manage_target_role(role, target_role)
    THEN outcome
    ELSE Refused

(***************************************************************************)
(* Property.                                                               *)
(***************************************************************************)

Exists(s) == session[s].principal # NoOne

\* The middleware lets the same sessions in on both databases, under the same role.
SameSessionsAdmitted ==
    \A s \in Sessions : Exists(s) =>
        LET pg == fn_auth_lookup_session(s)
            lite == lookup_session(s)
        IN  /\ Admitted(pg) <=> Admitted(lite)
            /\ Admitted(pg) => pg.role = lite.role

\* Calls any admitted session may make.
SameForAnyone(s) ==
    /\ revoke_session(s) = fn_auth_revoke_session(s)
    /\ revoke_all_sessions(s) = fn_auth_revoke_all_sessions(s)
    /\ list_organisations(s) = fn_org_list(s)
    /\ \A here \in BOOLEAN : switch_organisation(s, here) = fn_auth_switch_organisation(s, here)
    /\ \A i \in Invitations : /\ lookup_invitation(i) = fn_invitation_lookup(i)
                              /\ accept_invitation(s, i) = fn_invitation_accept_with_mutex(s, i)

\* Calls that need a permission in the session's organisation.
SameForManagers(s, role) ==
    LET Same(lite, pg) == ManagerRoute(role, lite) = ManagerRoute(role, pg)
        SameFor(target, lite, pg) ==
            TargetRoute(role, target, lite) = TargetRoute(role, target, pg)
    IN  /\ Same(list_memberships(s), fn_membership_list(s))
        /\ Same(list_invitations(s), fn_invitation_list(s))
        /\ \A i \in Invitations : Same(revoke_invitation(s, i), fn_invitation_revoke(s, i))
        /\ \A p \in Principals, r \in Roles :
              /\ \A status \in Statuses :
                    SameFor(r, mutate_membership(s, p, r, status),
                               fn_membership_mutate_with_mutex(s, p, r, status))
              /\ \A i \in Invitations : invitation[i].status = "none" =>
                    SameFor(r, create_invitation(s, i, p, r), fn_invitation_create(s, i, p, r))

\* What the tests see on SQLite is what PostgreSQL does: with no other call in progress, a
\* request gets the same answer and leaves the same rows on both, although the fallbacks
\* skip checks of the SQL functions.  They may skip them because the middleware and the
\* routes have made those checks on the same rows.
DialectsAgree ==
    (\A c \in Calls : call[c].at = "idle") =>
        /\ SameSessionsAdmitted
        /\ \A s \in Sessions :
              Exists(s) /\ Admitted(lookup_session(s)) =>
                  SameForAnyone(s) /\ SameForManagers(s, lookup_session(s).role)
=============================================================================
