------------------------------- MODULE Access -------------------------------
(***************************************************************************)
(* The control plane of one organisation (migration 0002's SECURITY        *)
(* DEFINER functions, called by auth/service.py and auth/sessions.py):     *)
(* memberships, the sessions that act under them, and invitations.         *)
(*                                                                         *)
(* The functions run at READ COMMITTED, statement by statement.  A         *)
(* function that decides on a row it reads and writes later is split at    *)
(* that point; one whose reads and write commute with every other step in  *)
(* between is a single step.  Membership changes and acceptances hold the  *)
(* organisation row's lock from their checks to their commit.              *)
(*                                                                         *)
(* Principals and the organisation stay active, and sessions do not time   *)
(* out: every check treats an expired session as a revoked one.            *)
(***************************************************************************)
EXTENDS Naturals, FiniteSets

CONSTANTS Principals,    \* users
          Founder,       \* the caller of fn_org_create
          Sessions,      \* user_sessions rows
          Invitations,   \* organisation_invitations rows
          Calls,         \* control-plane calls in progress
          NoOne,         \* no principal
          NoSession, NoInvitation, NoCall,
          MaxVersion,    \* bound: highest auth_version
          MaxToken       \* bound: tokens a session may go through

ASSUME FounderAssumption == Founder \in Principals /\ IsFiniteSet(Principals)

ASSUME NobodyAssumption ==
    NoOne \notin Principals /\ NoSession \notin Sessions /\ NoCall \notin Calls
    /\ NoInvitation \notin Invitations

ASSUME AccessBounds == MaxVersion \in Nat \ {0} /\ MaxToken \in Nat \ {0}

\* operator stands for every role below admin.
Roles == {"owner", "admin", "operator"}

Statuses == {"active", "suspended"}

Membership == [role : Roles \cup {"none"}, status : Statuses,
               auth_version : 0 .. MaxVersion]

NoMembership == [role |-> "none", status |-> "suspended", auth_version |-> 0]

VARIABLES
    member,      \* member[p]: the organisation_memberships row of p
    session,     \* session[s]: the user_sessions row; told is the role its last
                 \*   switch_organisation answered with
    invitation,  \* invitation[i]: the organisation_invitations row
    mutex,       \* the call that holds the organisation row FOR UPDATE
    call         \* call[c]: the locals of a function in progress

vars == <<member, session, invitation, mutex, call>>

NoSessionRow == [principal |-> NoOne, here |-> FALSE, version |-> 0, token |-> 0,
                 revoked |-> FALSE, told |-> "none"]

Idle == [at |-> "idle", session |-> NoSession, target |-> NoOne,
         invitation |-> NoInvitation, role |-> "none", status |-> "active",
         version |-> 0, here |-> FALSE, revoking |-> {}]

SessionRow == [principal : Principals \cup {NoOne},
               here      : BOOLEAN,
               version   : 0 .. MaxVersion,
               token     : 0 .. MaxToken,
               revoked   : BOOLEAN,
               told      : Roles \cup {"none"}]

InvitationRow == [email   : Principals \cup {NoOne},
                  role    : Roles \cup {"none"},
                  status  : {"none", "pending", "accepted", "revoked"},
                  expired : BOOLEAN]

CallRow == [at         : {"idle", "write", "commit", "switch", "accept"},
            session    : Sessions \cup {NoSession},
            target     : Principals \cup {NoOne},
            invitation : Invitations \cup {NoInvitation},
            role       : Roles \cup {"none"},
            status     : Statuses,
            version    : 0 .. MaxVersion,
            here       : BOOLEAN,
            revoking   : SUBSET Sessions]

TypeOK ==
    /\ member \in [Principals -> Membership]
    /\ session \in [Sessions -> SessionRow]
    /\ invitation \in [Invitations -> InvitationRow]
    /\ mutex \in Calls \cup {NoCall}
    /\ call \in [Calls -> CallRow]

\* fn_org_create has given the founder the first membership.
Init ==
    /\ member = [p \in Principals |->
                    IF p = Founder
                    THEN [role |-> "owner", status |-> "active", auth_version |-> 1]
                    ELSE NoMembership]
    /\ session = [s \in Sessions |-> NoSessionRow]
    /\ invitation = [i \in Invitations |->
                        [email |-> NoOne, role |-> "none", status |-> "none",
                         expired |-> FALSE]]
    /\ mutex = NoCall
    /\ call = [c \in Calls |-> Idle]

IsMember(p) == member[p].role # "none"

Active(p) == IsMember(p) /\ member[p].status = "active"

ActiveOwners == {p \in Principals : Active(p) /\ member[p].role = "owner"}

Live(s) == session[s].principal # NoOne /\ ~session[s].revoked

\* fn_auth_lookup_session answers neither revoked nor stale, for this organisation.
Usable(s) ==
    /\ Live(s)
    /\ session[s].here
    /\ Active(session[s].principal)
    /\ member[session[s].principal].auth_version = session[s].version

Return(c) == call' = [call EXCEPT ![c] = Idle]

(***************************************************************************)
(* Sessions.                                                               *)
(***************************************************************************)

\* create_session, always without an organisation (create_session_with_default_
\* organisation switches afterwards).
CreateSession(s, p) ==
    /\ session[s].principal = NoOne
    /\ session' = [session EXCEPT ![s] = [@ EXCEPT !.principal = p, !.token = 1]]
    /\ UNCHANGED <<member, invitation, mutex, call>>

\* fn_auth_switch_organisation up to its UPDATE: the session is live and, for this
\* organisation (here), the membership is active.
SwitchRead(c, s, here) ==
    /\ call[c].at = "idle"
    /\ Live(s)
    /\ session[s].token < MaxToken
    /\ here => Active(session[s].principal)
    /\ LET m == member[session[s].principal] IN
       call' = [call EXCEPT ![c] = [Idle EXCEPT
                   !.at      = "switch",
                   !.session = s,
                   !.here    = here,
                   !.role    = IF here THEN m.role ELSE "none",
                   !.version = IF here THEN m.auth_version ELSE 0]]
    /\ UNCHANGED <<member, session, invitation, mutex>>

\* An uncommitted UPDATE of another call holds the session row.
RowLocked(c, s) == \E d \in Calls \ {c} : s \in call[d].revoking

\* The UPDATE, by primary key: it rotates the token and says nothing of revoked_at.
SwitchWrite(c) ==
    LET s == call[c].session IN
    /\ call[c].at = "switch"
    /\ ~RowLocked(c, s)
    /\ session[s].token < MaxToken
    /\ session' = [session EXCEPT ![s] = [session[s] EXCEPT
                      !.here    = call[c].here,
                      !.version = call[c].version,
                      !.told    = call[c].role,
                      !.token   = session[s].token + 1]]
    /\ Return(c)
    /\ UNCHANGED <<member, invitation, mutex>>

\* fn_auth_revoke_session with the session's current token; an older token matches
\* no row.
RevokeSession(s) ==
    /\ Live(s)
    /\ ~\E c \in Calls : s \in call[c].revoking
    /\ session' = [session EXCEPT ![s].revoked = TRUE]
    /\ UNCHANGED <<member, invitation, mutex, call>>

\* fn_auth_revoke_all_sessions: every live session of the caller's principal.
RevokeAllSessions(s) ==
    /\ Live(s)
    /\ \A q \in Sessions : session[q].principal = session[s].principal =>
                              ~\E c \in Calls : q \in call[c].revoking
    /\ session' = [q \in Sessions |->
                      IF session[q].principal = session[s].principal
                      THEN [session[q] EXCEPT !.revoked = TRUE]
                      ELSE session[q]]
    /\ UNCHANGED <<member, invitation, mutex, call>>

(***************************************************************************)
(* fn_membership_mutate_with_mutex.                                        *)
(***************************************************************************)

\* Fault for sensitivity: the organisation row is read without FOR UPDATE.
FaultMutexIgnored == TRUE

OrgUnlocked == mutex = NoCall

\* 'Cannot demote or remove the last active owner'.  Only another active owner may change
\* an owner, so under the lock this check never refuses on its own.
LastOwner(p, role, status) ==
    /\ p \in ActiveOwners
    /\ role # "owner" \/ status # "active"
    /\ Cardinality(ActiveOwners) <= 1

\* Who may give p the role: owners anybody, administrators only non-owners.
MayMutate(actor, p, role) ==
    /\ Active(actor)
    /\ member[actor].role \in {"owner", "admin"}
    /\ actor # p
    /\ IsMember(p)
    /\ member[actor].role = "admin" => member[p].role # "owner" /\ role # "owner"

\* The lock, then every check under it; a refusal changes nothing.
MutateCheck(c, s, p, role, status) ==
    /\ call[c].at = "idle"
    /\ OrgUnlocked
    /\ Usable(s)
    /\ MayMutate(session[s].principal, p, role)
    /\ ~LastOwner(p, role, status)
    /\ member[p].auth_version < MaxVersion
    /\ mutex' = c
    /\ call' = [call EXCEPT ![c] = [Idle EXCEPT
                   !.at      = "write",
                   !.session = s,
                   !.target  = p,
                   !.role    = role,
                   !.status  = status,
                   !.version = member[p].auth_version + 1]]
    /\ UNCHANGED <<member, session, invitation>>

\* The UPDATE of the sessions: the ones it sees are locked and will be revoked; a
\* session that switches to the organisation later is not among them.
MutateWrite(c) ==
    /\ call[c].at = "write"
    /\ call' = [call EXCEPT ![c] = [@ EXCEPT
                   !.at       = "commit",
                   !.revoking = {s \in Sessions : /\ session[s].principal = call[c].target
                                                  /\ session[s].here
                                                  /\ Live(s)}]]
    /\ UNCHANGED <<member, session, invitation, mutex>>

\* Fault for sensitivity: the sessions are revoked, auth_version stays.
FaultVersionKept(c) ==
    [role |-> call[c].role, status |-> call[c].status,
     auth_version |-> member[call[c].target].auth_version]

MutatedRow(c) ==
    [role |-> call[c].role, status |-> call[c].status, auth_version |-> call[c].version]

MutateCommit(c) ==
    /\ call[c].at = "commit"
    /\ member' = [member EXCEPT ![call[c].target] = MutatedRow(c)]
    /\ session' = [s \in Sessions |-> IF s \in call[c].revoking
                                      THEN [session[s] EXCEPT !.revoked = TRUE]
                                      ELSE session[s]]
    /\ mutex' = NoCall
    /\ Return(c)
    /\ UNCHANGED invitation

(***************************************************************************)
(* Invitations.                                                            *)
(***************************************************************************)

\* fn_invitation_create.
InvitationCreate(s, i, p, role) ==
    LET actor == session[s].principal IN
    /\ invitation[i].status = "none"
    /\ Live(s) /\ session[s].here
    /\ Active(actor)
    /\ member[actor].role \in {"owner", "admin"}
    /\ member[actor].role = "admin" => role # "owner"
    /\ ~Active(p)
    /\ invitation' = [invitation EXCEPT ![i] = [email |-> p, role |-> role,
                                                status |-> "pending", expired |-> FALSE]]
    /\ UNCHANGED <<member, session, mutex, call>>

\* expires_at passes; the row keeps its status.
InvitationExpires(i) ==
    /\ invitation[i].status = "pending"
    /\ ~invitation[i].expired
    /\ invitation' = [invitation EXCEPT ![i].expired = TRUE]
    /\ UNCHANGED <<member, session, mutex, call>>

\* fn_invitation_revoke: UPDATE ... WHERE status = 'pending'.
InvitationRevoke(s, i) ==
    LET actor == session[s].principal IN
    /\ invitation[i].status = "pending"
    /\ Live(s) /\ session[s].here
    /\ Active(actor)
    /\ member[actor].role \in {"owner", "admin"}
    /\ invitation' = [invitation EXCEPT ![i].status = "revoked"]
    /\ UNCHANGED <<member, session, mutex, call>>

\* fn_invitation_accept_with_mutex up to the lock: the invitation is pending, in time,
\* and the caller's.
AcceptRead(c, s, i) ==
    /\ call[c].at = "idle"
    /\ Live(s)
    /\ invitation[i].status = "pending"
    /\ ~invitation[i].expired
    /\ invitation[i].email = session[s].principal
    /\ call' = [call EXCEPT ![c] = [Idle EXCEPT !.at      = "accept",
                                                !.session = s,
                                                !.invitation = i]]
    /\ UNCHANGED <<member, session, invitation, mutex>>

\* Fault for sensitivity: accepted_at and revoked_at may both be set.
FaultNoLifecycleCheck(i) == TRUE

\* Accepting by id an invitation that has been revoked since leaves both timestamps
\* set, which the CHECK constraint refuses.
chk_invitations_lifecycle(i) == invitation[i].status # "revoked"

\* Under the lock: the invitation is marked, then the membership inserted.  The CHECK,
\* or uq_memberships_org_principal, rolls both back.
AcceptCommit(c) ==
    LET i == call[c].invitation
        p == session[call[c].session].principal
    IN  /\ call[c].at = "accept"
        /\ OrgUnlocked
        /\ IF chk_invitations_lifecycle(i) /\ ~IsMember(p)
           THEN /\ invitation' = [invitation EXCEPT ![i].status = "accepted"]
                /\ member' = [member EXCEPT ![p] = [role         |-> invitation[i].role,
                                                    status       |-> "active",
                                                    auth_version |-> 1]]
           ELSE UNCHANGED <<invitation, member>>
        /\ Return(c)
        /\ UNCHANGED <<session, mutex>>

\* The connection is lost: the database rolls the call back and frees its locks.
CallAborts(c) ==
    /\ call[c].at # "idle"
    /\ mutex' = IF mutex = c THEN NoCall ELSE mutex
    /\ Return(c)
    /\ UNCHANGED <<member, session, invitation>>

Next ==
    \/ \E s \in Sessions :
          \/ \E p \in Principals : CreateSession(s, p)
          \/ RevokeSession(s)
          \/ RevokeAllSessions(s)
          \/ \E i \in Invitations :
                \/ InvitationRevoke(s, i)
                \/ \E p \in Principals, role \in Roles : InvitationCreate(s, i, p, role)
    \/ \E i \in Invitations : InvitationExpires(i)
    \/ \E c \in Calls :
          \/ \E s \in Sessions :
                \/ \E here \in BOOLEAN : SwitchRead(c, s, here)
                \/ \E i \in Invitations : AcceptRead(c, s, i)
                \/ \E p \in Principals, role \in Roles, status \in Statuses :
                      MutateCheck(c, s, p, role, status)
          \/ SwitchWrite(c)
          \/ MutateWrite(c)
          \/ MutateCommit(c)
          \/ AcceptCommit(c)
          \/ CallAborts(c)

Spec == Init /\ [][Next]_vars

(***************************************************************************)
(* Properties.                                                             *)
(***************************************************************************)

\* Two owners demoting or suspending each other at the same time never leave the
\* organisation without an active owner.
AlwaysAnOwner == ActiveOwners # {}

\* A membership change commits on what it checked: its actor still has the authority it
\* was granted on, and the target's row is the one it read, so no change is lost.
CheckedStillHolds ==
    \A c \in Calls :
        call[c].at \in {"write", "commit"} =>
            /\ MayMutate(session[call[c].session].principal, call[c].target, call[c].role)
            /\ ~LastOwner(call[c].target, call[c].role, call[c].status)
            /\ call[c].version = member[call[c].target].auth_version + 1

\* A session is usable only under the authority it was given: a role change or a
\* suspension ends the sessions it finds by revocation, and those that were switching
\* to the organisation meanwhile by auth_version.
UsableMeansCurrent ==
    \A s \in Sessions : Usable(s) => session[s].told = member[session[s].principal].role

\* A session that has been logged out, or ended by a membership change, stays ended,
\* also when a switch that read it before rotates its token afterwards.
RevokedStaysRevoked ==
    [][\A s \in Sessions : session[s].revoked => session'[s].revoked]_vars

\* An invitation is used at most once, and a revoked one never: acceptance and
\* revocation may race, and the one that commits first decides.
InvitationOutcomeFinal ==
    [][\A i \in Invitations :
          invitation[i].status \in {"accepted", "revoked"} =>
              invitation'[i].status = invitation[i].status]_vars
=============================================================================
