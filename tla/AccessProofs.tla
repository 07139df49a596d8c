---------------------------- MODULE AccessProofs ----------------------------
(***************************************************************************)
(* Proofs about the control plane, for any set of principals, sessions,    *)
(* invitations and concurrent calls.                                       *)
(*                                                                         *)
(* AlwaysAnOwner is not inductive: a membership change in progress removes *)
(* an owner later on.  What makes it so is CheckedStillHolds, and what     *)
(* keeps that is Locals: a call past its checks is the one that holds the  *)
(* organisation's lock.  UsableMeansCurrent needs Grants: a session, or a  *)
(* switch in progress, carries no version from the future, and the role it *)
(* was told is the role of the version it carries.                         *)
(***************************************************************************)
EXTENDS Dialects, TLAPS, FiniteSetTheorems

CallLocals(c) ==
    /\ call[c].at \in {"write", "commit"} <=> mutex = c
    /\ call[c].at # "idle" =>
          /\ call[c].session \in Sessions
          /\ session[call[c].session].principal \in Principals
    /\ call[c].at \in {"write", "commit"} =>
          call[c].target \in Principals /\ call[c].role \in Roles
    /\ call[c].at = "accept" =>
          /\ call[c].invitation \in Invitations
          /\ invitation[call[c].invitation].role \in Roles

Locals == \A c \in Calls : CallLocals(c)

Invited == \A i \in Invitations : invitation[i].status = "pending" => invitation[i].role \in Roles

\* What a grant of a version and a role to p may say.
Grant(p, version, role) ==
    /\ IsMember(p)
    /\ version <= member[p].auth_version
    /\ version = member[p].auth_version => role = member[p].role

SessionGrant(s) ==
    session[s].here => /\ session[s].principal \in Principals
                       /\ Grant(session[s].principal, session[s].version, session[s].told)

CallGrant(c) ==
    call[c].at = "switch" /\ call[c].here =>
        Grant(session[call[c].session].principal, call[c].version, call[c].role)

Grants == (\A s \in Sessions : SessionGrant(s)) /\ (\A c \in Calls : CallGrant(c))

Inv == TypeOK /\ Locals /\ Invited /\ CheckedStillHolds /\ Grants /\ AlwaysAnOwner

\* The initial state satisfies the invariant.
LEMMA InitInv == Init => Inv
<1> USE FounderAssumption, NobodyAssumption, AccessBounds
<1> SUFFICES ASSUME Init PROVE Inv
  OBVIOUS
<1>1. TypeOK
  BY DEF Init, TypeOK, Membership, NoMembership, NoSessionRow, Idle, Roles, Statuses,
         SessionRow, InvitationRow, CallRow
<1>2. Locals /\ Invited /\ CheckedStillHolds /\ Grants
  BY DEF Init, Locals, CallLocals, Invited, CheckedStillHolds, Grants, SessionGrant,
         CallGrant, Idle, NoSessionRow
<1>3. AlwaysAnOwner
  <2>1. Founder \in ActiveOwners
    BY DEF Init, ActiveOwners, Active, IsMember
  <2> QED BY <2>1 DEF AlwaysAnOwner
<1> QED BY <1>1, <1>2, <1>3 DEF Inv

\* An idle call has a call's type.
LEMMA IdleType == Idle \in CallRow
  BY AccessBounds DEF Idle, CallRow, Roles, Statuses

\* Rows stay rows under the updates of the actions: a session is created.
LEMMA CreatedRow ==
    ASSUME NEW r \in SessionRow, NEW p \in Principals
    PROVE  [r EXCEPT !.principal = p, !.token = 1] \in SessionRow
<1>1. 1 \in 0 .. MaxToken
  BY AccessBounds
<1> QED BY <1>1 DEF SessionRow

\* Revocation.
LEMMA RevokedRow ==
    ASSUME NEW r \in SessionRow
    PROVE  [r EXCEPT !.revoked = TRUE] \in SessionRow
  BY DEF SessionRow

\* The UPDATE of a switch.
LEMMA SwitchedRow ==
    ASSUME NEW r \in SessionRow, NEW here \in BOOLEAN, NEW version \in 0 .. MaxVersion,
           NEW role \in Roles \cup {"none"}, NEW token \in 0 .. MaxToken
    PROVE  [r EXCEPT !.here = here, !.version = version, !.told = role, !.token = token]
               \in SessionRow
  BY DEF SessionRow

\* The locals of a switch.
LEMMA SwitchCall ==
    ASSUME NEW s \in Sessions, NEW here \in BOOLEAN, NEW version \in 0 .. MaxVersion,
           NEW role \in Roles \cup {"none"}
    PROVE  [Idle EXCEPT !.at = "switch", !.session = s, !.here = here, !.role = role,
                        !.version = version] \in CallRow
  BY IdleType DEF CallRow

\* Every step preserves the types.
LEMMA NextTypes == TypeOK /\ Locals /\ Invited /\ Next => TypeOK'
<1> USE FounderAssumption, NobodyAssumption, AccessBounds
<1> SUFFICES ASSUME TypeOK, Locals, Invited, Next PROVE TypeOK'
  OBVIOUS
<1> USE DEF TypeOK
<1>1. ASSUME NEW s \in Sessions, NEW p \in Principals, CreateSession(s, p)
      PROVE  TypeOK'
  <2>1. [session[s] EXCEPT !.principal = p, !.token = 1] \in SessionRow
    BY CreatedRow
  <2>2. session' = [session EXCEPT ![s] = [session[s] EXCEPT !.principal = p, !.token = 1]]
    BY <1>1 DEF CreateSession
  <2> QED BY <1>1, <2>1, <2>2 DEF CreateSession
<1>2. ASSUME NEW s \in Sessions, RevokeSession(s) \/ RevokeAllSessions(s)
      PROVE  TypeOK'
  <2>1. \A q \in Sessions : [session[q] EXCEPT !.revoked = TRUE] \in SessionRow
    BY RevokedRow
  <2>2. CASE RevokeSession(s)
    <3>1. session' = [session EXCEPT ![s] = [session[s] EXCEPT !.revoked = TRUE]]
      BY <2>2 DEF RevokeSession
    <3> QED BY <2>1, <2>2, <3>1 DEF RevokeSession
  <2>3. CASE RevokeAllSessions(s)
    BY <2>1, <2>3 DEF RevokeAllSessions
  <2> QED BY <1>2, <2>2, <2>3
<1>3. ASSUME NEW s \in Sessions, NEW i \in Invitations, NEW p \in Principals,
             NEW role \in Roles, InvitationCreate(s, i, p, role)
      PROVE  TypeOK'
  <2>1. [email |-> p, role |-> role, status |-> "pending", expired |-> FALSE]
            \in InvitationRow
    BY DEF InvitationRow
  <2> QED BY <1>3, <2>1 DEF InvitationCreate
<1>4. ASSUME NEW s \in Sessions, NEW i \in Invitations, InvitationRevoke(s, i)
      PROVE  TypeOK'
  <2>1. [invitation[i] EXCEPT !.status = "revoked"] \in InvitationRow
    BY DEF InvitationRow
  <2>2. invitation' = [invitation EXCEPT ![i] = [invitation[i] EXCEPT !.status = "revoked"]]
    BY <1>4 DEF InvitationRevoke
  <2> QED BY <1>4, <2>1, <2>2 DEF InvitationRevoke
<1>5. ASSUME NEW i \in Invitations, InvitationExpires(i)
      PROVE  TypeOK'
  <2>1. [invitation[i] EXCEPT !.expired = TRUE] \in InvitationRow
    BY ZenonT(60) DEF InvitationRow
  <2>2. invitation' = [invitation EXCEPT ![i] = [invitation[i] EXCEPT !.expired = TRUE]]
    BY <1>5 DEF InvitationExpires
  <2> QED BY <1>5, <2>1, <2>2 DEF InvitationExpires
<1>6. ASSUME NEW c \in Calls, NEW s \in Sessions, NEW here \in BOOLEAN,
             SwitchRead(c, s, here)
      PROVE  TypeOK'
  <2> DEFINE m == member[session[s].principal]
             role == IF here THEN m.role ELSE "none"
             version == IF here THEN m.auth_version ELSE 0
             row == [Idle EXCEPT !.at = "switch", !.session = s, !.here = here,
                                 !.role = role, !.version = version]
  <2>1. session[s].principal \in Principals
    BY <1>6 DEF SwitchRead, Live, SessionRow
  <2>2. m.role \in Roles \cup {"none"} /\ m.auth_version \in 0 .. MaxVersion
    BY <2>1 DEF Membership
  <2>3. row \in CallRow
    <3>1. role \in Roles \cup {"none"} /\ version \in 0 .. MaxVersion
      BY <2>2
    <3> HIDE DEF role, version
    <3> QED BY <3>1, SwitchCall
  <2>4. call' = [call EXCEPT ![c] = row]
    BY <1>6 DEF SwitchRead
  <2> HIDE DEF row
  <2> QED BY <1>6, <2>3, <2>4 DEF SwitchRead
<1>7. ASSUME NEW c \in Calls, NEW s \in Sessions, NEW i \in Invitations,
             AcceptRead(c, s, i)
      PROVE  TypeOK'
  <2>1. [Idle EXCEPT !.at = "accept", !.session = s, !.invitation = i] \in CallRow
    BY IdleType DEF CallRow
  <2> QED BY <1>7, <2>1 DEF AcceptRead
<1>8. ASSUME NEW c \in Calls, NEW s \in Sessions, NEW p \in Principals,
             NEW role \in Roles, NEW status \in Statuses,
             MutateCheck(c, s, p, role, status)
      PROVE  TypeOK'
  <2>1. member[p].auth_version + 1 \in 0 .. MaxVersion
    BY <1>8 DEF MutateCheck, Membership
  <2>2. [Idle EXCEPT !.at = "write", !.session = s, !.target = p, !.role = role,
                     !.status = status, !.version = member[p].auth_version + 1] \in CallRow
    BY <2>1, IdleType DEF CallRow
  <2> QED BY <1>8, <2>2 DEF MutateCheck
<1>9. ASSUME NEW c \in Calls, SwitchWrite(c)
      PROVE  TypeOK'
  <2> DEFINE s == call[c].session
             row == [session[s] EXCEPT !.here = call[c].here, !.version = call[c].version,
                                       !.told = call[c].role,
                                       !.token = session[s].token + 1]
  <2>1. s \in Sessions
    BY <1>9 DEF SwitchWrite, Locals, CallLocals
  <2>2. session[s].token + 1 \in 0 .. MaxToken
    BY <1>9, <2>1 DEF SwitchWrite, SessionRow
  <2>3. /\ call[c].here \in BOOLEAN
        /\ call[c].version \in 0 .. MaxVersion
        /\ call[c].role \in Roles \cup {"none"}
    BY DEF CallRow
  <2>4. row \in SessionRow
    BY <2>1, <2>2, <2>3, SwitchedRow
  <2>5. session' = [session EXCEPT ![s] = row]
    BY <1>9 DEF SwitchWrite
  <2> HIDE DEF row
  <2> QED BY <1>9, <2>1, <2>4, <2>5, IdleType DEF SwitchWrite, Return
<1>10. ASSUME NEW c \in Calls, MutateWrite(c)
       PROVE  TypeOK'
  <2> DEFINE R == {s \in Sessions : /\ session[s].principal = call[c].target
                                    /\ session[s].here
                                    /\ Live(s)}
  <2>1. [call[c] EXCEPT !.at = "commit", !.revoking = R] \in CallRow
    BY ZenonT(60) DEF CallRow
  <2>2. call' = [call EXCEPT ![c] = [call[c] EXCEPT !.at = "commit", !.revoking = R]]
    BY <1>10 DEF MutateWrite
  <2> HIDE DEF R
  <2> QED BY <1>10, <2>1, <2>2 DEF MutateWrite
<1>11. ASSUME NEW c \in Calls, MutateCommit(c)
       PROVE  TypeOK'
  <2>1. MutatedRow(c) \in Membership
    BY <1>11 DEF MutatedRow, Membership, CallRow
  <2>2. \A s \in Sessions : [session[s] EXCEPT !.revoked = TRUE] \in SessionRow
    BY RevokedRow
  <2> QED BY <1>11, <2>1, <2>2, IdleType DEF MutateCommit, Return
<1>12. ASSUME NEW c \in Calls, AcceptCommit(c)
       PROVE  TypeOK'
  <2> DEFINE i == call[c].invitation
             p == session[call[c].session].principal
  <2>1. i \in Invitations /\ invitation[i].role \in Roles
    BY <1>12 DEF AcceptCommit, Locals, CallLocals
  <2>2. [invitation[i] EXCEPT !.status = "accepted"] \in InvitationRow
    BY <2>1 DEF InvitationRow
  <2>3. [role |-> invitation[i].role, status |-> "active", auth_version |-> 1] \in Membership
    BY <2>1 DEF Membership, Statuses
  <2>4. invitation' \in [Invitations -> InvitationRow]
    BY <1>12, <2>1, <2>2 DEF AcceptCommit
  <2>5. member' \in [Principals -> Membership]
    BY <1>12, <2>1, <2>3 DEF AcceptCommit
  <2> QED BY <1>12, <2>4, <2>5, IdleType DEF AcceptCommit, Return
<1>13. ASSUME NEW c \in Calls, CallAborts(c)
       PROVE  TypeOK'
  BY <1>13, IdleType DEF CallAborts, Return
<1> QED
  BY <1>1, <1>2, <1>3, <1>4, <1>5, <1>6, <1>7, <1>8, <1>9, <1>10, <1>11, <1>12, <1>13
     DEF Next

(***************************************************************************)
(* What a step does to the parts of the state the other conjuncts read.    *)
(***************************************************************************)

\* What each action leaves alone.
LEMMA Frames ==
    /\ \A s \in Sessions, p \in Principals :
          CreateSession(s, p) => UNCHANGED <<member, invitation, mutex, call>>
    /\ \A s \in Sessions :
          RevokeSession(s) \/ RevokeAllSessions(s) =>
              UNCHANGED <<member, invitation, mutex, call>>
    /\ \A s \in Sessions, i \in Invitations :
          InvitationRevoke(s, i) => UNCHANGED <<member, session, mutex, call>>
    /\ \A s \in Sessions, i \in Invitations, p \in Principals, role \in Roles :
          InvitationCreate(s, i, p, role) => UNCHANGED <<member, session, mutex, call>>
    /\ \A i \in Invitations :
          InvitationExpires(i) => UNCHANGED <<member, session, mutex, call>>
    /\ \A c \in Calls, s \in Sessions, here \in BOOLEAN :
          SwitchRead(c, s, here) => UNCHANGED <<member, session, invitation, mutex>>
    /\ \A c \in Calls, s \in Sessions, i \in Invitations :
          AcceptRead(c, s, i) => UNCHANGED <<member, session, invitation, mutex>>
    /\ \A c \in Calls, s \in Sessions, p \in Principals, role \in Roles,
          status \in Statuses :
          MutateCheck(c, s, p, role, status) => UNCHANGED <<member, session, invitation>>
    /\ \A c \in Calls : SwitchWrite(c) => UNCHANGED <<member, invitation, mutex>>
    /\ \A c \in Calls : MutateWrite(c) => UNCHANGED <<member, session, invitation, mutex>>
    /\ \A c \in Calls : MutateCommit(c) => UNCHANGED invitation
    /\ \A c \in Calls : AcceptCommit(c) => UNCHANGED <<session, mutex>>
    /\ \A c \in Calls : CallAborts(c) => UNCHANGED <<member, session, invitation>>
<1>1. \A s \in Sessions, p \in Principals :
          CreateSession(s, p) => UNCHANGED <<member, invitation, mutex, call>>
  BY DEF CreateSession
<1>2. \A s \in Sessions :
          RevokeSession(s) \/ RevokeAllSessions(s) =>
              UNCHANGED <<member, invitation, mutex, call>>
  BY DEF RevokeSession, RevokeAllSessions
<1>3. /\ \A s \in Sessions, i \in Invitations :
          InvitationRevoke(s, i) => UNCHANGED <<member, session, mutex, call>>
      /\ \A s \in Sessions, i \in Invitations, p \in Principals, role \in Roles :
          InvitationCreate(s, i, p, role) => UNCHANGED <<member, session, mutex, call>>
      /\ \A i \in Invitations :
          InvitationExpires(i) => UNCHANGED <<member, session, mutex, call>>
  BY DEF InvitationRevoke, InvitationCreate, InvitationExpires
<1>4. /\ \A c \in Calls, s \in Sessions, here \in BOOLEAN :
          SwitchRead(c, s, here) => UNCHANGED <<member, session, invitation, mutex>>
      /\ \A c \in Calls : SwitchWrite(c) => UNCHANGED <<member, invitation, mutex>>
  BY DEF SwitchRead, SwitchWrite
<1>5. /\ \A c \in Calls, s \in Sessions, i \in Invitations :
          AcceptRead(c, s, i) => UNCHANGED <<member, session, invitation, mutex>>
      /\ \A c \in Calls : AcceptCommit(c) => UNCHANGED <<session, mutex>>
  BY DEF AcceptRead, AcceptCommit
<1>6. /\ \A c \in Calls, s \in Sessions, p \in Principals, role \in Roles,
          status \in Statuses :
          MutateCheck(c, s, p, role, status) => UNCHANGED <<member, session, invitation>>
      /\ \A c \in Calls : MutateWrite(c) => UNCHANGED <<member, session, invitation, mutex>>
      /\ \A c \in Calls : MutateCommit(c) => UNCHANGED invitation
  BY ZenonT(60) DEF MutateCheck, MutateWrite, MutateCommit
<1>7. \A c \in Calls : CallAborts(c) => UNCHANGED <<member, session, invitation>>
  BY DEF CallAborts
<1> QED BY <1>1, <1>2, <1>3, <1>4, <1>5, <1>6, <1>7

\* Sessions keep their principal, once they have one.
LEMMA PrincipalKept ==
    ASSUME TypeOK, Locals, Next, NEW s \in Sessions, session[s].principal \in Principals
    PROVE  session'[s].principal = session[s].principal
<1> USE NobodyAssumption DEF TypeOK
<1>1. CASE UNCHANGED session
  BY <1>1
<1>2. ASSUME NEW q \in Sessions, NEW p \in Principals, CreateSession(q, p)
      PROVE  session'[s].principal = session[s].principal
  BY <1>2 DEF CreateSession
<1>3. ASSUME NEW q \in Sessions, RevokeSession(q) \/ RevokeAllSessions(q)
      PROVE  session'[s].principal = session[s].principal
  BY <1>3 DEF RevokeSession, RevokeAllSessions, SessionRow
<1>4. ASSUME NEW c \in Calls, SwitchWrite(c)
      PROVE  session'[s].principal = session[s].principal
  BY <1>4 DEF SwitchWrite, SessionRow
<1>5. ASSUME NEW c \in Calls, MutateCommit(c)
      PROVE  session'[s].principal = session[s].principal
  BY <1>5 DEF MutateCommit, SessionRow
<1> QED
  BY <1>1, <1>2, <1>3, <1>4, <1>5, Frames DEF Next

\* Only a membership change and an acceptance write memberships, under the lock.
LEMMA MembersWritten ==
    ASSUME Next, member' # member
    PROVE  \E c \in Calls : MutateCommit(c) \/ AcceptCommit(c)
  BY Frames DEF Next

\* Roles of invitations stay roles.
LEMMA NextInvited == TypeOK /\ Locals /\ Invited /\ Next =>
    /\ Invited'
    /\ \A i \in Invitations : invitation[i].role \in Roles => invitation'[i].role \in Roles
<1> SUFFICES ASSUME TypeOK, Locals, Invited, Next
             PROVE  /\ Invited'
                    /\ \A i \in Invitations :
                          invitation[i].role \in Roles => invitation'[i].role \in Roles
  OBVIOUS
<1> USE DEF TypeOK, Invited, InvitationRow
<1>1. CASE UNCHANGED invitation
  BY <1>1
<1>2. ASSUME NEW s \in Sessions, NEW i \in Invitations, NEW p \in Principals,
             NEW role \in Roles, InvitationCreate(s, i, p, role)
      PROVE  /\ Invited'
             /\ \A j \in Invitations :
                   invitation[j].role \in Roles => invitation'[j].role \in Roles
  BY <1>2 DEF InvitationCreate
<1>3. ASSUME NEW s \in Sessions, NEW i \in Invitations,
             InvitationRevoke(s, i) \/ InvitationExpires(i)
      PROVE  /\ Invited'
             /\ \A j \in Invitations :
                   invitation[j].role \in Roles => invitation'[j].role \in Roles
  BY <1>3 DEF InvitationRevoke, InvitationExpires
<1>4. ASSUME NEW i \in Invitations, InvitationExpires(i)
      PROVE  /\ Invited'
             /\ \A j \in Invitations :
                   invitation[j].role \in Roles => invitation'[j].role \in Roles
  BY <1>4 DEF InvitationExpires
<1>5. ASSUME NEW c \in Calls, AcceptCommit(c)
      PROVE  /\ Invited'
             /\ \A j \in Invitations :
                   invitation[j].role \in Roles => invitation'[j].role \in Roles
  BY <1>5 DEF AcceptCommit
<1> QED
  BY <1>1, <1>2, <1>3, <1>4, <1>5, Frames DEF Next

\* The calls a step does not move keep their locals valid.
LEMMA OtherCalls ==
    ASSUME TypeOK, Locals, Invited, Next, NEW d \in Calls, call'[d] = call[d],
           mutex' = d <=> mutex = d
    PROVE  CallLocals(d)'
<1>1. CallLocals(d)
  BY DEF Locals
<1>2. call[d].at # "idle" =>
          session'[call[d].session].principal = session[call[d].session].principal
  BY <1>1, PrincipalKept DEF CallLocals
<1>3. call[d].at = "accept" => invitation'[call[d].invitation].role \in Roles
  BY <1>1, NextInvited DEF CallLocals
<1> QED BY <1>1, <1>2, <1>3 DEF CallLocals

\* A call past its checks is the one that holds the organisation row.
LEMMA NextLocals == TypeOK /\ Locals /\ Invited /\ Next => Locals'
<1> SUFFICES ASSUME TypeOK, Locals, Invited, Next, NEW d \in Calls
             PROVE  CallLocals(d)'
  BY DEF Locals
<1> USE NobodyAssumption DEF TypeOK
<1>1. CASE UNCHANGED <<call, mutex>>
  BY <1>1, OtherCalls
<1>2. ASSUME NEW c \in Calls, NEW s \in Sessions, NEW here \in BOOLEAN,
             SwitchRead(c, s, here)
      PROVE  CallLocals(d)'
  <2>1. CASE d = c
    <3>1. call'[c].at = "switch" /\ call'[c].session = s /\ call[c].at = "idle"
      BY <1>2 DEF SwitchRead, Idle
    <3>2. session'[s].principal \in Principals
      BY <1>2 DEF SwitchRead, Live, SessionRow
    <3>3. mutex' # c
      BY <1>2, <3>1 DEF SwitchRead, Locals, CallLocals
    <3> QED BY <2>1, <3>1, <3>2, <3>3 DEF CallLocals
  <2>2. CASE d # c
    BY <1>2, <2>2, OtherCalls DEF SwitchRead
  <2> QED BY <2>1, <2>2
<1>3. ASSUME NEW c \in Calls, NEW s \in Sessions, NEW i \in Invitations,
             AcceptRead(c, s, i)
      PROVE  CallLocals(d)'
  <2>1. CASE d = c
    <3>1. /\ call'[c].at = "accept" /\ call'[c].session = s
          /\ call'[c].invitation = i /\ call[c].at = "idle"
      BY <1>3 DEF AcceptRead, Idle
    <3>2. session'[s].principal \in Principals
      BY <1>3 DEF AcceptRead, Live, SessionRow
    <3>3. invitation'[i].role \in Roles
      BY <1>3 DEF AcceptRead, Invited
    <3>4. mutex' # c
      BY <1>3, <3>1 DEF AcceptRead, Locals, CallLocals
    <3> QED BY <2>1, <3>1, <3>2, <3>3, <3>4 DEF CallLocals
  <2>2. CASE d # c
    BY <1>3, <2>2, OtherCalls DEF AcceptRead
  <2> QED BY <2>1, <2>2
<1>4. ASSUME NEW c \in Calls, NEW s \in Sessions, NEW p \in Principals,
             NEW role \in Roles, NEW status \in Statuses,
             MutateCheck(c, s, p, role, status)
      PROVE  CallLocals(d)'
  <2>1. CASE d = c
    <3>1. /\ call'[c].at = "write" /\ call'[c].session = s
          /\ call'[c].target = p /\ call'[c].role = role
      BY <1>4 DEF MutateCheck, Idle
    <3>2. session'[s].principal \in Principals
      BY <1>4 DEF MutateCheck, Usable, Live, SessionRow
    <3> QED BY <1>4, <2>1, <3>1, <3>2 DEF CallLocals, MutateCheck
  <2>2. CASE d # c
    BY <1>4, <2>2, OtherCalls DEF MutateCheck, OrgUnlocked
  <2> QED BY <2>1, <2>2
<1>5. ASSUME NEW c \in Calls, MutateWrite(c)
      PROVE  CallLocals(d)'
  <2>1. CASE d = c
    <3>1. /\ call'[c].at = "commit" /\ call'[c].session = call[c].session
          /\ call'[c].target = call[c].target /\ call'[c].role = call[c].role
          /\ call[c].at = "write"
      BY <1>5 DEF MutateWrite, CallRow
    <3>2. CallLocals(c)
      BY DEF Locals
    <3> QED BY <1>5, <2>1, <3>1, <3>2, Frames DEF CallLocals
  <2>2. CASE d # c
    BY <1>5, <2>2, OtherCalls DEF MutateWrite
  <2> QED BY <2>1, <2>2
<1>6. ASSUME NEW c \in Calls,
             SwitchWrite(c) \/ MutateCommit(c) \/ AcceptCommit(c) \/ CallAborts(c)
      PROVE  CallLocals(d)'
  <2>1. /\ call' = [call EXCEPT ![c] = Idle]
        /\ \A e \in Calls \ {c} : mutex' = e <=> mutex = e
        /\ mutex' # c
    <3>1. CallLocals(c)
      BY DEF Locals
    <3>2. CASE SwitchWrite(c) \/ AcceptCommit(c)
      BY <3>1, <3>2 DEF SwitchWrite, AcceptCommit, Return, CallLocals
    <3>3. CASE MutateCommit(c)
      BY <3>1, <3>3 DEF MutateCommit, Return, CallLocals
    <3>4. CASE CallAborts(c)
      BY <3>1, <3>4 DEF CallAborts, Return, CallLocals
    <3> QED BY <1>6, <3>2, <3>3, <3>4
  <2>2. CASE d = c
    BY <2>1, <2>2 DEF CallLocals, Idle
  <2>3. CASE d # c
    BY <2>1, <2>3, OtherCalls
  <2> QED BY <2>2, <2>3
<1> QED
  BY <1>1, <1>2, <1>3, <1>4, <1>5, <1>6, Frames DEF Next

(***************************************************************************)
(* Membership changes.                                                     *)
(***************************************************************************)

\* While the organisation row is free, no membership change is past its checks; while c
\* holds it, only c is.
LEMMA OneChange ==
    ASSUME Locals, NEW c \in Calls, call[c].at \in {"write", "commit"}
    PROVE  mutex = c
  BY DEF Locals, CallLocals

\* Which steps move call d.
LEMMA CallMoved ==
    ASSUME TypeOK, Next, NEW d \in Calls, call'[d] # call[d], call'[d].at # "idle"
    PROVE  \/ MutateWrite(d)
           \/ call[d].at = "idle" /\ call'[d].at \in {"switch", "accept"}
           \/ \E s \in Sessions, p \in Principals, role \in Roles, status \in Statuses :
                 MutateCheck(d, s, p, role, status)
<1> USE DEF TypeOK
<1>1. \A c \in Calls : ~Return(c)
  BY DEF Return, Idle
<1>2. \A c \in Calls : /\ ~SwitchWrite(c) /\ ~MutateCommit(c) /\ ~AcceptCommit(c)
                        /\ ~CallAborts(c)
  BY <1>1 DEF SwitchWrite, MutateCommit, AcceptCommit, CallAborts
<1>3. \A c \in Calls : MutateWrite(c) => c = d
  BY DEF MutateWrite
<1>4. ASSUME NEW c \in Calls, NEW s \in Sessions, NEW here \in BOOLEAN,
             SwitchRead(c, s, here)
      PROVE  call[d].at = "idle" /\ call'[d].at \in {"switch", "accept"}
  BY <1>4 DEF SwitchRead, Idle
<1>5. ASSUME NEW c \in Calls, NEW s \in Sessions, NEW i \in Invitations,
             AcceptRead(c, s, i)
      PROVE  call[d].at = "idle" /\ call'[d].at \in {"switch", "accept"}
  BY <1>5 DEF AcceptRead, Idle
<1>6. ASSUME NEW c \in Calls, NEW s \in Sessions, NEW p \in Principals,
             NEW role \in Roles, NEW status \in Statuses,
             MutateCheck(c, s, p, role, status)
      PROVE  c = d
  BY <1>6 DEF MutateCheck
<1> QED BY <1>2, <1>3, <1>4, <1>5, <1>6, Frames DEF Next

\* What a membership change checked is not disturbed before it commits.
LEMMA NextChecked == TypeOK /\ Locals /\ Invited /\ CheckedStillHolds /\ Next
                         => CheckedStillHolds'
<1> SUFFICES ASSUME TypeOK, Locals, Invited, CheckedStillHolds, Next, NEW d \in Calls,
                    call'[d].at \in {"write", "commit"}
             PROVE  /\ MayMutate(session[call[d].session].principal, call[d].target,
                                 call[d].role)'
                    /\ ~LastOwner(call[d].target, call[d].role, call[d].status)'
                    /\ call'[d].version = member'[call'[d].target].auth_version + 1
  BY DEF CheckedStillHolds
<1> USE NobodyAssumption
<1>1. CallLocals(d)' /\ mutex' = d
  BY NextLocals DEF Locals, CallLocals
<1>2. CASE call[d].at \in {"write", "commit"}
  <2>1. mutex = d
    BY <1>2, OneChange
  <2>2. member' = member
    <3>1. ASSUME NEW c \in Calls, MutateCommit(c) PROVE FALSE
      BY <3>1, <1>1 DEF MutateCommit
    <3>2. ASSUME NEW c \in Calls, AcceptCommit(c) PROVE FALSE
      BY <3>2, <2>1 DEF AcceptCommit, OrgUnlocked
    <3> QED BY <3>1, <3>2, MembersWritten
  <2>3. /\ call'[d].session = call[d].session /\ call'[d].target = call[d].target
        /\ call'[d].role = call[d].role /\ call'[d].status = call[d].status
        /\ call'[d].version = call[d].version
    <3>1. CASE call'[d] = call[d]
      BY <3>1
    <3>2. CASE MutateWrite(d)
      BY <3>2 DEF MutateWrite, TypeOK, CallRow
    <3>3. ASSUME NEW s \in Sessions, NEW p \in Principals, NEW role \in Roles,
                 NEW status \in Statuses, MutateCheck(d, s, p, role, status)
          PROVE  FALSE
      BY <1>2, <3>3 DEF MutateCheck
    <3> QED BY <1>2, <3>1, <3>2, <3>3, CallMoved
  <2>4. CallLocals(d)
    BY DEF Locals
  <2>5. session'[call[d].session].principal = session[call[d].session].principal
    BY <1>2, <2>4, PrincipalKept DEF CallLocals
  <2>6. /\ MayMutate(session[call[d].session].principal, call[d].target, call[d].role)
        /\ ~LastOwner(call[d].target, call[d].role, call[d].status)
        /\ call[d].version = member[call[d].target].auth_version + 1
    BY <1>2 DEF CheckedStillHolds
  <2> QED
    BY <2>2, <2>3, <2>5, <2>6 DEF MayMutate, LastOwner, ActiveOwners, Active, IsMember
<1>3. CASE call[d].at \notin {"write", "commit"}
  <2>1. PICK s \in Sessions, p \in Principals, role \in Roles, status \in Statuses :
            MutateCheck(d, s, p, role, status)
    <3>1. call'[d] # call[d]
      BY <1>3
    <3>2. ~MutateWrite(d)
      BY <1>3 DEF MutateWrite
    <3> QED BY <3>1, <3>2, CallMoved
  <2>2. /\ call'[d].session = s /\ call'[d].target = p /\ call'[d].role = role
        /\ call'[d].status = status /\ call'[d].version = member[p].auth_version + 1
    BY <2>1 DEF MutateCheck, Idle, TypeOK
  <2>3. member' = member /\ session' = session
    BY <2>1 DEF MutateCheck
  <2> QED
    BY <2>1, <2>2, <2>3 DEF MutateCheck, MayMutate, LastOwner, ActiveOwners, Active, IsMember
<1> QED BY <1>2, <1>3

\* If p is not the last owner, there is another one.
LEMMA AnotherOwner ==
    ASSUME NEW p \in ActiveOwners, ~(Cardinality(ActiveOwners) <= 1)
    PROVE  \E q \in ActiveOwners : q # p
<1>1. IsFiniteSet(ActiveOwners)
  BY FounderAssumption, FS_Subset DEF ActiveOwners
<1>2. Cardinality(ActiveOwners) \in Nat
  BY <1>1, FS_CardinalityType
<1>3. /\ IsFiniteSet(ActiveOwners \ {p})
      /\ Cardinality(ActiveOwners \ {p}) = Cardinality(ActiveOwners) - 1
  BY <1>1, FS_RemoveElement
<1>4. ActiveOwners \ {p} # {}
  BY <1>2, <1>3, FS_EmptySet
<1> QED BY <1>4

\* No step leaves the organisation without an active owner.
LEMMA NextOwner == TypeOK /\ Locals /\ CheckedStillHolds /\ AlwaysAnOwner /\ Next
                       => AlwaysAnOwner'
<1> SUFFICES ASSUME TypeOK, Locals, CheckedStillHolds, AlwaysAnOwner, Next
             PROVE  AlwaysAnOwner'
  OBVIOUS
<1> USE DEF TypeOK
<1>1. CASE member' = member
  BY <1>1 DEF AlwaysAnOwner, ActiveOwners, Active, IsMember
<1>2. ASSUME NEW c \in Calls, MutateCommit(c)
      PROVE  AlwaysAnOwner'
  <2> DEFINE p == call[c].target
             role == call[c].role
             status == call[c].status
  <2>1. p \in Principals /\ ~LastOwner(p, role, status)
    BY <1>2 DEF MutateCommit, Locals, CallLocals, CheckedStillHolds
  <2>2. /\ \A q \in Principals \ {p} : member'[q] = member[q]
        /\ member'[p].role = role /\ member'[p].status = status
    BY <1>2, <2>1 DEF MutateCommit, MutatedRow
  <2>3. CASE role = "owner" /\ status = "active"
    <3>1. p \in ActiveOwners'
      BY <2>1, <2>2, <2>3 DEF ActiveOwners, Active, IsMember
    <3> QED BY <3>1 DEF AlwaysAnOwner
  <2>4. CASE \E q \in ActiveOwners : q # p
    <3>1. PICK q \in ActiveOwners : q # p
      BY <2>4
    <3>2. q \in ActiveOwners'
      BY <2>2, <3>1 DEF ActiveOwners, Active, IsMember
    <3> QED BY <3>2 DEF AlwaysAnOwner
  <2>5. CASE ~(role = "owner" /\ status = "active") /\ ActiveOwners \subseteq {p}
    <3>1. p \in ActiveOwners
      BY <2>5 DEF AlwaysAnOwner
    <3>2. ~(Cardinality(ActiveOwners) <= 1)
      BY <2>1, <2>5, <3>1 DEF LastOwner
    <3> QED BY <2>5, <3>1, <3>2, AnotherOwner
  <2> QED BY <2>3, <2>4, <2>5
<1>3. ASSUME NEW c \in Calls, AcceptCommit(c)
      PROVE  AlwaysAnOwner'
  <2>1. \A q \in Principals : IsMember(q) => member'[q] = member[q]
    BY <1>3 DEF AcceptCommit, IsMember
  <2>2. PICK q \in ActiveOwners : TRUE
    BY DEF AlwaysAnOwner
  <2>3. q \in ActiveOwners'
    BY <2>1, <2>2 DEF ActiveOwners, Active, IsMember
  <2> QED BY <2>3 DEF AlwaysAnOwner
<1> QED BY <1>1, <1>2, <1>3, MembersWritten

(***************************************************************************)
(* Sessions.                                                               *)
(***************************************************************************)

\* A membership is never removed, and every change of it raises auth_version.
LEMMA VersionsGrow ==
    ASSUME TypeOK, Locals, CheckedStillHolds, Next, NEW p \in Principals, IsMember(p)
    PROVE  /\ IsMember(p)'
           /\ \/ member'[p] = member[p]
              \/ member'[p].auth_version > member[p].auth_version
<1> USE DEF TypeOK
<1>1. CASE member' = member
  BY <1>1 DEF IsMember
<1>2. ASSUME NEW c \in Calls, MutateCommit(c)
      PROVE  /\ IsMember(p)'
             /\ \/ member'[p] = member[p]
                \/ member'[p].auth_version > member[p].auth_version
  <2>1. CASE p # call[c].target
    BY <1>2, <2>1 DEF MutateCommit, IsMember
  <2>2. CASE p = call[c].target
    <3>1. /\ call[c].role \in Roles
          /\ call[c].version = member[p].auth_version + 1
      BY <1>2, <2>2 DEF MutateCommit, Locals, CallLocals, CheckedStillHolds
    <3>2. member'[p].role = call[c].role /\ member'[p].auth_version = call[c].version
      BY <1>2, <2>2 DEF MutateCommit, MutatedRow
    <3>3. member[p].auth_version \in Nat
      BY DEF Membership
    <3> QED BY <3>1, <3>2, <3>3 DEF IsMember, Roles
  <2> QED BY <2>1, <2>2
<1>3. ASSUME NEW c \in Calls, AcceptCommit(c)
      PROVE  /\ IsMember(p)'
             /\ \/ member'[p] = member[p]
                \/ member'[p].auth_version > member[p].auth_version
  BY <1>3 DEF AcceptCommit, IsMember
<1> QED BY <1>1, <1>2, <1>3, MembersWritten

\* Sessions and switches in progress carry right grants, or stale ones.
LEMMA NextGrants ==
    TypeOK /\ TypeOK' /\ Locals /\ CheckedStillHolds /\ Grants /\ Next => Grants'
<1> SUFFICES ASSUME TypeOK, TypeOK', Locals, CheckedStillHolds, Grants, Next
             PROVE  Grants'
  OBVIOUS
<1>1. ASSUME NEW s \in Sessions
      PROVE  SessionGrant(s)'
  <2>1. SessionGrant(s)
    BY DEF Grants
  <2>2. session[s].version \in Nat
    BY DEF TypeOK, SessionRow
  <2>3. CASE /\ session'[s].here = session[s].here
             /\ session'[s].version = session[s].version
             /\ session'[s].told = session[s].told
    <3>1. CASE session[s].here
      <4>1. session'[s].principal = session[s].principal
        BY <2>1, <3>1, PrincipalKept DEF SessionGrant
      <4> DEFINE p == session[s].principal
                 v == session[s].version
                 r == session[s].told
      <4>3. p \in Principals /\ IsMember(p) /\ v <= member[p].auth_version
              /\ (v = member[p].auth_version => r = member[p].role)
        BY <2>1, <3>1 DEF SessionGrant, Grant
      <4>4. /\ IsMember(p)'
            /\ \/ member'[p] = member[p]
               \/ member'[p].auth_version > member[p].auth_version
        BY <4>3, <4>1, VersionsGrow DEF IsMember
      <4>5. member[p].auth_version \in Nat /\ member'[p].auth_version \in Nat
        BY <4>3 DEF TypeOK, Membership
      <4> QED BY <2>2, <2>3, <4>1, <4>3, <4>4, <4>5 DEF SessionGrant, Grant, IsMember
    <3>2. CASE ~session[s].here
      BY <2>3, <3>2 DEF SessionGrant
    <3> QED BY <3>1, <3>2
  <2>4. ASSUME NEW c \in Calls, SwitchWrite(c), call[c].session = s
        PROVE  SessionGrant(s)'
    <3>1. /\ session'[s].here = call[c].here /\ session'[s].version = call[c].version
          /\ session'[s].told = call[c].role
          /\ session'[s].principal = session[s].principal
      BY <2>4 DEF SwitchWrite, TypeOK, SessionRow
    <3>2. session[s].principal \in Principals
      BY <2>4 DEF SwitchWrite, Locals, CallLocals
    <3>3. CallGrant(c) /\ call[c].at = "switch" /\ member' = member
      BY <2>4 DEF Grants, SwitchWrite
    <3> QED BY <2>4, <3>1, <3>2, <3>3 DEF SessionGrant, CallGrant, Grant, IsMember
  <2>5. session' # session =>
            \/ \E q \in Sessions, p \in Principals : CreateSession(q, p)
            \/ \E q \in Sessions : RevokeSession(q) \/ RevokeAllSessions(q)
            \/ \E c \in Calls : SwitchWrite(c) \/ MutateCommit(c)
    BY Frames DEF Next
  <2>6. ASSUME NEW q \in Sessions, NEW p \in Principals, CreateSession(q, p)
        PROVE  /\ session'[s].here = session[s].here
               /\ session'[s].version = session[s].version
               /\ session'[s].told = session[s].told
    BY <2>6 DEF CreateSession, TypeOK, SessionRow
  <2>7. ASSUME NEW q \in Sessions, RevokeSession(q) \/ RevokeAllSessions(q)
        PROVE  /\ session'[s].here = session[s].here
               /\ session'[s].version = session[s].version
               /\ session'[s].told = session[s].told
    BY <2>7 DEF RevokeSession, RevokeAllSessions, TypeOK, SessionRow
  <2>8. ASSUME NEW c \in Calls, SwitchWrite(c), call[c].session # s
        PROVE  session'[s] = session[s]
    BY <2>8 DEF SwitchWrite, TypeOK
  <2>9. ASSUME NEW c \in Calls, MutateCommit(c)
        PROVE  /\ session'[s].here = session[s].here
               /\ session'[s].version = session[s].version
               /\ session'[s].told = session[s].told
    BY <2>9 DEF MutateCommit, TypeOK, SessionRow
  <2> QED BY <2>3, <2>4, <2>5, <2>6, <2>7, <2>8, <2>9
<1>2. ASSUME NEW d \in Calls
      PROVE  CallGrant(d)'
  <2> SUFFICES ASSUME call'[d].at = "switch", call'[d].here
               PROVE  Grant(session[call[d].session].principal, call[d].version,
                            call[d].role)'
    BY DEF CallGrant
  <2>1. CASE call'[d] = call[d]
    <3> DEFINE p == session[call[d].session].principal
               v == call[d].version
               r == call[d].role
    <3>1. /\ p \in Principals
          /\ session'[call[d].session].principal = p
      BY <2>1, PrincipalKept DEF Locals, CallLocals
    <3>2. CallGrant(d)
      BY DEF Grants
    <3>3. IsMember(p) /\ v <= member[p].auth_version
            /\ (v = member[p].auth_version => r = member[p].role)
      BY <2>1, <3>2 DEF CallGrant, Grant
    <3>4. /\ member'[p].role # "none"
          /\ \/ member'[p] = member[p]
             \/ member'[p].auth_version > member[p].auth_version
      BY <3>1, <3>3, VersionsGrow DEF IsMember
    <3>5. member[p].auth_version \in Nat /\ member'[p].auth_version \in Nat /\ v \in Nat
      BY <3>1 DEF TypeOK, Membership, CallRow
    <3>6. v <= member'[p].auth_version /\ (v = member'[p].auth_version => r = member'[p].role)
      <4>1. CASE member'[p] = member[p]
        BY <3>3, <4>1
      <4>2. CASE member'[p].auth_version > member[p].auth_version
        <5> DEFINE old == member[p].auth_version
                   new == member'[p].auth_version
        <5>1. old \in Nat /\ new \in Nat /\ v \in Nat /\ v <= old /\ new > old
          BY <3>3, <3>5, <4>2
        <5> HIDE DEF old, new, v
        <5>2. v <= new /\ v # new
          BY <5>1
        <5> QED BY <5>2 DEF new
      <4> QED BY <3>4, <4>1, <4>2
    <3>7. /\ session'[call'[d].session].principal = p
          /\ call'[d].version = v /\ call'[d].role = r
      BY <2>1, <3>1
    <3> HIDE DEF p, v, r
    <3> QED BY <3>4, <3>6, <3>7 DEF Grant, IsMember
  <2>2. ASSUME NEW s \in Sessions, NEW here \in BOOLEAN, SwitchRead(d, s, here)
        PROVE  Grant(session[call[d].session].principal, call[d].version, call[d].role)'
    <3> DEFINE p == session[s].principal
    <3>1. call'[d].session = s /\ call'[d].here = here
      BY <2>2 DEF SwitchRead, TypeOK, Idle
    <3>2. here
      BY <3>1
    <3>3. call'[d].version = member[p].auth_version /\ call'[d].role = member[p].role
      BY <2>2, <3>2 DEF SwitchRead, TypeOK, Idle
    <3>4. p \in Principals /\ IsMember(p)
      BY <2>2, <3>2 DEF SwitchRead, Live, TypeOK, SessionRow, Active
    <3>5. member[p].auth_version \in Nat
      BY <3>4 DEF TypeOK, Membership
    <3>6. member' = member /\ session' = session
      BY <2>2 DEF SwitchRead
    <3> QED BY <3>1, <3>3, <3>4, <3>5, <3>6 DEF Grant, IsMember
  <2>3. CASE call'[d] # call[d]
    <3>1. \A c \in Calls : ~Return(c)
      BY <2>3 DEF Return, Idle, TypeOK
    <3>2. \A c \in Calls : /\ ~SwitchWrite(c) /\ ~MutateCommit(c) /\ ~AcceptCommit(c)
                            /\ ~CallAborts(c)
      BY <3>1 DEF SwitchWrite, MutateCommit, AcceptCommit, CallAborts
    <3>3. \A c \in Calls : ~MutateWrite(c)
      BY ZenonT(60), <2>3 DEF MutateWrite, TypeOK, CallRow
    <3>4. \A c \in Calls, s \in Sessions, i \in Invitations : ~AcceptRead(c, s, i)
      BY ZenonT(60), <2>3 DEF AcceptRead, Idle, TypeOK
    <3>5. ASSUME NEW c \in Calls, NEW s \in Sessions, NEW p \in Principals,
                 NEW role \in Roles, NEW status \in Statuses,
                 MutateCheck(c, s, p, role, status)
          PROVE  FALSE
      <4>1. d = c
        BY <2>3, <3>5 DEF MutateCheck, TypeOK
      <4>2. call'[d].at = "write"
        BY <3>5, <4>1 DEF MutateCheck, Idle, TypeOK
      <4> QED BY <4>2
    <3>6. \A c \in Calls, s \in Sessions, here \in BOOLEAN :
              SwitchRead(c, s, here) => c = d
      BY <2>3 DEF SwitchRead, TypeOK
    <3> QED BY <2>2, <2>3, <3>2, <3>3, <3>4, <3>5, <3>6, Frames DEF Next
  <2> QED BY <2>1, <2>3
<1> QED BY <1>1, <1>2 DEF Grants

(***************************************************************************)
(* The theorems.                                                           *)
(***************************************************************************)

\* The invariant is inductive.
LEMMA AccessInductive == Inv /\ [Next]_vars => Inv'
<1> SUFFICES ASSUME Inv, [Next]_vars PROVE Inv'
  OBVIOUS
<1>1. CASE Next
  BY <1>1, NextTypes, NextLocals, NextInvited, NextChecked, NextGrants, NextOwner DEF Inv
<1>2. CASE UNCHANGED vars
  BY ZenonT(60), <1>2
     DEF Inv, vars, TypeOK, Locals, CallLocals, Invited, CheckedStillHolds, Grants,
         SessionGrant, CallGrant, Grant, AlwaysAnOwner, ActiveOwners, Active, IsMember,
         MayMutate, LastOwner
<1> QED BY <1>1, <1>2

\* fn_membership_mutate_with_mutex and fn_invitation_accept_with_mutex, however many run
\* at once, never leave the organisation without an active owner.
THEOREM OwnerForever == Spec => []AlwaysAnOwner
<1>1. Inv => AlwaysAnOwner
  BY DEF Inv
<1> QED BY <1>1, InitInv, AccessInductive, PTL DEF Spec

\* What a membership change was checked against is still true when it commits.
THEOREM ChangesCommitOnChecks == Spec => []CheckedStillHolds
<1>1. Inv => CheckedStillHolds
  BY DEF Inv
<1> QED BY <1>1, InitInv, AccessInductive, PTL DEF Spec

\* A session fn_auth_lookup_session calls neither revoked nor stale has the role it was
\* given, whatever membership changes its switch raced with.
THEOREM SessionsAreCurrent == Spec => []UsableMeansCurrent
<1>1. Inv => UsableMeansCurrent
  BY DEF Inv, Grants, SessionGrant, Grant, UsableMeansCurrent, Usable
<1> QED BY <1>1, InitInv, AccessInductive, PTL DEF Spec

\* Logout, logout everywhere and the revocation by a membership change are not undone,
\* also by a switch_organisation that read the session before.
THEOREM RevocationIsFinal == Spec => RevokedStaysRevoked
<1>1. ASSUME Inv, [Next]_vars, NEW s \in Sessions, session[s].revoked
      PROVE  session'[s].revoked
  <2> USE DEF Inv, TypeOK, SessionRow
  <2>1. CASE UNCHANGED session
    BY <1>1, <2>1
  <2>2. ASSUME NEW q \in Sessions, NEW p \in Principals, CreateSession(q, p)
        PROVE  session'[s].revoked
    BY <1>1, <2>2 DEF CreateSession
  <2>3. ASSUME NEW q \in Sessions, RevokeSession(q)
        PROVE  session'[s].revoked
    BY <1>1, <2>3 DEF RevokeSession
  <2>4. ASSUME NEW q \in Sessions, RevokeAllSessions(q)
        PROVE  session'[s].revoked
    BY <1>1, <2>4 DEF RevokeAllSessions
  <2>5. ASSUME NEW c \in Calls, SwitchWrite(c)
        PROVE  session'[s].revoked
    BY <1>1, <2>5 DEF SwitchWrite
  <2>6. ASSUME NEW c \in Calls, MutateCommit(c)
        PROVE  session'[s].revoked
    BY <1>1, <2>6 DEF MutateCommit
  <2>7. CASE UNCHANGED vars
    BY <2>1, <2>7 DEF vars
  <2> QED BY <1>1, <2>1, <2>2, <2>3, <2>4, <2>5, <2>6, <2>7, Frames DEF Next
<1>2. Inv /\ [Next]_vars =>
          [\A s \in Sessions : session[s].revoked => session'[s].revoked]_vars
  BY <1>1
<1> QED BY <1>2, InitInv, AccessInductive, PTL DEF Spec, RevokedStaysRevoked

\* An accepted invitation is not accepted again or revoked, a revoked one not accepted,
\* although fn_invitation_accept_with_mutex reads its status before it takes the lock.
THEOREM InvitationsSettleOnce == Spec => InvitationOutcomeFinal
<1>1. ASSUME Inv, [Next]_vars, NEW i \in Invitations,
             invitation[i].status \in {"accepted", "revoked"}
      PROVE  invitation'[i].status = invitation[i].status
  <2> USE DEF Inv, TypeOK, InvitationRow
  <2>1. CASE UNCHANGED invitation
    BY <2>1
  <2>2. ASSUME NEW s \in Sessions, NEW j \in Invitations, NEW p \in Principals,
               NEW role \in Roles, InvitationCreate(s, j, p, role)
        PROVE  invitation'[i].status = invitation[i].status
    BY <1>1, <2>2 DEF InvitationCreate
  <2>3. ASSUME NEW s \in Sessions, NEW j \in Invitations, InvitationRevoke(s, j)
        PROVE  invitation'[i].status = invitation[i].status
    BY <1>1, <2>3 DEF InvitationRevoke
  <2>4. ASSUME NEW j \in Invitations, InvitationExpires(j)
        PROVE  invitation'[i].status = invitation[i].status
    BY <1>1, <2>4 DEF InvitationExpires
  <2>5. ASSUME NEW c \in Calls, AcceptCommit(c)
        PROVE  invitation'[i].status = invitation[i].status
    BY <1>1, <2>5 DEF AcceptCommit, chk_invitations_lifecycle
  <2>6. CASE UNCHANGED vars
    BY <2>1, <2>6 DEF vars
  <2> QED BY <1>1, <2>1, <2>2, <2>3, <2>4, <2>5, <2>6, Frames DEF Next
<1>2. Inv /\ [Next]_vars =>
          [\A i \in Invitations :
              invitation[i].status \in {"accepted", "revoked"} =>
                  invitation'[i].status = invitation[i].status]_vars
  BY <1>1
<1> QED BY <1>2, InitInv, AccessInductive, PTL DEF Spec, InvitationOutcomeFinal
(***************************************************************************)
(* The two dialects.  DialectsAgree follows from the types and from one    *)
(* more invariant: the SQLite lookup of an invitation recognises a row     *)
(* that does not exist by its address, the SQL function by its status.     *)
(***************************************************************************)
Addressed ==
    \A i \in Invitations : /\ invitation[i].status = "none" <=> invitation[i].email = NoOne
                           /\ invitation[i].email = NoOne => invitation[i].role = "none"

\* Only rows that were created have an address, and no row loses it.
LEMMA NextAddressed == TypeOK /\ Locals /\ Invited /\ Addressed /\ [Next]_vars => Addressed'
<1> SUFFICES ASSUME TypeOK, Locals, Invited, Addressed, [Next]_vars PROVE Addressed'
  OBVIOUS
<1> USE NobodyAssumption DEF TypeOK, Addressed, InvitationRow
<1>1. CASE UNCHANGED invitation
  BY <1>1
<1>2. ASSUME NEW s \in Sessions, NEW i \in Invitations, NEW p \in Principals,
             NEW role \in Roles, InvitationCreate(s, i, p, role)
      PROVE  Addressed'
  BY <1>2 DEF InvitationCreate
<1>3. ASSUME NEW i \in Invitations, InvitationExpires(i) \/ \E s \in Sessions : InvitationRevoke(s, i)
      PROVE  Addressed'
  BY <1>3 DEF InvitationRevoke, InvitationExpires
<1>4. ASSUME NEW c \in Calls, AcceptCommit(c) PROVE Addressed'
  <2>1. /\ call[c].invitation \in Invitations
        /\ invitation[call[c].invitation].email # NoOne
    BY <1>4 DEF AcceptCommit, Locals, CallLocals, Roles
  <2> QED
    BY <1>4, <2>1 DEF AcceptCommit
<1>5. CASE UNCHANGED vars
  BY <1>1, <1>5 DEF vars
<1> QED
  BY <1>1, <1>2, <1>3, <1>4, <1>5, Frames DEF Next

\* What the middleware has established for an admitted session that exists.
LEMMA AdmittedSession ==
    ASSUME TypeOK, NEW s \in Sessions, Exists(s), Admitted(lookup_session(s))
    PROVE  /\ session[s].principal \in Principals
           /\ Live(s) /\ SessionFound(s)
           /\ session[s].here => Usable(s) /\ lookup_session(s).role = Row(s).role
           /\ ~session[s].here => lookup_session(s).role = "none"
  BY DEF TypeOK, SessionRow, Exists, Admitted, lookup_session, Live, SessionFound, Usable,
         Active, IsMember, Row

\* Both lookups let the same sessions in.
LEMMA SameSessions == TypeOK => SameSessionsAdmitted
<1> SUFFICES ASSUME TypeOK, NEW s \in Sessions, Exists(s)
             PROVE  /\ Admitted(fn_auth_lookup_session(s)) <=> Admitted(lookup_session(s))
                    /\ Admitted(fn_auth_lookup_session(s)) =>
                          fn_auth_lookup_session(s).role = lookup_session(s).role
  BY DEF SameSessionsAdmitted
<1>1. session[s].revoked \in BOOLEAN /\ session[s].here \in BOOLEAN
  BY DEF TypeOK, SessionRow
<1>2. /\ fn_auth_lookup_session(s).revoked <=> lookup_session(s).revoked
      /\ fn_auth_lookup_session(s).stale <=> lookup_session(s).stale
  BY <1>1 DEF fn_auth_lookup_session, lookup_session, Live, Exists, Active, IsMember, Row
<1>3. ~lookup_session(s).stale => fn_auth_lookup_session(s).role = lookup_session(s).role
  BY DEF fn_auth_lookup_session, lookup_session
<1> QED
  BY <1>2, <1>3 DEF Admitted

\* UPDATE ... SET revoked_at of one row, and of the rows a loop visits.
LEMMA SameRevocations ==
    ASSUME TypeOK, NEW s \in Sessions, Exists(s), SessionFound(s)
    PROVE  /\ [Rows EXCEPT !.session[s].revoked = TRUE]
                = [Rows EXCEPT !.session = Revoking({s})]
           /\ {q \in Sessions : SessionFound(q)
                                 /\ session[q].principal = session[s].principal}
                = {q \in Sessions : Live(q) /\ session[q].principal = session[s].principal}
<1>1. [session EXCEPT ![s].revoked = TRUE] = Revoking({s})
  BY DEF TypeOK, Revoking
<1>2. [Rows EXCEPT !.session[s].revoked = TRUE]
        = [Rows EXCEPT !.session = [session EXCEPT ![s].revoked = TRUE]]
  BY DEF Rows
<1>3. \A q \in Sessions : session[q].principal = session[s].principal =>
                              (SessionFound(q) <=> Live(q))
  BY DEF Exists, Live, SessionFound
<1> QED
  BY <1>1, <1>2, <1>3

\* Calls that look at the caller's own rows only.
LEMMA SameForEveryone ==
    ASSUME TypeOK, Addressed, NEW s \in Sessions, Exists(s), Admitted(lookup_session(s))
    PROVE  SameForAnyone(s)
<1>1. session[s].principal \in Principals /\ Live(s) /\ SessionFound(s)
  BY AdmittedSession
<1>2. revoke_session(s) = fn_auth_revoke_session(s)
  BY <1>1, SameRevocations DEF revoke_session, fn_auth_revoke_session
<1>3. revoke_all_sessions(s) = fn_auth_revoke_all_sessions(s)
  BY <1>1, SameRevocations DEF revoke_all_sessions, fn_auth_revoke_all_sessions
<1>4. list_organisations(s) = fn_org_list(s)
  BY <1>1 DEF list_organisations, fn_org_list, IsMember, Row
<1>5. ASSUME NEW here \in BOOLEAN
      PROVE  switch_organisation(s, here) = fn_auth_switch_organisation(s, here)
  BY <1>1 DEF switch_organisation, fn_auth_switch_organisation, Active, IsMember, Row
<1>6. ASSUME NEW i \in Invitations PROVE lookup_invitation(i) = fn_invitation_lookup(i)
  BY DEF lookup_invitation, fn_invitation_lookup, Addressed
<1>7. ASSUME NEW i \in Invitations
      PROVE  accept_invitation(s, i) = fn_invitation_accept_with_mutex(s, i)
  BY <1>1 DEF accept_invitation, fn_invitation_accept_with_mutex, IsMember
<1> QED
  BY <1>2, <1>3, <1>4, <1>5, <1>6, <1>7 DEF SameForAnyone

\* A change of a membership, for a caller whose session and permission were checked.
LEMMA SameMutation ==
    ASSUME TypeOK, NEW s \in Sessions, Usable(s), Row(s).role \in {"owner", "admin"},
           session[s].principal \in Principals,
           NEW p \in Principals, NEW role \in Roles, NEW status \in Statuses
    PROVE  mutate_membership(s, p, role, status)
             = fn_membership_mutate_with_mutex(s, p, role, status)
<1>1. TargetSessions(p) = {q \in Sessions : /\ Live(q) /\ session[q].here
                                            /\ session[q].principal = p}
  BY NobodyAssumption DEF TargetSessions, SessionFound, Live
<1>2. {q \in Principals : member[q].role = "owner" /\ member[q].status = "active"}
        = ActiveOwners
  BY DEF ActiveOwners, Active, IsMember
<1>3. ActorMem(s)
  BY DEF ActorMem, SessionFound, Usable, Live, Active, Row
<1>4. (member[p].role = "owner" /\ member[p].status = "active") <=> p \in ActiveOwners
  BY <1>2
<1> DEFINE refuses == \/ ~ActorMem(s)
                      \/ session[s].principal = p
                      \/ member[p].role = "none"
                      \/ Row(s).role = "admin" /\ (member[p].role = "owner" \/ role = "owner")
                      \/ LastOwner(p, role, status)
<1>5. refuses <=> ~(/\ Usable(s)
                    /\ MayMutate(session[s].principal, p, role)
                    /\ ~LastOwner(p, role, status))
  BY <1>3 DEF MayMutate, Usable, IsMember, Row
<1>6. [Rows EXCEPT !.member[p] = [role |-> role, status |-> status,
                                  auth_version |-> member[p].auth_version + 1],
                   !.session   = Revoking(TargetSessions(p))]
      = [Rows EXCEPT
            !.member  = [member EXCEPT ![p] = [role         |-> role,
                                               status       |-> status,
                                               auth_version |-> @.auth_version + 1]],
            !.session = Revoking({q \in Sessions : /\ Live(q) /\ session[q].here
                                                   /\ session[q].principal = p})]
  BY <1>1 DEF Rows
<1>7. mutate_membership(s, p, role, status) =
        IF refuses THEN Refused
        ELSE Leaves([Rows EXCEPT !.member[p] = [role |-> role, status |-> status,
                                                auth_version |-> member[p].auth_version + 1],
                                 !.session   = Revoking(TargetSessions(p))],
                    <<role, status, member[p].auth_version + 1>>)
  BY <1>2, <1>4 DEF mutate_membership, LastOwner
<1> QED
  BY <1>5, <1>6, <1>7 DEF fn_membership_mutate_with_mutex

\* Calls behind the permission check.
LEMMA SameForEveryManager ==
    ASSUME TypeOK, NEW s \in Sessions, Exists(s), Admitted(lookup_session(s))
    PROVE  SameForManagers(s, lookup_session(s).role)
<1> DEFINE role == lookup_session(s).role
<1>1. CASE ~require_permission(role)
  BY <1>1 DEF SameForManagers, ManagerRoute, TargetRoute
<1>2. CASE require_permission(role)
  <2>1. /\ session[s].principal \in Principals /\ Usable(s) /\ SessionFound(s)
        /\ Row(s).role \in {"owner", "admin"} /\ ActorMem(s)
        /\ ActingRole(s) = Row(s).role
    BY <1>2, AdmittedSession
    DEF require_permission, ActorMem, ActingRole, Usable, Active, Row
  <2>2. list_memberships(s) = fn_membership_list(s)
    BY <2>1 DEF list_memberships, fn_membership_list, Usable
  <2>3. list_invitations(s) = fn_invitation_list(s)
    BY <2>1 DEF list_invitations, fn_invitation_list
  <2>4. ASSUME NEW i \in Invitations PROVE revoke_invitation(s, i) = fn_invitation_revoke(s, i)
    BY <2>1 DEF revoke_invitation, fn_invitation_revoke
  <2>5. ASSUME NEW p \in Principals, NEW r \in Roles, NEW status \in Statuses
        PROVE  mutate_membership(s, p, r, status)
                 = fn_membership_mutate_with_mutex(s, p, r, status)
    BY <2>1, SameMutation
  <2>6. ASSUME NEW p \in Principals, NEW r \in Roles, NEW i \in Invitations
        PROVE  create_invitation(s, i, p, r) = fn_invitation_create(s, i, p, r)
    BY <2>1 DEF create_invitation, fn_invitation_create, Active, IsMember
  <2> QED
    BY <2>2, <2>3, <2>4, <2>5, <2>6 DEF SameForManagers
<1> QED
  BY <1>1, <1>2

\* With no other call in progress, the SQLite fallbacks and the SQL functions admit the
\* same sessions, give the same answers and leave the same rows.
THEOREM DialectsAgreeAlways == Spec => []DialectsAgree
<1>1. TypeOK /\ Addressed => DialectsAgree
  BY SameSessions, SameForEveryone, SameForEveryManager DEF DialectsAgree
<1>2. Init => Addressed
  BY DEF Init, Addressed
<1>3. Inv => TypeOK /\ Locals /\ Invited
  BY DEF Inv
<1> QED
  BY <1>1, <1>2, <1>3, InitInv, AccessInductive, NextAddressed, PTL DEF Spec

=============================================================================
