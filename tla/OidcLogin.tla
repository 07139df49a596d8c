------------------------------ MODULE OidcLogin ------------------------------
(***************************************************************************)
(* Signing in (auth/oidc.py, the login and callback routes, and migration  *)
(* 0002's fn_oidc_* and fn_auth_resolve_federated_identity): login flows,  *)
(* the callbacks that complete them, and the accounts they resolve to.     *)
(*                                                                         *)
(* A callback is one database transaction, from the UPDATE that consumes   *)
(* the state to the commit after the account is resolved.  Nothing of it   *)
(* is visible before it commits, and an error that is only raised closes   *)
(* the session, which rolls it back.  NOW() is the time it began.          *)
(*                                                                         *)
(* The identity provider is external: it authenticates somebody for a      *)
(* state, and its answer to the code exchange may be an error, a timeout   *)
(* or a token of any quality.                                              *)
(***************************************************************************)
EXTENDS Naturals, FiniteSets

CONSTANTS Browsers,
          States,        \* oidc_auth_transactions rows, by raw state
          Subjects,      \* accounts at the identity provider
          Emails,
          Principals,    \* principals rows
          Callbacks,     \* callback requests
          NoState, NoSubject, NoEmail, NoOne, NoBrowser,
          Lifetime,      \* ticks until a login flow expires (ten minutes)
          Retention,     \* ticks until the purge deletes any flow (one hour)
          MaxTime        \* bound: last tick of the clock

ASSUME LoginAssumption ==
    /\ NoState \notin States /\ NoSubject \notin Subjects /\ NoEmail \notin Emails
    /\ NoOne \notin Principals /\ NoBrowser \notin Browsers
    /\ Lifetime \in Nat \ {0} /\ Retention \in Nat /\ MaxTime \in Nat
    /\ Lifetime <= Retention

VARIABLES
    now,         \* the database clock
    flow,        \* flow[st]: the oidc_auth_transactions row
    jar,         \* jar[b]: the OIDC state cookie of browser b
    grant,       \* grant[st]: whom the identity provider authenticated for st
    cb,          \* cb[c]: a callback request and its transaction
    principal,   \* principal[p]: the committed principals row
    federated    \* committed federated_identities rows

vars == <<now, flow, jar, grant, cb, principal, federated>>

NoFlow == [status |-> "none", created |-> 0, browser |-> NoBrowser]

NoGrant == [subject |-> NoSubject, email |-> NoEmail]

NoPrincipal == [email |-> NoEmail, active |-> FALSE]

Waiting == [at |-> "idle", browser |-> NoBrowser, state |-> NoState, code |-> NoState,
            began |-> 0, principal |-> NoOne, new |-> FALSE]

\* The transaction is open, and holds the row of its state.
Holding == {"consumed", "exchanged", "verified", "inserting", "resolved"}

Ended == {"signed_in", "failed"}

Places == Holding \cup Ended \cup {"idle", "begun", "committed"}

CallbackRow ==
    [at        : Places,
     browser   : Browsers \cup {NoBrowser},
     state     : States \cup {NoState},
     code      : States \cup {NoState},
     began     : 0 .. MaxTime,
     principal : Principals \cup {NoOne},
     new       : BOOLEAN]

TypeOK ==
    /\ now \in 0 .. MaxTime
    /\ flow \in [States -> [status  : {"none", "pending", "consumed", "purged"},
                            created : 0 .. MaxTime,
                            browser : Browsers \cup {NoBrowser}]]
    /\ jar \in [Browsers -> States \cup {NoState}]
    /\ grant \in [States -> [subject : Subjects \cup {NoSubject},
                             email   : Emails \cup {NoEmail}]]
    /\ cb \in [Callbacks -> CallbackRow]
    /\ principal \in [Principals -> [email : Emails \cup {NoEmail}, active : BOOLEAN]]
    /\ federated \subseteq Subjects \X Principals

Init ==
    /\ now = 0
    /\ flow = [st \in States |-> NoFlow]
    /\ jar = [b \in Browsers |-> NoState]
    /\ grant = [st \in States |-> NoGrant]
    /\ cb = [c \in Callbacks |-> Waiting]
    /\ principal = [p \in Principals |-> NoPrincipal]
    /\ federated = {}

(***************************************************************************)
(* The login route and the identity provider.                              *)
(***************************************************************************)

\* auth_login: a fresh state is stored, and becomes the browser's state cookie.
Login(b, st) ==
    /\ flow[st].status = "none"
    /\ flow' = [flow EXCEPT ![st] = [status |-> "pending", created |-> now, browser |-> b]]
    /\ jar' = [jar EXCEPT ![b] = st]
    /\ UNCHANGED <<now, grant, cb, principal, federated>>

\* External: the provider authenticates a subject for the state and issues a code.
Authenticate(st, u, e) ==
    /\ flow[st].status # "none"
    /\ grant[st] = NoGrant
    /\ grant' = [grant EXCEPT ![st] = [subject |-> u, email |-> e]]
    /\ UNCHANGED <<now, flow, jar, cb, principal, federated>>

(***************************************************************************)
(* The callback: OidcManager.process_callback.                             *)
(***************************************************************************)

Goto(c, at) == cb' = [cb EXCEPT ![c].at = at]

\* The commit that goes with a recorded security event: the state stays consumed.
FailAndCommit(c) ==
    /\ Goto(c, "failed")
    /\ flow' = [flow EXCEPT ![cb[c].state].status = "consumed"]
    /\ UNCHANGED <<now, jar, grant, principal, federated>>

\* A bare raise: the session closes and the state is pending again.
FailAndRollBack(c) ==
    /\ Goto(c, "failed")
    /\ UNCHANGED <<now, flow, jar, grant, principal, federated>>

\* Fault for sensitivity: the state cookie is not compared with the state.
FaultAnyCookie(b, st) == TRUE

CookieMatches(b, st) == jar[b] = st

\* auth_callback with the code issued for state k.  Another state than the cookie's is
\* refused before the transaction begins.
Begin(c, b, st, k) ==
    /\ cb[c].at = "idle"
    /\ flow[st].status # "none"
    /\ grant[k] # NoGrant
    /\ CookieMatches(b, st)
    /\ cb' = [cb EXCEPT ![c] = [Waiting EXCEPT !.at = "begun", !.browser = b,
                                   !.state = st, !.code = k, !.began = now]]
    /\ UNCHANGED <<now, flow, jar, grant, principal, federated>>

\* Fault for sensitivity: consumed_at is not looked at.
FaultConsumable(c) ==
    /\ flow[cb[c].state].status \in {"pending", "consumed"}
    /\ flow[cb[c].state].created + Lifetime > cb[c].began

\* The WHERE clause of fn_oidc_consume_transaction.
Consumable(c) ==
    /\ flow[cb[c].state].status = "pending"
    /\ flow[cb[c].state].created + Lifetime > cb[c].began

\* Fault for sensitivity: a callback that failed leaves its transaction open.
FaultNeverClosed(c) ==
    \A d \in Callbacks \ {c} : cb[d].state = cb[c].state => cb[d].at \notin Holding \cup {"failed"}

RowFree(c) == \A d \in Callbacks \ {c} : cb[d].state = cb[c].state => cb[d].at \notin Holding

\* The UPDATE waits for another holder of the row and looks at what it left.  No row:
\* an event is recorded and the callback ends.
Consume(c) ==
    /\ cb[c].at = "begun"
    /\ RowFree(c)
    /\ Goto(c, IF Consumable(c) THEN "consumed" ELSE "failed")
    /\ UNCHANGED <<now, flow, jar, grant, principal, federated>>

\* The token endpoint answers with an ID token.  A provider that checks the PKCE
\* verifier refuses a code of another flow; the callback does not rely on it.
Exchange(c) ==
    /\ cb[c].at = "consumed"
    /\ Goto(c, "exchanged")
    /\ UNCHANGED <<now, flow, jar, grant, principal, federated>>

\* The token endpoint answers with an error: recorded and committed.
ExchangeRefused(c) == cb[c].at = "consumed" /\ FailAndCommit(c)

\* No answer, an unreachable discovery document, or no id_token: only raised.
ExchangeLost(c) == cb[c].at = "consumed" /\ FailAndRollBack(c)

NonceMatches(c) == cb[c].code = cb[c].state

\* Signature, issuer, audience, authorised party, nonce, verified email and subject hold.
Verify(c) ==
    /\ cb[c].at = "exchanged"
    /\ NonceMatches(c)
    /\ Goto(c, "verified")
    /\ UNCHANGED <<now, flow, jar, grant, principal, federated>>

\* The signature cannot be verified, or the email is not: recorded and committed.
VerifyRefused(c) == cb[c].at = "exchanged" /\ FailAndCommit(c)

\* A claim does not match: only raised.
VerifyRaises(c) == cb[c].at = "exchanged" /\ FailAndRollBack(c)

Subject(c) == grant[cb[c].code].subject

Email(c) == grant[cb[c].code].email

\* fn_auth_resolve_federated_identity finds the identity: the account is the one it
\* names, unless deactivated, which is an exception.
ResolveKnown(c) ==
    /\ cb[c].at = "verified"
    /\ \E p \in Principals :
          /\ <<Subject(c), p>> \in federated
          /\ cb' = [cb EXCEPT ![c] = [@ EXCEPT
                       !.at = IF principal[p].active THEN "resolved" ELSE "failed",
                       !.principal = IF principal[p].active THEN p ELSE NoOne]]
    /\ UNCHANGED <<now, flow, jar, grant, principal, federated>>

\* The identity is unknown.  An email that has an account is a collision: the
\* transaction is rolled back and the event recorded in a new one.
ResolveUnknown(c) ==
    /\ cb[c].at = "verified"
    /\ \A p \in Principals : <<Subject(c), p>> \notin federated
    /\ Goto(c, IF \E p \in Principals : principal[p].email = Email(c)
               THEN "failed" ELSE "inserting")
    /\ UNCHANGED <<now, flow, jar, grant, principal, federated>>

\* Fault for sensitivity: the table has no unique constraint.
FaultNotUnique(c) == TRUE

\* uq_federated_issuer_subject against the committed rows.  principals.email carries no
\* such constraint.
uq_federated_issuer_subject(c) == \A p \in Principals : <<Subject(c), p>> \notin federated

\* An uncommitted row of the same subject, which the second INSERT has to wait for.
InsertFree(c) ==
    \A d \in Callbacks \ {c} :
        cb[d].at = "resolved" /\ cb[d].new => Subject(d) # Subject(c)

\* The two INSERTs, with a new id each; a duplicate raises, which is no collision to
\* process_callback.
Insert(c) ==
    /\ cb[c].at = "inserting"
    /\ InsertFree(c)
    /\ IF uq_federated_issuer_subject(c)
       THEN \E p \in Principals :
               /\ principal[p] = NoPrincipal
               /\ \A d \in Callbacks : cb[d].principal # p
               /\ cb' = [cb EXCEPT ![c] = [@ EXCEPT !.at = "resolved", !.principal = p,
                                                    !.new = TRUE]]
       ELSE Goto(c, "failed")
    /\ UNCHANGED <<now, flow, jar, grant, principal, federated>>

\* The event of the success is recorded and everything commits.
Commit(c) ==
    LET p == cb[c].principal IN
    /\ cb[c].at = "resolved"
    /\ Goto(c, "committed")
    /\ flow' = [flow EXCEPT ![cb[c].state].status = "consumed"]
    /\ IF cb[c].new
       THEN /\ principal' = [principal EXCEPT ![p] = [email |-> Email(c), active |-> TRUE]]
            /\ federated' = federated \cup {<<Subject(c), p>>}
       ELSE UNCHANGED <<principal, federated>>
    /\ UNCHANGED <<now, jar, grant>>

\* create_session in a transaction of its own refuses an account deactivated since.
\* The answer carries the session cookie and clears the state cookie.
SignIn(c) ==
    /\ cb[c].at = "committed"
    /\ IF principal[cb[c].principal].active
       THEN /\ Goto(c, "signed_in")
            /\ jar' = [jar EXCEPT ![cb[c].browser] = NoState]
       ELSE /\ Goto(c, "failed")
            /\ UNCHANGED jar
    /\ UNCHANGED <<now, flow, grant, principal, federated>>

\* The process dies: an open transaction is rolled back; after the commit the
\* account is there and the session is not.
CallbackDies(c) == cb[c].at \notin Ended \cup {"idle"} /\ FailAndRollBack(c)

(***************************************************************************)
(* The clock, the purge and the administrator.                             *)
(***************************************************************************)

Tick ==
    /\ now < MaxTime
    /\ now' = now + 1
    /\ UNCHANGED <<flow, jar, grant, cb, principal, federated>>

\* fn_maintenance_purge_oidc_transactions: every consumed flow, and every old one.
PurgeFlows ==
    LET gone == {st \in States :
                    /\ flow[st].status \in {"pending", "consumed"}
                    /\ flow[st].status = "consumed" \/ flow[st].created + Retention < now}
    IN  /\ gone # {}
        /\ \A c \in Callbacks : cb[c].state \in gone => cb[c].at \notin Holding
        /\ flow' = [st \in States |-> IF st \in gone
                                      THEN [flow[st] EXCEPT !.status = "purged"]
                                      ELSE flow[st]]
        /\ UNCHANGED <<now, jar, grant, cb, principal, federated>>

\* External: no code path clears is_active; an administrator does.
Deactivate(p) ==
    /\ principal[p].active
    /\ principal' = [principal EXCEPT ![p].active = FALSE]
    /\ UNCHANGED <<now, flow, jar, grant, cb, federated>>

Step(c) ==
    \/ Consume(c)
    \/ Exchange(c) \/ ExchangeRefused(c) \/ ExchangeLost(c)
    \/ Verify(c) \/ VerifyRefused(c) \/ VerifyRaises(c)
    \/ ResolveKnown(c) \/ ResolveUnknown(c) \/ Insert(c)
    \/ Commit(c) \/ SignIn(c)

Next ==
    \/ \E b \in Browsers, st \in States :
          \/ Login(b, st)
          \/ \E c \in Callbacks, k \in States : Begin(c, b, st, k)
    \/ \E st \in States, u \in Subjects, e \in Emails : Authenticate(st, u, e)
    \/ \E c \in Callbacks : Step(c) \/ CallbackDies(c)
    \/ \E p \in Principals : Deactivate(p)
    \/ Tick
    \/ PurgeFlows

Spec == Init /\ [][Next]_vars

\* The server runs every request it has accepted.
FairSpec == Spec /\ \A c \in Callbacks : WF_vars(Step(c))

(***************************************************************************)
(* Properties.                                                             *)
(***************************************************************************)

Resolved(c) == cb[c].at \in {"committed", "signed_in"}

\* A login flow signs in at most once, and only with the account authenticated for it:
\* neither a second callback with the same state, at the same time or after a failure,
\* nor a code of another flow gets through.
FlowSignsInOnce ==
    \A c \in Callbacks : Resolved(c) =>
        /\ <<grant[cb[c].state].subject, cb[c].principal>> \in federated
        /\ flow[cb[c].state].status \in {"consumed", "purged"}
        /\ \A d \in Callbacks \ {c} : Resolved(d) => cb[d].state # cb[c].state

\* A session is handed to the browser that began the flow, whoever else completes
\* the callback URL.
SessionForItsBrowser ==
    \A c \in Callbacks : cb[c].at = "signed_in" =>
        cb[c].browser = flow[cb[c].state].browser

\* Concurrent first sign-ins of a subject leave one account, and no account is left
\* without the identity that can sign in to it.
OneAccountPerSubject ==
    /\ \A u \in Subjects, p, q \in Principals :
          <<u, p>> \in federated /\ <<u, q>> \in federated => p = q
    /\ \A p \in Principals : principal[p] # NoPrincipal <=>
                             \E u \in Subjects : <<u, p>> \in federated

\* Every callback ends: nobody waits for ever for the row of the state or for the
\* account of another callback.
CallbackEnds == \A c \in Callbacks : cb[c].at = "begun" ~> cb[c].at \in Ended
=============================================================================
