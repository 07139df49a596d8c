----------------------------- MODULE WebSession -----------------------------
(***************************************************************************)
(* Browser sessions of one principal (auth/sessions.py, the middleware of  *)
(* webapp/middleware.py and the session routes of webapp/auth_routes.py):  *)
(* the rows with their timers, the cookies the browsers hold, and requests *)
(* in flight, whose answers may arrive in any order or not at all.         *)
(*                                                                         *)
(* The middleware looks the session up and touches it in one transaction,  *)
(* the handler works in others.  NOW() is the time a transaction began,    *)
(* however late its statements run.  The membership behind the session     *)
(* does not change here; Access covers that.                               *)
(***************************************************************************)
EXTENDS Naturals

CONSTANTS Browsers,
          Sessions,        \* user_sessions rows
          Requests,        \* requests the browsers send
          NoSession,
          IdleTimeout, AbsoluteTimeout, TouchThrottle,   \* in ticks
          MaxTime          \* bound: last tick of the clock

ASSUME TimeoutAssumption ==
    /\ IdleTimeout \in Nat \ {0} /\ AbsoluteTimeout \in Nat /\ TouchThrottle \in Nat
    /\ MaxTime \in Nat /\ IdleTimeout <= AbsoluteTimeout
    /\ NoSession \notin Sessions /\ Browsers # {}

\* Every token is new; 0 is none.
Tokens == Nat \ {0}

\* The routes: one that only reads, and those that change the session.  join stands for
\* creating an organisation and for accepting an invitation.
Kinds == {"view", "switch", "join", "logout", "revoke_all"}

VARIABLES
    now,      \* the clock of the database and of the server
    sess,     \* sess[s]: the user_sessions row; born is created_at, and limit, which
              \*   the code does not keep, the latest idle limit it has had
    issued,   \* tokens handed out so far
    jar,      \* jar[b]: the session cookie of browser b
    req       \* req[r]: a request

vars == <<now, sess, issued, jar, req>>

NoRow == [token |-> 0, born |-> 0, last_active |-> 0, idle |-> 0, absolute |-> 0,
          limit |-> 0, revoked |-> FALSE]

Unsent == [at |-> "idle", kind |-> "view", browser |-> CHOOSE b \in Browsers : TRUE,
           token |-> 0, csrf |-> FALSE, session |-> NoSession, began |-> 0, answer |-> 0]

\* A row of user_sessions, and a request.
Row == [token : Tokens \cup {0}, born : 0 .. MaxTime, last_active : 0 .. MaxTime,
        idle : 0 .. MaxTime + IdleTimeout, absolute : 0 .. MaxTime + AbsoluteTimeout,
        limit : 0 .. MaxTime + IdleTimeout, revoked : BOOLEAN]

Request == [at : {"idle", "sent", "found", "admitted", "joined", "switching", "answered",
                  "refused", "done"},
            kind : Kinds, browser : Browsers, token : Tokens \cup {0}, csrf : BOOLEAN,
            session : Sessions \cup {NoSession}, began : 0 .. MaxTime,
            answer : Tokens \cup {0}]

TypeOK ==
    /\ now \in 0 .. MaxTime
    /\ sess \in [Sessions -> Row]
    /\ issued \in Nat
    /\ jar \in [Browsers -> Tokens \cup {0}]
    /\ req \in [Requests -> Request]

Init ==
    /\ now = 0
    /\ sess = [s \in Sessions |-> NoRow]
    /\ issued = 0
    /\ jar = [b \in Browsers |-> 0]
    /\ req = [r \in Requests |-> Unsent]

Min2(a, b) == IF a <= b THEN a ELSE b

Max2(a, b) == IF a <= b THEN b ELSE a

Exists(s) == sess[s].token # 0

\* Fault for sensitivity: only the absolute limit is looked at.
FaultOnlyAbsolute(s, t) == ~sess[s].revoked /\ t < sess[s].absolute

\* The conditions every function puts on the row, at transaction time t.
Live(s, t) == ~sess[s].revoked /\ t < sess[s].absolute /\ t < sess[s].idle

WithToken(t) == {s \in Sessions : Exists(s) /\ sess[s].token = t}

(***************************************************************************)
(* Signing in, and sending a request.                                      *)
(***************************************************************************)

\* create_session, and the cookie of the callback's answer.
SignIn(b, s) ==
    /\ ~Exists(s)
    /\ issued' = issued + 1
    /\ sess' = [sess EXCEPT ![s] =
                   [token |-> issued', born |-> now, last_active |-> now,
                    idle |-> now + IdleTimeout,
                    absolute |-> now + AbsoluteTimeout,
                    limit |-> now + IdleTimeout, revoked |-> FALSE]]
    /\ jar' = [jar EXCEPT ![b] = issued']
    /\ UNCHANGED <<now, req>>

\* A request carries the cookie of the moment; csrf says whether the page's CSRF token
\* is the one bound to it (a page loaded before a switch holds an older one).
Send(r, b, kind, csrf) ==
    /\ req[r].at = "idle"
    /\ jar[b] # 0
    /\ kind = "view" => csrf
    /\ req' = [req EXCEPT ![r] = [Unsent EXCEPT !.at = "sent", !.kind = kind, !.browser = b,
                                     !.token = jar[b], !.csrf = csrf]]
    /\ UNCHANGED <<now, sess, issued, jar>>

(***************************************************************************)
(* The middleware.                                                         *)
(***************************************************************************)

\* lookup_session opens the transaction.  A session that is not live leaves the request
\* anonymous: every route but logout refuses it.
Lookup(r) ==
    /\ req[r].at = "sent"
    /\ LET live == {s \in WithToken(req[r].token) : Live(s, now)} IN
       IF live # {}
       THEN \E s \in live : req' = [req EXCEPT ![r] = [@ EXCEPT !.at = "found", !.session = s,
                                                                !.began = now]]
       ELSE req' = [req EXCEPT ![r].at = IF req[r].kind = "logout" /\ req[r].csrf
                                         THEN "answered" ELSE "refused"]
    /\ UNCHANGED <<now, sess, issued, jar>>

Extended(s, t) == Min2(t + IdleTimeout, sess[s].absolute)

Refreshed(s, t) ==
    [sess[s] EXCEPT !.last_active = t, !.idle = Extended(s, t),
                    !.limit = Max2(sess[s].limit, Extended(s, t))]

\* fn_auth_touch_session_throttled, then CsrfMiddleware on everything but a view.
Touch(r) ==
    LET t == req[r].began
        touched == {s \in WithToken(req[r].token) :
                       Live(s, t) /\ sess[s].last_active + TouchThrottle < t}
    IN  /\ req[r].at = "found"
        /\ sess' = [s \in Sessions |-> IF s \in touched
                                       THEN Refreshed(s, t) ELSE sess[s]]
        /\ req' = [req EXCEPT ![r].at = IF req[r].csrf THEN "admitted" ELSE "refused"]
        /\ UNCHANGED <<now, issued, jar>>

(***************************************************************************)
(* The handlers.                                                           *)
(***************************************************************************)

View(r) ==
    /\ req[r].at = "admitted" /\ req[r].kind = "view"
    /\ req' = [req EXCEPT ![r].at = "answered"]
    /\ UNCHANGED <<now, sess, issued, jar>>

\* Fault for sensitivity: an optimistic check on last_active_at, which the request's own
\* touch has just moved.
FaultRevokeSkips(r) == {s \in WithToken(req[r].token) : sess[s].last_active # req[r].began}

Revoked(r) == WithToken(req[r].token)

\* auth_logout: fn_auth_revoke_session with the request's token, which may match no row
\* by now.  The answer is the same.
Logout(r) ==
    /\ req[r].at = "admitted" /\ req[r].kind = "logout"
    /\ sess' = [s \in Sessions |-> IF s \in Revoked(r)
                                   THEN [sess[s] EXCEPT !.revoked = TRUE] ELSE sess[s]]
    /\ req' = [req EXCEPT ![r].at = "answered"]
    /\ UNCHANGED <<now, issued, jar>>

\* auth_revoke_all: every session of the principal, if the token still names a live one.
RevokeAll(r) ==
    /\ req[r].at = "admitted" /\ req[r].kind = "revoke_all"
    /\ sess' = IF \E s \in WithToken(req[r].token) : Live(s, now)
               THEN [s \in Sessions |-> IF Exists(s) THEN [sess[s] EXCEPT !.revoked = TRUE]
                                                     ELSE sess[s]]
               ELSE sess
    /\ req' = [req EXCEPT ![r].at = "answered"]
    /\ UNCHANGED <<now, issued, jar>>

\* create_organisation and accept_invitation commit before they switch; both ask for a
\* live session.
Join(r) ==
    /\ req[r].at = "admitted" /\ req[r].kind = "join"
    /\ req' = [req EXCEPT ![r].at = IF \E s \in WithToken(req[r].token) : Live(s, now)
                                    THEN "joined" ELSE "refused"]
    /\ UNCHANGED <<now, sess, issued, jar>>

\* fn_auth_switch_organisation up to its UPDATE.
SwitchRead(r) ==
    LET live == {s \in WithToken(req[r].token) : Live(s, now)} IN
    /\ \/ req[r].at = "admitted" /\ req[r].kind = "switch"
       \/ req[r].at = "joined"
    /\ IF live # {}
       THEN \E s \in live : req' = [req EXCEPT ![r] = [@ EXCEPT !.at = "switching", !.session = s,
                                                                !.began = now]]
       ELSE req' = [req EXCEPT ![r].at = "refused"]
    /\ UNCHANGED <<now, sess, issued, jar>>

\* The UPDATE by id: a new token, whatever has become of the row.
SwitchWrite(r) ==
    LET s == req[r].session IN
    /\ req[r].at = "switching"
    /\ issued' = issued + 1
    /\ sess' = [sess EXCEPT ![s] = [Refreshed(s, req[r].began) EXCEPT !.token = issued']]
    /\ req' = [req EXCEPT ![r] = [@ EXCEPT !.at = "answered", !.answer = issued']]
    /\ UNCHANGED <<now, jar>>

(***************************************************************************)
(* Answers and time.                                                       *)
(***************************************************************************)

\* The answer arrives: a switch sets the cookie, a logout deletes it.
Receive(r) ==
    /\ req[r].at = "answered"
    /\ req' = [req EXCEPT ![r].at = "done"]
    /\ jar' = IF req[r].kind = "view" THEN jar
              ELSE [jar EXCEPT ![req[r].browser] = req[r].answer]
    /\ UNCHANGED <<now, sess, issued>>

\* The answer, or the connection before it, is lost; a transaction is rolled back.
Lose(r) ==
    /\ req[r].at \notin {"idle", "done", "refused"}
    /\ req' = [req EXCEPT ![r].at = "done"]
    /\ UNCHANGED <<now, sess, issued, jar>>

Tick ==
    /\ now < MaxTime
    /\ now' = now + 1
    /\ UNCHANGED <<sess, issued, jar, req>>

Serve(r) ==
    Lookup(r) \/ Touch(r) \/ View(r) \/ Logout(r) \/ RevokeAll(r) \/ Join(r)
    \/ SwitchRead(r) \/ SwitchWrite(r)

Next ==
    \/ \E b \in Browsers, s \in Sessions : SignIn(b, s)
    \/ \E r \in Requests :
          \/ \E b \in Browsers, kind \in Kinds, csrf \in BOOLEAN : Send(r, b, kind, csrf)
          \/ Serve(r) \/ Receive(r) \/ Lose(r)
    \/ Tick

Spec == Init /\ [][Next]_vars

(***************************************************************************)
(* Properties.                                                             *)
(***************************************************************************)

Serving(s) == Exists(s) /\ ~sess[s].revoked /\ now < sess[s].idle

\* A session that has ended serves again only when a transaction that began before it
\* had timed out writes late, and never after a revocation.
EndedStaysEnded ==
    [][\A s \in Sessions : Exists(s) /\ ~Serving(s) /\ Serving(s)' =>
          /\ ~sess[s].revoked
          /\ \E r \in Requests : /\ req[r].at \in {"found", "switching"}
                                 /\ req[r].session = s
                                 /\ req[r].began < sess[s].limit]_vars

\* The token of an admitted logout is accepted by nobody from its answer on, even when
\* a switch was rotating it at the same time.
LoggedOutTokenDead ==
    \A r \in Requests, s \in Sessions :
        req[r].kind = "logout" /\ req[r].at = "answered" /\ req[r].session # NoSession
        /\ Exists(s) /\ sess[s].token = req[r].token => sess[s].revoked
=============================================================================
