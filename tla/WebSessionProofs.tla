-------------------------- MODULE WebSessionProofs --------------------------
(***************************************************************************)
(* Proofs of the safety properties of WebSession, for any number of        *)
(* browsers, sessions and requests and any timeouts.                       *)
(*                                                                         *)
(* The functions of auth/sessions.py find a row by its token at one time   *)
(* and change it at another, when a switch may have rotated the token.     *)
(* That this never reaches another session rests on one fact: a token is   *)
(* handed out once, so the only row that can still carry the token of a    *)
(* request is the one its lookup found (BoundToSession).                   *)
(***************************************************************************)
EXTENDS WebSession, TLAPS

(* Every token in a row, a cookie, a request or an answer was issued.      *)
TokensIssued ==
    /\ \A s \in Sessions : sess[s].token <= issued
    /\ \A b \in Browsers : jar[b] <= issued
    /\ \A r \in Requests : req[r].token <= issued /\ req[r].answer <= issued

(* No two rows carry the same token.                                       *)
TokensUnique ==
    \A s, t \in Sessions : Exists(s) /\ sess[s].token = sess[t].token => s = t

(* A row's idle limit never passed the latest it has had.                  *)
Limits == \A s \in Sessions : sess[s].idle <= sess[s].limit

(* A request that found a session can reach no other row by its token.     *)
BoundToSession ==
    \A r \in Requests, s \in Sessions :
        req[r].session # NoSession /\ sess[s].token = req[r].token => s = req[r].session

(* What is known of a request where it stands.                             *)
Stands ==
    \A r \in Requests :
        /\ req[r].at # "idle" => req[r].token # 0
        /\ req[r].at \in {"idle", "sent"} => req[r].session = NoSession
        /\ req[r].at \in {"found", "admitted", "joined", "switching"} =>
              req[r].session # NoSession
        /\ req[r].at \in {"joined", "switching"} => req[r].kind # "logout"
        /\ req[r].at = "switching" => /\ Exists(req[r].session)
                                      /\ req[r].began < sess[req[r].session].limit

Inv ==
    /\ TypeOK
    /\ TokensIssued
    /\ TokensUnique
    /\ Limits
    /\ BoundToSession
    /\ Stands
    /\ LoggedOutTokenDead

-----------------------------------------------------------------------------
(* Rows.                                                                   *)

LEMMA ExtendedTyped ==
    ASSUME TypeOK, Limits, NEW s \in Sessions, NEW t \in 0 .. MaxTime
    PROVE  /\ Refreshed(s, t) \in Row
           /\ Refreshed(s, t).token = sess[s].token
           /\ Refreshed(s, t).revoked = sess[s].revoked
           /\ Refreshed(s, t).idle <= Refreshed(s, t).limit
           /\ sess[s].limit <= Refreshed(s, t).limit
<1> DEFINE e == Extended(s, t)
           m == Max2(sess[s].limit, e)
<1>1. sess[s] \in Row
    BY DEF TypeOK
<1>2. e \in 0 .. MaxTime + IdleTimeout
    BY <1>1, TimeoutAssumption DEF Extended, Min2, Row
<1>3. m \in 0 .. MaxTime + IdleTimeout /\ e <= m /\ sess[s].limit <= m
    BY <1>1, <1>2, TimeoutAssumption DEF Max2, Row
<1>4. Refreshed(s, t) = [sess[s] EXCEPT !.last_active = t, !.idle = e, !.limit = m]
    BY DEF Refreshed
<1> HIDE DEF e, m
<1> QED
    BY <1>1, <1>2, <1>3, <1>4 DEF Row

(* What a step does to the rows: a token changes to the next one only, and *)
(* a row that exists is never taken back.                                  *)
RowsMove ==
    \A s \in Sessions :
        /\ sess'[s].token \in {sess[s].token, issued + 1}
        /\ Exists(s) => /\ sess[s].revoked => sess'[s].revoked
                        /\ sess[s].limit <= sess'[s].limit

(* Steps that leave the tokens alone keep everything said about tokens.    *)
LEMMA SameTokens ==
    ASSUME Inv, NEW row \in [Sessions -> Row],
           \A s \in Sessions : /\ row[s].token = sess[s].token
                               /\ row[s].idle <= row[s].limit
                               /\ sess[s].limit <= row[s].limit
                               /\ sess[s].revoked => row[s].revoked,
           sess' = row, issued' = issued
    PROVE  /\ RowsMove
           /\ TokensUnique'
           /\ Limits'
           /\ \A s \in Sessions : sess'[s].token <= issued'
<1>1. \A s \in Sessions : Exists(s)' <=> Exists(s)
    BY DEF Exists
<1> QED
    BY <1>1 DEF Inv, RowsMove, TokensUnique, Limits, TokensIssued

(* A row that is given the next token keeps the tokens unique.             *)
LEMMA NextToken ==
    ASSUME Inv, NEW s \in Sessions, NEW row \in Row,
           row.token = issued + 1, row.idle <= row.limit,
           Exists(s) => row.limit >= sess[s].limit /\ (sess[s].revoked => row.revoked),
           sess' = [sess EXCEPT ![s] = row], issued' = issued + 1
    PROVE  /\ sess' \in [Sessions -> Row] /\ issued' \in Nat
           /\ sess'[s] = row /\ \A t \in Sessions : t # s => sess'[t] = sess[t]
           /\ RowsMove
           /\ TokensUnique'
           /\ Limits'
           /\ \A t \in Sessions : sess'[t].token <= issued'
<1>1. sess \in [Sessions -> Row] /\ issued \in Nat
    BY DEF Inv, TypeOK
<1>2. /\ sess' \in [Sessions -> Row] /\ issued' \in Nat
      /\ sess'[s] = row /\ \A t \in Sessions : t # s => sess'[t] = sess[t]
    BY <1>1
<1>3. \A t \in Sessions : sess[t].token \in Nat /\ sess[t].token <= issued /\ sess[t].limit \in Nat
    BY <1>1, TimeoutAssumption DEF Inv, TokensIssued, Row, Tokens
<1>4. \A t \in Sessions : t # s => sess'[t].token # sess'[s].token
    BY <1>1, <1>2, <1>3
<1>5. TokensUnique'
    <2> SUFFICES ASSUME NEW t \in Sessions, NEW u \in Sessions,
                        Exists(t)', sess'[t].token = sess'[u].token
                 PROVE  t = u
        BY DEF TokensUnique
    <2>1. CASE t = s \/ u = s
        BY <1>4, <2>1
    <2>2. CASE t # s /\ u # s
        BY <1>2, <2>2 DEF Exists, Inv, TokensUnique
    <2> QED
        BY <2>1, <2>2
<1>6. RowsMove
    <2> SUFFICES ASSUME NEW t \in Sessions
                 PROVE  /\ sess'[t].token \in {sess[t].token, issued + 1}
                        /\ Exists(t) => /\ sess[t].revoked => sess'[t].revoked
                                        /\ sess[t].limit <= sess'[t].limit
        BY DEF RowsMove
    <2>1. CASE t = s
        BY <1>2, <2>1, TimeoutAssumption DEF Row
    <2>2. CASE t # s
        BY <1>2, <1>3, <2>2
    <2> QED
        BY <2>1, <2>2
<1>7. Limits' /\ \A t \in Sessions : sess'[t].token <= issued'
    BY <1>1, <1>2, <1>3 DEF Inv, Limits
<1> QED
    BY <1>2, <1>5, <1>6, <1>7

-----------------------------------------------------------------------------
(* Requests.                                                               *)

(* Everything the invariant says of one request.                           *)
RequestOK(r) ==
    /\ req[r].token <= issued /\ req[r].answer <= issued
    /\ \A s \in Sessions :
          req[r].session # NoSession /\ sess[s].token = req[r].token => s = req[r].session
    /\ req[r].at # "idle" => req[r].token # 0
    /\ req[r].at \in {"idle", "sent"} => req[r].session = NoSession
    /\ req[r].at \in {"found", "admitted", "joined", "switching"} => req[r].session # NoSession
    /\ req[r].at \in {"joined", "switching"} => req[r].kind # "logout"
    /\ req[r].at = "switching" => /\ Exists(req[r].session)
                                  /\ req[r].began < sess[req[r].session].limit
    /\ req[r].kind = "logout" /\ req[r].at = "answered" /\ req[r].session # NoSession =>
          \A s \in Sessions : Exists(s) /\ sess[s].token = req[r].token => sess[s].revoked

(* What the invariant says of the rows and the cookies.                    *)
RowsOK ==
    /\ TokensUnique
    /\ Limits
    /\ \A s \in Sessions : sess[s].token <= issued
    /\ \A b \in Browsers : jar[b] <= issued

LEMMA InvParts == Inv <=> TypeOK /\ RowsOK /\ \A r \in Requests : RequestOK(r)
<1>1. Inv => RowsOK
    BY DEF Inv, RowsOK, TokensIssued
<1>2. Inv => \A r \in Requests : RequestOK(r)
    BY DEF Inv, TokensIssued, BoundToSession, Stands, LoggedOutTokenDead, RequestOK
<1>3. ASSUME TypeOK, RowsOK, \A r \in Requests : RequestOK(r)
      PROVE  Inv
    <2>1. TokensIssued /\ TokensUnique /\ Limits
        BY <1>3 DEF RowsOK, RequestOK, TokensIssued
    <2>2. BoundToSession
        BY <1>3 DEF RequestOK, BoundToSession
    <2>3. Stands
        BY <1>3 DEF RequestOK, Stands
    <2>4. LoggedOutTokenDead
        BY <1>3 DEF RequestOK, LoggedOutTokenDead
    <2> QED
        BY <1>3, <2>1, <2>2, <2>3, <2>4 DEF Inv
<1> QED
    BY <1>1, <1>2, <1>3 DEF Inv

LEMMA InvPartsNext ==
    ASSUME TypeOK', RowsOK', \A r \in Requests : RequestOK(r)'
    PROVE  Inv'
<1>1. TokensIssued' /\ TokensUnique' /\ Limits'
    BY DEF RowsOK, RequestOK, TokensIssued
<1>2. BoundToSession'
    BY DEF RequestOK, BoundToSession
<1>3. Stands'
    BY DEF RequestOK, Stands
<1>4. LoggedOutTokenDead'
    BY DEF RequestOK, LoggedOutTokenDead
<1> QED
    BY <1>1, <1>2, <1>3, <1>4 DEF Inv

(* No row comes to carry a token that was issued before.                   *)
LEMMA OldTokens ==
    ASSUME TypeOK, RowsMove, NEW s \in Sessions, NEW t \in Nat, t <= issued, sess'[s].token = t
    PROVE  sess[s].token = t
<1>1. issued \in Nat /\ t # issued + 1
    BY DEF TypeOK
<1> QED
    BY <1>1 DEF RowsMove

(* A request that does not act stays sound.                                *)
LEMMA IdleRequest ==
    ASSUME Inv, RowsMove, sess' \in [Sessions -> Row], issued' \in {issued, issued + 1},
           NEW r \in Requests, req'[r] = req[r]
    PROVE  RequestOK(r)'
<1>1. TypeOK /\ RequestOK(r)
    BY InvParts
<1>2. req[r] \in Request /\ issued \in Nat
    BY <1>1 DEF TypeOK
<1>3. req[r].token \in Nat /\ req[r].answer \in Nat /\ req[r].session \in Sessions \cup {NoSession}
    BY <1>2 DEF Request, Tokens
<1>4. req[r].token <= issued /\ req[r].answer <= issued
    BY <1>1 DEF RequestOK
<1>5. \A s \in Sessions : sess'[s].token = req[r].token => sess[s].token = req[r].token
    BY <1>1, <1>3, <1>4, OldTokens
<1>6. (req[r].token <= issued /\ req[r].answer <= issued)'
    BY <1>2, <1>3, <1>4
<1>7. (req[r].at = "switching" => /\ Exists(req[r].session)
                                  /\ req[r].began < sess[req[r].session].limit)'
    <2> SUFFICES ASSUME req[r].at = "switching"
                 PROVE  /\ sess'[req[r].session].token # 0
                        /\ req[r].began < sess'[req[r].session].limit
        BY DEF Exists
    <2> DEFINE s == req[r].session
    <2>1. s \in Sessions /\ sess[s].token # 0 /\ req[r].began < sess[s].limit
        BY <1>1, <1>3 DEF RequestOK, Exists
    <2>2. sess'[s].token # 0 /\ sess[s].limit <= sess'[s].limit
        BY <1>2, <2>1 DEF RowsMove, Exists
    <2>3. sess[s].limit \in Nat /\ req[r].began \in Nat /\ sess'[s].limit \in Nat
        BY <1>1, <1>2, <2>1, <2>2, TimeoutAssumption DEF TypeOK, Row, Request
    <2> QED
        BY <2>1, <2>2, <2>3
<1>8. (req[r].kind = "logout" /\ req[r].at = "answered" /\ req[r].session # NoSession =>
          \A s \in Sessions : Exists(s) /\ sess[s].token = req[r].token => sess[s].revoked)'
    <2> SUFFICES ASSUME req[r].kind = "logout", req[r].at = "answered", req[r].session # NoSession,
                        NEW s \in Sessions, sess'[s].token # 0, sess'[s].token = req[r].token
                 PROVE  sess'[s].revoked
        BY DEF Exists
    <2>1. sess[s].token = req[r].token /\ sess[s].token # 0
        BY <1>5
    <2> QED
        BY <1>1, <2>1 DEF RequestOK, Exists, RowsMove
<1>9. \A s \in Sessions : (req[r].session # NoSession /\ sess[s].token = req[r].token
                             => s = req[r].session)'
    BY <1>1, <1>5 DEF RequestOK
<1> QED
    BY <1>1, <1>6, <1>7, <1>8, <1>9 DEF RequestOK

(* A request acts: it stays sound if it says so itself.                    *)
LEMMA ActingRequest ==
    ASSUME Inv, RowsMove, RowsOK', sess' \in [Sessions -> Row], issued' \in Nat,
           issued' \in {issued, issued + 1}, now' = now, jar' \in [Browsers -> Tokens \cup {0}],
           NEW r \in Requests, NEW new \in Request, req' = [req EXCEPT ![r] = new],
           RequestOK(r)'
    PROVE  Inv'
<1>1. TypeOK
    BY DEF Inv
<1>2. TypeOK'
    BY <1>1 DEF TypeOK
<1>3. \A q \in Requests : q # r => req'[q] = req[q]
    BY <1>1 DEF TypeOK
<1>4. \A q \in Requests : RequestOK(q)'
    BY <1>3, IdleRequest
<1> QED
    BY <1>2, <1>4, InvPartsNext

-----------------------------------------------------------------------------
(* The steps.                                                              *)

(* Steps of request r that leave the rows and the cookies alone.           *)
LEMMA RowsUntouched ==
    ASSUME Inv, UNCHANGED <<now, sess, issued, jar>>
    PROVE  /\ RowsMove /\ RowsOK' /\ sess' \in [Sessions -> Row] /\ issued' \in Nat
           /\ issued' \in {issued, issued + 1} /\ jar' \in [Browsers -> Tokens \cup {0}]
<1>1. TypeOK /\ RowsOK
    BY InvParts
<1>2. sess \in [Sessions -> Row] /\ issued \in Nat /\ jar \in [Browsers -> Tokens \cup {0}]
    BY <1>1 DEF TypeOK
<1>3. \A s \in Sessions : sess[s].limit <= sess[s].limit
    BY <1>2, TimeoutAssumption DEF Row
<1>4. RowsMove
    BY <1>3 DEF RowsMove
<1>5. RowsOK'
    BY <1>1 DEF RowsOK, TokensUnique, Limits, Exists
<1> QED
    BY <1>2, <1>4, <1>5

(* The fields of a request and of what it may carry.                       *)
LEMMA RequestFields ==
    ASSUME Inv, NEW r \in Requests
    PROVE  /\ req \in [Requests -> Request] /\ req[r] \in Request
           /\ req[r].token \in Nat /\ req[r].answer \in Nat
           /\ req[r].session \in Sessions \cup {NoSession}
           /\ req[r].began \in 0 .. MaxTime /\ req[r].kind \in Kinds /\ req[r].browser \in Browsers
           /\ req[r].csrf \in BOOLEAN
           /\ now \in 0 .. MaxTime
           /\ RequestOK(r)
<1>1. TypeOK /\ RequestOK(r)
    BY InvParts
<1>2. req \in [Requests -> Request] /\ req[r] \in Request /\ now \in 0 .. MaxTime
    BY <1>1 DEF TypeOK
<1> QED
    BY <1>1, <1>2 DEF Request, Tokens

(* A request that only moves on, not to "switching".                       *)
LEMMA RequestMoves ==
    ASSUME Inv, NEW r \in Requests, req[r].at # "idle",
           NEW at \in {"admitted", "joined", "answered", "refused", "done"},
           req' = [req EXCEPT ![r].at = at],
           RowsMove, RowsOK', sess' \in [Sessions -> Row], issued' = issued, now' = now,
           jar' \in [Browsers -> Tokens \cup {0}],
           at \in {"admitted", "joined"} => req[r].session # NoSession,
           at = "joined" => req[r].kind # "logout",
           at = "answered" /\ req[r].kind = "logout" /\ req[r].session # NoSession =>
              \A s \in Sessions : sess'[s].token = req[r].token => sess'[s].revoked
    PROVE  Inv'
<1> DEFINE new == [req[r] EXCEPT !.at = at]
<1> USE RequestFields
<1>1. issued \in Nat /\ TypeOK
    BY DEF Inv, TypeOK
<1>2. /\ new \in Request /\ new.at = at /\ new.kind = req[r].kind /\ new.token = req[r].token
      /\ new.session = req[r].session /\ new.answer = req[r].answer /\ new.began = req[r].began
    BY DEF Request
<1>3. req' = [req EXCEPT ![r] = new] /\ req'[r] = new
    OBVIOUS
<1> HIDE DEF new
<1>4. \A s \in Sessions : sess'[s].token = req[r].token => sess[s].token = req[r].token
    BY <1>1, OldTokens DEF RequestOK
<1>5. RequestOK(r)'
    <2>1. (req[r].token <= issued /\ req[r].answer <= issued)'
        BY <1>2, <1>3 DEF RequestOK
    <2>2. \A s \in Sessions : (req[r].session # NoSession /\ sess[s].token = req[r].token
                                 => s = req[r].session)'
        BY <1>2, <1>3, <1>4 DEF RequestOK
    <2>3. req'[r].at = at /\ req'[r].session = req[r].session /\ req'[r].kind = req[r].kind
          /\ req'[r].token = req[r].token
        BY <1>2, <1>3
    <2>4. req[r].token # 0
        BY DEF RequestOK
    <2> QED
        BY <2>1, <2>2, <2>3, <2>4 DEF RequestOK, Exists
<1> QED
    BY <1>1, <1>2, <1>3, <1>5, ActingRequest

LEMMA SignInKeeps ==
    ASSUME Inv, NEW b \in Browsers, NEW s \in Sessions, SignIn(b, s)
    PROVE  Inv'
<1> DEFINE row == [token |-> issued + 1, born |-> now, last_active |-> now,
                   idle |-> now + IdleTimeout, absolute |-> now + AbsoluteTimeout,
                   limit |-> now + IdleTimeout, revoked |-> FALSE]
<1>1. TypeOK /\ RowsOK
    BY InvParts
<1>2. now \in 0 .. MaxTime /\ issued \in Nat /\ jar \in [Browsers -> Tokens \cup {0}]
    BY <1>1 DEF TypeOK
<1>3. row \in Row /\ row.token = issued + 1 /\ row.idle <= row.limit
    BY <1>2, TimeoutAssumption DEF Row, Tokens
<1>4. /\ ~Exists(s) /\ issued' = issued + 1 /\ sess' = [sess EXCEPT ![s] = row]
      /\ jar' = [jar EXCEPT ![b] = issued + 1] /\ now' = now /\ req' = req
    BY DEF SignIn
<1> HIDE DEF row
<1>5. /\ sess' \in [Sessions -> Row] /\ issued' \in Nat
      /\ RowsMove /\ TokensUnique' /\ Limits'
      /\ \A t \in Sessions : sess'[t].token <= issued'
    BY <1>3, <1>4, NextToken
<1>6. jar' \in [Browsers -> Tokens \cup {0}] /\ \A a \in Browsers : jar'[a] <= issued'
    BY <1>1, <1>2, <1>4 DEF RowsOK, Tokens
<1>7. TypeOK'
    BY <1>1, <1>4, <1>5, <1>6 DEF TypeOK
<1>8. RowsOK'
    BY <1>5, <1>6 DEF RowsOK
<1>9. \A r \in Requests : RequestOK(r)'
    BY <1>4, <1>5, IdleRequest
<1> QED
    BY <1>7, <1>8, <1>9, InvPartsNext

LEMMA UnsentTyped ==
    /\ Unsent \in Request /\ Unsent.at = "idle" /\ Unsent.token = 0 /\ Unsent.answer = 0
    /\ Unsent.session = NoSession /\ Unsent.kind = "view"
<1> DEFINE any == CHOOSE x \in Browsers : TRUE
<1>1. any \in Browsers
    BY TimeoutAssumption
<1>2. Unsent = [at |-> "idle", kind |-> "view", browser |-> any, token |-> 0, csrf |-> FALSE,
                session |-> NoSession, began |-> 0, answer |-> 0]
    BY DEF Unsent
<1> HIDE DEF any
<1> QED
    BY <1>1, <1>2, TimeoutAssumption DEF Request, Kinds

LEMMA SendKeeps ==
    ASSUME Inv, NEW r \in Requests, NEW b \in Browsers, NEW kind \in Kinds, NEW csrf \in BOOLEAN,
           Send(r, b, kind, csrf)
    PROVE  Inv'
<1> DEFINE new == [Unsent EXCEPT !.at = "sent", !.kind = kind, !.browser = b, !.token = jar[b],
                                 !.csrf = csrf]
<1>1. TypeOK /\ RowsOK
    BY InvParts
<1>2. issued \in Nat /\ jar[b] \in Tokens \cup {0} /\ jar[b] # 0 /\ jar[b] <= issued
    BY <1>1 DEF TypeOK, RowsOK, Send
<1>3. /\ new \in Request /\ new.at = "sent" /\ new.token = jar[b] /\ new.answer = 0
      /\ new.session = NoSession
    BY <1>2, UnsentTyped DEF Request
<1>4. req' = [req EXCEPT ![r] = new] /\ UNCHANGED <<now, sess, issued, jar>>
    BY DEF Send
<1> HIDE DEF new
<1>5. req'[r] = new
    BY <1>1, <1>4 DEF TypeOK
<1>6. RequestOK(r)'
    BY <1>2, <1>3, <1>4, <1>5 DEF RequestOK
<1> QED
    BY <1>3, <1>4, <1>6, RowsUntouched, ActingRequest

LEMMA LookupKeeps ==
    ASSUME Inv, NEW r \in Requests, Lookup(r)
    PROVE  Inv'
<1> USE RequestFields
<1> DEFINE live == {s \in WithToken(req[r].token) : Live(s, now)}
<1>1. req[r].at = "sent" /\ req[r].session = NoSession /\ req[r].token # 0
    BY DEF Lookup, RequestOK
<1>2. CASE live # {}
    <2>1. PICK s \in live : req' = [req EXCEPT ![r] = [req[r] EXCEPT !.at = "found",
                                                       !.session = s, !.began = now]]
        BY <1>2 DEF Lookup
    <2> DEFINE new == [req[r] EXCEPT !.at = "found", !.session = s, !.began = now]
    <2>2. s \in Sessions /\ Exists(s) /\ sess[s].token = req[r].token
        BY DEF WithToken
    <2>3. /\ new \in Request /\ new.at = "found" /\ new.session = s /\ new.token = req[r].token
          /\ new.answer = req[r].answer
        BY <2>2 DEF Request
    <2>4. req' = [req EXCEPT ![r] = new] /\ UNCHANGED <<now, sess, issued, jar>>
        BY <2>1 DEF Lookup
    <2> HIDE DEF new
    <2>5. req'[r] = new
        BY <2>4
    <2>6. \A t \in Sessions : sess[t].token = req[r].token => t = s
        BY <2>2, InvParts DEF RowsOK, TokensUnique
    <2>7. s # NoSession
        BY <2>2, TimeoutAssumption
    <2>8. RequestOK(r)'
        BY <1>1, <2>3, <2>4, <2>5, <2>6, <2>7 DEF RequestOK
    <2> QED
        BY <2>3, <2>4, <2>8, RowsUntouched, ActingRequest
<1>3. CASE live = {}
    <2> DEFINE at == IF req[r].kind = "logout" /\ req[r].csrf THEN "answered" ELSE "refused"
    <2>1. req' = [req EXCEPT ![r].at = at] /\ UNCHANGED <<now, sess, issued, jar>>
        BY <1>3 DEF Lookup
    <2>2. at \in {"answered", "refused"}
        OBVIOUS
    <2> HIDE DEF at
    <2> QED
        BY <1>1, <2>1, <2>2, RowsUntouched, RequestMoves
<1> QED
    BY <1>2, <1>3

(* Rows that are refreshed or revoked keep their tokens.                   *)
LEMMA RowsEdited ==
    ASSUME Inv, NEW row \in [Sessions -> Row],
           \A s \in Sessions : /\ row[s].token = sess[s].token
                               /\ row[s].idle <= row[s].limit
                               /\ sess[s].limit <= row[s].limit
                               /\ sess[s].revoked => row[s].revoked,
           sess' = row, UNCHANGED <<now, issued, jar>>
    PROVE  /\ RowsMove /\ RowsOK' /\ sess' \in [Sessions -> Row]
           /\ jar' \in [Browsers -> Tokens \cup {0}]
<1>1. TypeOK /\ RowsOK
    BY InvParts
<1>2. RowsMove /\ TokensUnique' /\ Limits' /\ \A s \in Sessions : sess'[s].token <= issued'
    BY SameTokens
<1>3. RowsOK'
    BY <1>1, <1>2 DEF RowsOK
<1> QED
    BY <1>1, <1>2, <1>3 DEF TypeOK

LEMMA RowFields ==
    ASSUME Inv, NEW s \in Sessions
    PROVE  /\ sess[s] \in Row /\ sess[s].token \in Nat
           /\ sess[s].idle \in Nat /\ sess[s].limit \in Nat /\ sess[s].idle <= sess[s].limit
           /\ sess[s].limit <= sess[s].limit
<1>1. sess[s] \in Row
    BY DEF Inv, TypeOK
<1>2. sess[s].idle <= sess[s].limit
    BY DEF Inv, Limits
<1>3. sess[s].token \in Nat /\ sess[s].idle \in Nat /\ sess[s].limit \in Nat
    BY <1>1, TimeoutAssumption DEF Row, Tokens
<1> QED
    BY <1>1, <1>2, <1>3

LEMMA RevokedRow ==
    ASSUME Inv, NEW s \in Sessions
    PROVE  /\ [sess[s] EXCEPT !.revoked = TRUE] \in Row
           /\ [sess[s] EXCEPT !.revoked = TRUE].token = sess[s].token
           /\ [sess[s] EXCEPT !.revoked = TRUE].idle = sess[s].idle
           /\ [sess[s] EXCEPT !.revoked = TRUE].limit = sess[s].limit
           /\ [sess[s] EXCEPT !.revoked = TRUE].revoked
<1>1. sess[s] \in Row
    BY RowFields
<1> QED
    BY <1>1 DEF Row

LEMMA TouchKeeps ==
    ASSUME Inv, NEW r \in Requests, Touch(r)
    PROVE  Inv'
<1> DEFINE t == req[r].began
           touched == {s \in WithToken(req[r].token) :
                          Live(s, t) /\ sess[s].last_active + TouchThrottle < t}
           row == [s \in Sessions |-> IF s \in touched THEN Refreshed(s, t) ELSE sess[s]]
           at == IF req[r].csrf THEN "admitted" ELSE "refused"
<1>1. /\ req[r].at = "found" /\ sess' = row /\ req' = [req EXCEPT ![r].at = at]
      /\ UNCHANGED <<now, issued, jar>>
    BY DEF Touch
<1>2. t \in 0 .. MaxTime /\ req[r].session # NoSession
    BY <1>1, RequestFields DEF RequestOK
<1>3. at \in {"admitted", "refused"}
    OBVIOUS
<1> HIDE DEF touched, at, t
<1>4. ASSUME NEW s \in Sessions
      PROVE  /\ row[s] \in Row /\ row[s].token = sess[s].token /\ row[s].idle <= row[s].limit
             /\ sess[s].limit <= row[s].limit /\ (sess[s].revoked => row[s].revoked)
    <2>1. CASE s \in touched
        <3>1. row[s] = Refreshed(s, t)
            BY <2>1
        <3>2. TypeOK /\ Limits
            BY DEF Inv
        <3> QED
            BY <1>2, <3>1, <3>2, ExtendedTyped
    <2>2. CASE s \notin touched
        <3>1. row[s] = sess[s]
            BY <2>2
        <3> HIDE DEF row
        <3> QED
            BY <3>1, RowFields
    <2> QED
        BY <2>1, <2>2
<1>5. row \in [Sessions -> Row]
    BY <1>4
<1> HIDE DEF row
<1>6. /\ RowsMove /\ RowsOK' /\ sess' \in [Sessions -> Row]
      /\ jar' \in [Browsers -> Tokens \cup {0}]
    BY <1>1, <1>4, <1>5, RowsEdited
<1> QED
    BY <1>1, <1>2, <1>3, <1>6, RequestMoves

LEMMA ViewKeeps ==
    ASSUME Inv, NEW r \in Requests, View(r)
    PROVE  Inv'
<1>1. /\ req[r].at = "admitted" /\ req[r].kind = "view" /\ req' = [req EXCEPT ![r].at = "answered"]
      /\ UNCHANGED <<now, sess, issued, jar>>
    BY DEF View
<1> QED
    BY <1>1, RowsUntouched, RequestMoves

LEMMA LogoutKeeps ==
    ASSUME Inv, NEW r \in Requests, Logout(r)
    PROVE  Inv'
<1> DEFINE row == [s \in Sessions |-> IF s \in Revoked(r)
                                      THEN [sess[s] EXCEPT !.revoked = TRUE] ELSE sess[s]]
<1>1. /\ req[r].at = "admitted" /\ sess' = row /\ req' = [req EXCEPT ![r].at = "answered"]
      /\ UNCHANGED <<now, issued, jar>>
    BY DEF Logout
<1>2. req[r].token # 0
    BY <1>1, RequestFields DEF RequestOK
<1>3. ASSUME NEW s \in Sessions
      PROVE  /\ row[s] \in Row /\ row[s].token = sess[s].token /\ row[s].idle <= row[s].limit
             /\ sess[s].limit <= row[s].limit /\ (sess[s].revoked => row[s].revoked)
             /\ row[s].token = req[r].token => row[s].revoked
    <2>1. CASE s \in Revoked(r)
        <3>1. row[s] = [sess[s] EXCEPT !.revoked = TRUE]
            BY <2>1
        <3> HIDE DEF row
        <3> QED
            BY <3>1, RowFields, RevokedRow
    <2>2. CASE s \notin Revoked(r)
        <3>1. row[s] = sess[s]
            BY <2>2
        <3>2. sess[s].token # req[r].token
            BY <1>2, <2>2 DEF Revoked, WithToken, Exists
        <3> QED
            BY <3>1, <3>2, RowFields
    <2> QED
        BY <2>1, <2>2
<1>4. row \in [Sessions -> Row]
    BY <1>3
<1> HIDE DEF row
<1>5. /\ RowsMove /\ RowsOK' /\ sess' \in [Sessions -> Row]
      /\ jar' \in [Browsers -> Tokens \cup {0}]
    BY <1>1, <1>3, <1>4, RowsEdited
<1>6. \A s \in Sessions : sess'[s].token = req[r].token => sess'[s].revoked
    BY <1>1, <1>3
<1> QED
    BY <1>1, <1>5, <1>6, RequestMoves

LEMMA RevokeAllKeeps ==
    ASSUME Inv, NEW r \in Requests, RevokeAll(r)
    PROVE  Inv'
<1> DEFINE all == [s \in Sessions |-> IF Exists(s) THEN [sess[s] EXCEPT !.revoked = TRUE]
                                                   ELSE sess[s]]
<1>1. /\ req[r].at = "admitted" /\ req[r].kind = "revoke_all"
      /\ req' = [req EXCEPT ![r].at = "answered"] /\ UNCHANGED <<now, issued, jar>>
    BY DEF RevokeAll
<1>2. sess' \in {all, sess}
    BY DEF RevokeAll
<1>3. ASSUME NEW s \in Sessions
      PROVE  /\ all[s] \in Row /\ all[s].token = sess[s].token /\ all[s].idle <= all[s].limit
             /\ sess[s].limit <= all[s].limit /\ (sess[s].revoked => all[s].revoked)
    <2>1. CASE Exists(s)
        <3>1. all[s] = [sess[s] EXCEPT !.revoked = TRUE]
            BY <2>1
        <3> HIDE DEF all
        <3> QED
            BY <3>1, RowFields, RevokedRow
    <2>2. CASE ~Exists(s)
        <3>1. all[s] = sess[s]
            BY <2>2
        <3> QED
            BY <3>1, RowFields
    <2> QED
        BY <2>1, <2>2
<1>4. all \in [Sessions -> Row]
    BY <1>3
<1> HIDE DEF all
<1>5. /\ RowsMove /\ RowsOK' /\ sess' \in [Sessions -> Row]
      /\ jar' \in [Browsers -> Tokens \cup {0}]
    <2>1. CASE sess' = all
        BY <1>1, <1>3, <1>4, <2>1, RowsEdited
    <2>2. CASE sess' = sess
        BY <1>1, <2>2, RowsUntouched
    <2> QED
        BY <1>2, <2>1, <2>2
<1> QED
    BY <1>1, <1>5, RequestMoves

LEMMA JoinKeeps ==
    ASSUME Inv, NEW r \in Requests, Join(r)
    PROVE  Inv'
<1> DEFINE at == IF \E s \in WithToken(req[r].token) : Live(s, now) THEN "joined" ELSE "refused"
<1>1. /\ req[r].at = "admitted" /\ req[r].kind = "join" /\ req' = [req EXCEPT ![r].at = at]
      /\ UNCHANGED <<now, sess, issued, jar>>
    BY DEF Join
<1>2. at \in {"joined", "refused"}
    OBVIOUS
<1>3. req[r].session # NoSession
    BY <1>1, RequestFields DEF RequestOK
<1> HIDE DEF at
<1> QED
    BY <1>1, <1>2, <1>3, RowsUntouched, RequestMoves

LEMMA SwitchReadKeeps ==
    ASSUME Inv, NEW r \in Requests, SwitchRead(r)
    PROVE  Inv'
<1> USE RequestFields
<1> DEFINE live == {s \in WithToken(req[r].token) : Live(s, now)}
<1>1. /\ req[r].at \in {"admitted", "joined"}
      /\ req[r].at = "admitted" => req[r].kind = "switch"
      /\ UNCHANGED <<now, sess, issued, jar>>
    BY DEF SwitchRead
<1>2. req[r].kind # "logout" /\ req[r].token # 0 /\ req[r].session # NoSession
    BY <1>1 DEF RequestOK
<1>3. CASE live = {}
    <2>1. req' = [req EXCEPT ![r].at = "refused"]
        BY <1>3 DEF SwitchRead
    <2> QED
        BY <1>1, <2>1, RowsUntouched, RequestMoves
<1>4. CASE live # {}
    <2>1. PICK s \in live : req' = [req EXCEPT ![r] = [req[r] EXCEPT !.at = "switching",
                                                       !.session = s, !.began = now]]
        BY <1>4 DEF SwitchRead
    <2> DEFINE new == [req[r] EXCEPT !.at = "switching", !.session = s, !.began = now]
    <2>2. /\ s \in Sessions /\ Exists(s) /\ sess[s].token = req[r].token /\ now < sess[s].idle
        BY DEF WithToken, Live
    <2>3. /\ new \in Request /\ new.at = "switching" /\ new.session = s
          /\ new.token = req[r].token /\ new.answer = req[r].answer /\ new.kind = req[r].kind
          /\ new.began = now
        BY <2>2 DEF Request
    <2>4. req' = [req EXCEPT ![r] = new]
        BY <2>1
    <2> HIDE DEF new
    <2>5. req'[r] = new
        BY <2>4
    <2>6. now < sess[s].limit
        BY <2>2, RowFields, TimeoutAssumption
    <2>7. \A t \in Sessions : sess[t].token = req[r].token => t = s
        BY <2>2, InvParts DEF RowsOK, TokensUnique
    <2>8. s # NoSession
        BY <2>2, TimeoutAssumption
    <2>9. RequestOK(r)'
        BY <1>1, <1>2, <2>2, <2>3, <2>5, <2>6, <2>7, <2>8 DEF RequestOK, Exists
    <2> QED
        BY <1>1, <2>3, <2>4, <2>9, RowsUntouched, ActingRequest
<1> QED
    BY <1>3, <1>4

LEMMA SwitchWriteKeeps ==
    ASSUME Inv, NEW r \in Requests, SwitchWrite(r)
    PROVE  Inv'
<1> USE RequestFields
<1> DEFINE s == req[r].session
           base == Refreshed(s, req[r].began)
           row == [base EXCEPT !.token = issued + 1]
           new == [req[r] EXCEPT !.at = "answered", !.answer = issued + 1]
<1>1. TypeOK /\ RowsOK /\ issued \in Nat
    BY InvParts DEF TypeOK
<1>2. /\ req[r].at = "switching" /\ issued' = issued + 1
      /\ sess' = [sess EXCEPT ![s] = row]
      /\ req' = [req EXCEPT ![r] = new] /\ now' = now /\ jar' = jar
    BY DEF SwitchWrite
<1>3. s \in Sessions /\ Exists(s) /\ req[r].kind # "logout" /\ req[r].token # 0
    BY <1>2 DEF RequestOK
<1>4. /\ base \in Row /\ base.revoked = sess[s].revoked
      /\ base.idle <= base.limit /\ sess[s].limit <= base.limit
    BY <1>1, <1>3, ExtendedTyped DEF Inv
<1> HIDE DEF base
<1>5. /\ row \in Row /\ row.token = issued + 1 /\ row.revoked = base.revoked
      /\ row.idle = base.idle /\ row.limit = base.limit
    BY <1>1, <1>4 DEF Row, Tokens
<1>6. base.limit \in Nat /\ sess[s].limit \in Nat
    BY <1>3, <1>4, RowFields, TimeoutAssumption DEF Row
<1> HIDE DEF row
<1>7. /\ sess' \in [Sessions -> Row] /\ issued' \in Nat
      /\ RowsMove /\ TokensUnique' /\ Limits'
      /\ \A t \in Sessions : sess'[t].token <= issued'
    BY <1>2, <1>3, <1>4, <1>5, <1>6, NextToken
<1>8. /\ jar' \in [Browsers -> Tokens \cup {0}] /\ RowsOK'
    BY <1>1, <1>2, <1>7 DEF TypeOK, RowsOK, Tokens
<1>9. /\ new \in Request /\ new.at = "answered" /\ new.session = s /\ new.token = req[r].token
      /\ new.answer = issued + 1 /\ new.kind = req[r].kind
    <2>1. req[r] \in Request /\ issued + 1 \in Tokens
        BY <1>1 DEF Tokens
    <2> QED
        BY <2>1 DEF Request
<1> HIDE DEF new
<1>10. req'[r] = new
    BY <1>2
<1>11. \A t \in Sessions : sess'[t].token = req[r].token => sess[t].token = req[r].token
    BY <1>1, <1>7, OldTokens DEF RequestOK
<1>12. RequestOK(r)'
    <2>1. (req[r].token <= issued /\ req[r].answer <= issued)'
        BY <1>1, <1>2, <1>9, <1>10 DEF RequestOK
    <2>2. \A t \in Sessions : (req[r].session # NoSession /\ sess[t].token = req[r].token
                                 => t = req[r].session)'
        BY <1>9, <1>10, <1>11 DEF RequestOK
    <2> QED
        BY <1>3, <1>9, <1>10, <2>1, <2>2 DEF RequestOK
<1> QED
    BY <1>2, <1>7, <1>8, <1>9, <1>12, ActingRequest

LEMMA ReceiveKeeps ==
    ASSUME Inv, NEW r \in Requests, Receive(r)
    PROVE  Inv'
<1>1. TypeOK /\ RowsOK /\ issued \in Nat
    BY InvParts DEF TypeOK
<1>2. /\ req[r].at = "answered" /\ req' = [req EXCEPT ![r].at = "done"]
      /\ UNCHANGED <<now, sess, issued>>
      /\ jar' = jar \/ jar' = [jar EXCEPT ![req[r].browser] = req[r].answer]
    BY DEF Receive
<1>3. req[r].answer \in Tokens \cup {0} /\ req[r].answer <= issued /\ req[r].browser \in Browsers
    BY RequestFields DEF RequestOK, Request
<1>4. jar' \in [Browsers -> Tokens \cup {0}] /\ \A b \in Browsers : jar'[b] <= issued'
    BY <1>1, <1>2, <1>3 DEF TypeOK, RowsOK
<1>5. /\ RowsMove /\ TokensUnique' /\ Limits' /\ \A s \in Sessions : sess'[s].token <= issued'
      /\ sess' \in [Sessions -> Row]
    <2>1. sess \in [Sessions -> Row]
        BY <1>1 DEF TypeOK
    <2> QED
        BY <1>2, <2>1, RowFields, SameTokens
<1>6. RowsOK'
    BY <1>4, <1>5 DEF RowsOK
<1> QED
    BY <1>2, <1>4, <1>5, <1>6, RequestMoves

LEMMA LoseKeeps ==
    ASSUME Inv, NEW r \in Requests, Lose(r)
    PROVE  Inv'
<1>1. /\ req[r].at # "idle" /\ req' = [req EXCEPT ![r].at = "done"]
      /\ UNCHANGED <<now, sess, issued, jar>>
    BY DEF Lose
<1> QED
    BY <1>1, RowsUntouched, RequestMoves

LEMMA UntouchedKeeps ==
    ASSUME Inv, UNCHANGED <<sess, issued, jar, req>>, now' \in 0 .. MaxTime
    PROVE  Inv'
<1>1. TypeOK'
    BY DEF Inv, TypeOK
<1>2. TokensIssued' /\ TokensUnique' /\ Limits' /\ BoundToSession' /\ Stands' /\ LoggedOutTokenDead'
    BY DEF Inv, TokensIssued, TokensUnique, Limits, BoundToSession, Stands, LoggedOutTokenDead, Exists
<1> QED
    BY <1>1, <1>2 DEF Inv

-----------------------------------------------------------------------------
(* The inductive invariant and what follows from it.                       *)

LEMMA InitInv == Init => Inv
<1> SUFFICES ASSUME Init PROVE Inv
    OBVIOUS
<1> USE TimeoutAssumption, UnsentTyped
<1>1. NoRow \in Row /\ NoRow.token = 0 /\ NoRow.idle = 0 /\ NoRow.limit = 0
    BY DEF NoRow, Row
<1>2. \A s \in Sessions : sess[s] = NoRow
    BY DEF Init
<1>3. \A r \in Requests : req[r] = Unsent
    BY DEF Init
<1>4. TypeOK
    BY <1>1 DEF Init, TypeOK
<1>5. RowsOK
    BY <1>1, <1>2 DEF Init, RowsOK, TokensUnique, Limits, Exists
<1>6. \A r \in Requests : RequestOK(r)
    BY <1>3 DEF Init, RequestOK
<1> QED
    BY <1>4, <1>5, <1>6, InvParts

LEMMA NextInv == Inv /\ [Next]_vars => Inv'
<1> SUFFICES ASSUME Inv, [Next]_vars PROVE Inv'
    OBVIOUS
<1>1. CASE \E b \in Browsers, s \in Sessions : SignIn(b, s)
    BY <1>1, SignInKeeps
<1>2. CASE \E r \in Requests, b \in Browsers, kind \in Kinds, csrf \in BOOLEAN :
              Send(r, b, kind, csrf)
    BY <1>2, SendKeeps
<1>3. CASE \E r \in Requests : Serve(r)
    BY <1>3, LookupKeeps, TouchKeeps, ViewKeeps, LogoutKeeps, RevokeAllKeeps, JoinKeeps,
       SwitchReadKeeps, SwitchWriteKeeps DEF Serve
<1>4. CASE \E r \in Requests : Receive(r) \/ Lose(r)
    BY <1>4, ReceiveKeeps, LoseKeeps
<1>5. CASE Tick
    <2>1. now' \in 0 .. MaxTime
        BY <1>5, TimeoutAssumption DEF Tick, Inv, TypeOK
    <2> QED
        BY <1>5, <2>1, UntouchedKeeps DEF Tick
<1>6. CASE UNCHANGED vars
    <2>1. now' \in 0 .. MaxTime
        BY <1>6 DEF vars, Inv, TypeOK
    <2> QED
        BY <1>6, <2>1, UntouchedKeeps DEF vars
<1> QED
    BY <1>1, <1>2, <1>3, <1>4, <1>5, <1>6 DEF Next

LEMMA InvHolds == Spec => []Inv
BY InitInv, NextInv, PTL DEF Spec

(* The token of an admitted logout is accepted by nobody from its answer   *)
(* on, also when a switch was rotating it at the same time                 *)
(* (auth_logout, fn_auth_switch_organisation).                             *)
THEOREM LogoutIsFinal == Spec => []LoggedOutTokenDead
<1>1. Inv => LoggedOutTokenDead
    BY DEF Inv
<1> QED
    BY <1>1, InvHolds, PTL

(* No step brings a session that has ended back, but the two that write a  *)
(* row after reading it: Touch and SwitchWrite.                            *)
EndedStep ==
    \A s \in Sessions : Exists(s) /\ ~Serving(s) /\ Serving(s)' =>
       /\ ~sess[s].revoked
       /\ \E r \in Requests : /\ req[r].at \in {"found", "switching"}
                              /\ req[r].session = s
                              /\ req[r].began < sess[s].limit

LEMMA EndedStepHolds == Inv /\ [Next]_vars => EndedStep
<1> SUFFICES ASSUME Inv, [Next]_vars, NEW s \in Sessions,
                    Exists(s), ~Serving(s), Serving(s)'
             PROVE  /\ ~sess[s].revoked
                    /\ \E r \in Requests : /\ req[r].at \in {"found", "switching"}
                                           /\ req[r].session = s
                                           /\ req[r].began < sess[s].limit
    BY DEF EndedStep
<1>1. TypeOK /\ sess \in [Sessions -> Row] /\ now \in Nat
    BY TimeoutAssumption DEF Inv, TypeOK
<1>2. /\ sess[s].token # 0 /\ (sess[s].revoked \/ ~(now < sess[s].idle))
      /\ ~sess'[s].revoked /\ now' < sess'[s].idle
    BY DEF Serving, Exists
<1>3. ASSUME sess'[s].idle = sess[s].idle, sess'[s].revoked = sess[s].revoked, now' = now
      PROVE  FALSE
    BY <1>2, <1>3
<1>4. ASSUME sess' = sess, now' = now
      PROVE  FALSE
    BY <1>3, <1>4
<1>5. ASSUME NEW b \in Browsers, NEW t \in Sessions, SignIn(b, t)
      PROVE  FALSE
    <2>1. t # s
        BY <1>5 DEF SignIn
    <2>2. sess'[s] = sess[s] /\ now' = now
        BY <1>1, <1>5, <2>1 DEF SignIn
    <2> QED
        BY <1>3, <2>2
<1>6. ASSUME NEW r \in Requests, Touch(r)
      PROVE  ~sess[s].revoked /\ req[r].at = "found" /\ req[r].session = s
             /\ req[r].began < sess[s].limit
    <2> DEFINE t == req[r].began
               touched == {x \in WithToken(req[r].token) :
                              Live(x, t) /\ sess[x].last_active + TouchThrottle < t}
    <2>1. /\ req[r].at = "found" /\ now' = now
          /\ sess'[s] = IF s \in touched THEN Refreshed(s, t) ELSE sess[s]
        BY <1>6 DEF Touch
    <2>2. s \in touched
        BY <1>3, <2>1
    <2>3. ~sess[s].revoked /\ t < sess[s].idle /\ sess[s].token = req[r].token
        BY <2>2 DEF WithToken, Live
    <2>4. req[r].session # NoSession
        BY <2>1, RequestFields DEF RequestOK
    <2>5. req[r].session = s
        BY <2>3, <2>4, RequestFields DEF RequestOK
    <2>6. t < sess[s].limit
        BY <2>3, RequestFields, RowFields, TimeoutAssumption
    <2> QED
        BY <2>1, <2>3, <2>5, <2>6
<1>7. ASSUME NEW r \in Requests, SwitchWrite(r)
      PROVE  ~sess[s].revoked /\ req[r].at = "switching" /\ req[r].session = s
             /\ req[r].began < sess[s].limit
    <2> DEFINE x == req[r].session
               base == Refreshed(x, req[r].began)
               row == [base EXCEPT !.token = issued + 1]
    <2>1. /\ req[r].at = "switching" /\ now' = now /\ sess' = [sess EXCEPT ![x] = row]
        BY <1>7 DEF SwitchWrite
    <2>2. x \in Sessions /\ req[r].began < sess[x].limit
        BY <2>1, RequestFields DEF RequestOK
    <2>3. base \in Row /\ base.revoked = sess[x].revoked
        BY <1>1, <2>2, RequestFields, ExtendedTyped DEF Inv
    <2> HIDE DEF base
    <2>4. row.revoked = base.revoked
        BY <2>3 DEF Row
    <2> HIDE DEF row
    <2>5. x = s
        <3>1. x # s => sess'[s] = sess[s]
            BY <1>1, <2>1
        <3> QED
            BY <1>3, <2>1, <3>1
    <2>6. sess'[s] = row
        BY <1>1, <2>1, <2>2, <2>5
    <2> QED
        BY <1>2, <2>1, <2>2, <2>3, <2>4, <2>5, <2>6
<1>8. ASSUME NEW r \in Requests, Logout(r)
      PROVE  FALSE
    <2>1. sess'[s] \in {[sess[s] EXCEPT !.revoked = TRUE], sess[s]} /\ now' = now
        BY <1>8 DEF Logout
    <2>2. sess'[s] = sess[s]
        BY <1>2, <2>1, RevokedRow
    <2> QED
        BY <1>3, <2>1, <2>2
<1>9. ASSUME NEW r \in Requests, RevokeAll(r)
      PROVE  FALSE
    <2>1. sess'[s] \in {[sess[s] EXCEPT !.revoked = TRUE], sess[s]} /\ now' = now
        BY <1>9 DEF RevokeAll
    <2>2. sess'[s] = sess[s]
        BY <1>2, <2>1, RevokedRow
    <2> QED
        BY <1>3, <2>1, <2>2
<1>10. ASSUME NEW r \in Requests,
              \/ \E b \in Browsers, kind \in Kinds, csrf \in BOOLEAN : Send(r, b, kind, csrf)
              \/ Lookup(r) \/ View(r) \/ Join(r) \/ SwitchRead(r) \/ Receive(r) \/ Lose(r)
       PROVE  FALSE
    BY <1>4, <1>10 DEF Send, Lookup, View, Join, SwitchRead, Receive, Lose
<1>11. ASSUME Tick
       PROVE  FALSE
    <2>1. sess' = sess /\ now' = now + 1 /\ sess[s].idle \in Nat
        BY <1>11, RowFields DEF Tick
    <2> QED
        BY <1>1, <1>2, <2>1
<1>12. ASSUME UNCHANGED vars
       PROVE  FALSE
    BY <1>4, <1>12 DEF vars
<1> QED
    BY <1>5, <1>6, <1>7, <1>8, <1>9, <1>10, <1>11, <1>12 DEF Next, Serve

(* A session that has ended serves again only when a transaction that      *)
(* began before it had timed out writes late, and never after a revocation *)
(* (fn_auth_touch_session_throttled, fn_auth_switch_organisation).         *)
THEOREM EndedSessionsStayEnded == Spec => EndedStaysEnded
<1>1. Inv /\ [Next]_vars => [EndedStep]_vars
    BY EndedStepHolds
<1>2. Spec => [][EndedStep]_vars
    BY <1>1, InvHolds, PTL DEF Spec
<1> QED
    BY <1>2 DEF EndedStaysEnded, EndedStep
=============================================================================
