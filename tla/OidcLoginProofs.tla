--------------------------- MODULE OidcLoginProofs ---------------------------
(***************************************************************************)
(* Theorems about OidcLogin for any number of browsers, flows, callbacks,  *)
(* subjects and accounts, and any lifetime and retention.                  *)
(***************************************************************************)
EXTENDS OidcLogin, TLAPS

\* The cookie of a browser names a flow that this browser began.
Jars ==
    \A b \in Browsers : jar[b] # NoState =>
        flow[jar[b]].status # "none" /\ flow[jar[b]].browser = b

\* What the provider has granted names a subject and an email.
Grants ==
    \A st \in States : grant[st] # NoGrant =>
        grant[st].subject \in Subjects /\ grant[st].email \in Emails

\* Places before an account is named.
Unresolved == {"begun", "consumed", "exchanged", "verified", "inserting"}

\* A callback was sent by the browser of its flow, with a code that was issued; past
\* the verification it is the code of the flow itself.  Only a
\* callback that inserts an account is marked to have one that is new.
Callers ==
    \A c \in Callbacks : cb[c].at # "idle" =>
        /\ cb[c].state \in States /\ cb[c].code \in States
        /\ grant[cb[c].code] # NoGrant
        /\ flow[cb[c].state].status # "none"
        /\ cb[c].browser = flow[cb[c].state].browser
        /\ cb[c].at \in {"verified", "inserting", "resolved", "committed", "signed_in"} =>
              cb[c].code = cb[c].state
        /\ cb[c].at \in Unresolved => ~cb[c].new

\* An open transaction holds a flow that is still pending, alone.
RowLocks ==
    \A c \in Callbacks : cb[c].at \in Holding =>
        /\ flow[cb[c].state].status = "pending"
        /\ \A d \in Callbacks \ {c} : cb[d].at \in Holding => cb[d].state # cb[c].state

\* Accounts have an email.
Accounts == \A p \in Principals : principal[p] # NoPrincipal => principal[p].email \in Emails

\* A resolved callback has found its identity, or has inserted one that no committed row
\* and no other open transaction has.
Resolutions ==
    \A c \in Callbacks : cb[c].at = "resolved" =>
        /\ cb[c].principal \in Principals
        /\ ~cb[c].new => <<Subject(c), cb[c].principal>> \in federated
        /\ cb[c].new => /\ \A q \in Principals : <<Subject(c), q>> \notin federated
                        /\ \A d \in Callbacks \ {c} :
                              cb[d].at = "resolved" /\ cb[d].new => Subject(d) # Subject(c)

Inv == /\ TypeOK /\ Jars /\ Grants /\ Callers /\ RowLocks /\ Accounts /\ Resolutions
       /\ FlowSignsInOnce /\ SessionForItsBrowser /\ OneAccountPerSubject
\* Initially there is no flow, no callback and no account.
LEMMA InitInv == Init => Inv
  <1> SUFFICES ASSUME Init
               PROVE  Inv
    OBVIOUS
  <1> USE LoginAssumption DEF Init, NoFlow, NoGrant, NoPrincipal, Waiting, Holding, Ended, Places,
        CallbackRow
  <1>1. TypeOK
    BY DEF TypeOK
  <1>2. Jars /\ Grants /\ Callers /\ RowLocks /\ Accounts /\ Resolutions
    BY DEF Jars, Grants, Callers, RowLocks, Accounts, Resolutions
  <1>3. FlowSignsInOnce /\ SessionForItsBrowser /\ OneAccountPerSubject
    BY DEF FlowSignsInOnce, Resolved, SessionForItsBrowser, OneAccountPerSubject
  <1> QED
    BY <1>1, <1>2, <1>3 DEF Inv

\* A callback past its verification speaks for a subject and an email of the provider.
LEMMA SubjectKnown ==
    ASSUME Inv, NEW c \in Callbacks, cb[c].at # "idle"
    PROVE  Subject(c) \in Subjects /\ Email(c) \in Emails
  BY DEF Inv, Callers, Grants, Subject, Email

\* Callback c moves to l, and may be given an account; no other callback changes.
MovesTo(c, l, p, new) ==
    /\ cb' \in [Callbacks -> CallbackRow]
    /\ \A d \in Callbacks : d # c => cb'[d] = cb[d]
    /\ cb'[c].at = l /\ cb'[c].principal = p /\ cb'[c].new = new
    /\ cb'[c].browser = cb[c].browser /\ cb'[c].state = cb[c].state /\ cb'[c].code = cb[c].code

\* A row that differs in those columns only is such a move.
LEMMA RowMoves ==
    ASSUME TypeOK, NEW c \in Callbacks, NEW row \in CallbackRow,
           cb' = [cb EXCEPT ![c] = row],
           row.browser = cb[c].browser, row.state = cb[c].state, row.code = cb[c].code
    PROVE  MovesTo(c, row.at, row.principal, row.new)
  BY DEF TypeOK, MovesTo

\* Goto leaves the account of the callback alone.
LEMMA GotoMoves ==
    ASSUME TypeOK, NEW c \in Callbacks, NEW l \in Places, Goto(c, l)
    PROVE  MovesTo(c, l, cb[c].principal, cb[c].new)
  <1>1. cb[c] \in CallbackRow
    BY DEF TypeOK
  <1> DEFINE row == [cb[c] EXCEPT !.at = l]
  <1>2. /\ row \in CallbackRow
        /\ row.at = l /\ row.principal = cb[c].principal /\ row.new = cb[c].new
        /\ row.browser = cb[c].browser /\ row.state = cb[c].state /\ row.code = cb[c].code
    BY <1>1 DEF CallbackRow
  <1>3. cb' = [cb EXCEPT ![c] = row]
    BY DEF TypeOK, Goto
  <1> HIDE DEF row
  <1> QED
    BY <1>2, <1>3, RowMoves

\* The update that names the account of a known identity.
LEMMA ResolveMoves ==
    ASSUME TypeOK, NEW c \in Callbacks, NEW l \in Places, NEW p \in Principals \cup {NoOne},
           cb' = [cb EXCEPT ![c] = [cb[c] EXCEPT !.at = l, !.principal = p]]
    PROVE  MovesTo(c, l, p, cb[c].new)
  <1>1. cb[c] \in CallbackRow
    BY DEF TypeOK
  <1> DEFINE row == [cb[c] EXCEPT !.at = l, !.principal = p]
  <1>2. /\ row \in CallbackRow
        /\ row.at = l /\ row.principal = p /\ row.new = cb[c].new
        /\ row.browser = cb[c].browser /\ row.state = cb[c].state /\ row.code = cb[c].code
    BY <1>1 DEF CallbackRow
  <1>3. cb' = [cb EXCEPT ![c] = row]
    OBVIOUS
  <1> HIDE DEF row
  <1> QED
    BY <1>2, <1>3, RowMoves

\* The update that names a new account.
LEMMA InsertMoves ==
    ASSUME TypeOK, NEW c \in Callbacks, NEW p \in Principals,
           cb' = [cb EXCEPT ![c] = [cb[c] EXCEPT !.at = "resolved", !.principal = p, !.new = TRUE]]
    PROVE  MovesTo(c, "resolved", p, TRUE)
  <1>1. cb[c] \in CallbackRow
    BY DEF TypeOK
  <1> DEFINE row == [cb[c] EXCEPT !.at = "resolved", !.principal = p, !.new = TRUE]
  <1>2. /\ row \in CallbackRow
        /\ row.at = "resolved" /\ row.principal = p /\ row.new = TRUE
        /\ row.browser = cb[c].browser /\ row.state = cb[c].state /\ row.code = cb[c].code
    BY <1>1 DEF CallbackRow, Places, Holding
  <1>3. cb' = [cb EXCEPT ![c] = row]
    OBVIOUS
  <1> HIDE DEF row
  <1> QED
    BY <1>2, <1>3, RowMoves

\* A callback that commits nothing keeps every part of the invariant, provided that it
\* has verified its code, holds its row alone, or has found or inserted its identity,
\* where its new place claims so.
LEMMA MoveKeeps ==
    ASSUME Inv, NEW c \in Callbacks, cb[c].at # "idle", NEW l \in Places \ {"idle", "committed"},
           NEW p \in Principals \cup {NoOne}, NEW new \in BOOLEAN, MovesTo(c, l, p, new),
           UNCHANGED <<flow, grant, principal, federated>>,
           l \in {"verified", "inserting", "resolved", "signed_in"} => cb[c].code = cb[c].state,
           l \in Unresolved => ~new,
           l \in Holding =>
              /\ flow[cb[c].state].status = "pending"
              /\ \A d \in Callbacks \ {c} : cb[d].at \in Holding => cb[d].state # cb[c].state,
           l = "resolved" =>
              /\ p \in Principals
              /\ ~new => <<Subject(c), p>> \in federated
              /\ new => /\ \A q \in Principals : <<Subject(c), q>> \notin federated
                        /\ \A d \in Callbacks \ {c} :
                              cb[d].at = "resolved" /\ cb[d].new => Subject(d) # Subject(c),
           l = "signed_in" => cb[c].at = "committed" /\ p = cb[c].principal
    PROVE  /\ Grants' /\ Callers' /\ RowLocks' /\ Accounts' /\ Resolutions'
           /\ FlowSignsInOnce' /\ SessionForItsBrowser' /\ OneAccountPerSubject'
  <1> USE DEF Inv, MovesTo
  <1>0. \A d \in Callbacks : Subject(d)' = Subject(d)
    BY DEF Subject
  <1>1. Grants' /\ Accounts' /\ OneAccountPerSubject'
    BY DEF Grants, Accounts, OneAccountPerSubject
  <1>2. Callers'
    BY DEF Callers
  <1>3. RowLocks'
    BY DEF RowLocks
  <1>4. Resolutions'
    BY <1>0 DEF Resolutions
  <1>5. FlowSignsInOnce'
    BY DEF FlowSignsInOnce, Resolved
  <1>6. SessionForItsBrowser'
    BY DEF SessionForItsBrowser, Callers
  <1> QED
    BY <1>1, <1>2, <1>3, <1>4, <1>5, <1>6

\* The row of the flow as a committing callback leaves it; the other flows are as before.
LEMMA FlowConsumed ==
    ASSUME TypeOK, NEW st \in States, flow' = [flow EXCEPT ![st].status = "consumed"]
    PROVE  /\ flow' \in [States -> [status  : {"none", "pending", "consumed", "purged"},
                                    created : 0 .. MaxTime,
                                    browser : Browsers \cup {NoBrowser}]]
           /\ flow'[st].status = "consumed"
           /\ \A x \in States : flow'[x].browser = flow[x].browser
           /\ \A x \in States : x # st => flow'[x] = flow[x]
           /\ \A x \in States : flow[x].status # "none" => flow'[x].status # "none"
           /\ \A x \in States : flow[x].status \in {"consumed", "purged"} =>
                               flow'[x].status \in {"consumed", "purged"}
  BY DEF TypeOK

\* One account is written.
LEMMA AccountWritten ==
    ASSUME TypeOK, NEW p \in Principals, NEW row \in [email : Emails \cup {NoEmail}, active : BOOLEAN],
           principal' = [principal EXCEPT ![p] = row]
    PROVE  principal' \in [Principals -> [email : Emails \cup {NoEmail}, active : BOOLEAN]]
  BY DEF TypeOK

\* A failure that is recorded commits the consumption of the flow and nothing else.
LEMMA FailAndCommitKeeps ==
    ASSUME Inv, NEW c \in Callbacks, cb[c].at \in Holding, FailAndCommit(c)
    PROVE  Inv'
  <1>0. TypeOK /\ cb[c].state \in States /\ cb[c].at # "idle"
    BY DEF Inv, Callers, Holding
  <1>1. MovesTo(c, "failed", cb[c].principal, cb[c].new)
    BY <1>0, GotoMoves DEF FailAndCommit, Places, Ended
  <1>2. /\ flow' \in [States -> [status  : {"none", "pending", "consumed", "purged"},
                                 created : 0 .. MaxTime,
                                 browser : Browsers \cup {NoBrowser}]]
        /\ flow'[cb[c].state].status = "consumed"
        /\ \A x \in States : flow'[x].browser = flow[x].browser
        /\ \A x \in States : x # cb[c].state => flow'[x] = flow[x]
        /\ \A x \in States : flow[x].status # "none" => flow'[x].status # "none"
        /\ \A x \in States : flow[x].status \in {"consumed", "purged"} =>
                            flow'[x].status \in {"consumed", "purged"}
    BY <1>0, FlowConsumed DEF FailAndCommit
  <1>3. UNCHANGED <<now, jar, grant, principal, federated>>
    BY DEF FailAndCommit
  <1>4. \A d \in Callbacks : Subject(d)' = Subject(d)
    BY <1>1, <1>3 DEF Subject, MovesTo
  <1> USE DEF Inv, MovesTo
  <1>5. TypeOK'
    BY <1>1, <1>2, <1>3 DEF TypeOK
  <1>6. Jars' /\ Grants' /\ Accounts' /\ OneAccountPerSubject'
    BY ZenonT(60), <1>2, <1>3 DEF TypeOK, Jars, Grants, Accounts, OneAccountPerSubject
  <1>7. Callers'
    BY <1>0, <1>1, <1>2, <1>3 DEF Callers, Unresolved
  <1>8. RowLocks'
    BY <1>0, <1>1, <1>2 DEF RowLocks, Callers, Holding
  <1>9. Resolutions'
    BY <1>1, <1>3, <1>4 DEF Resolutions
  <1>10. FlowSignsInOnce'
    <2>1. \A d \in Callbacks : Resolved(d)' => d # c /\ Resolved(d) /\ cb'[d] = cb[d]
      BY <1>1 DEF Resolved
    <2>2. \A d \in Callbacks : Resolved(d) => cb[d].state \in States
      BY DEF Resolved, Callers
    <2> QED
      BY <1>2, <1>3, <2>1, <2>2 DEF FlowSignsInOnce
  <1>11. SessionForItsBrowser'
    BY <1>1, <1>2 DEF SessionForItsBrowser, Callers
  <1> QED
    BY <1>5, <1>6, <1>7, <1>8, <1>9, <1>10, <1>11

\* The commit of a success: the flow is consumed, and a new identity becomes visible that
\* nobody has.
LEMMA CommitKeeps ==
    ASSUME Inv, NEW c \in Callbacks, Commit(c)
    PROVE  Inv'
  <1> DEFINE p == cb[c].principal
  <1>0. /\ TypeOK /\ cb[c].state \in States /\ cb[c].at = "resolved" /\ p \in Principals
        /\ cb[c].code = cb[c].state /\ cb[c].at \in Holding
    BY DEF Inv, Callers, Resolutions, Commit, Holding
  <1>1. MovesTo(c, "committed", p, cb[c].new)
    BY <1>0, GotoMoves DEF Commit, Places
  <1>2. /\ flow' \in [States -> [status  : {"none", "pending", "consumed", "purged"},
                                 created : 0 .. MaxTime,
                                 browser : Browsers \cup {NoBrowser}]]
        /\ flow'[cb[c].state].status = "consumed"
        /\ \A x \in States : flow'[x].browser = flow[x].browser
        /\ \A x \in States : x # cb[c].state => flow'[x] = flow[x]
        /\ \A x \in States : flow[x].status # "none" => flow'[x].status # "none"
        /\ \A x \in States : flow[x].status \in {"consumed", "purged"} =>
                            flow'[x].status \in {"consumed", "purged"}
    BY <1>0, FlowConsumed DEF Commit
  <1>3. UNCHANGED <<now, jar, grant>>
    BY DEF Commit
  <1>4. \A d \in Callbacks : Subject(d)' = Subject(d)
    BY <1>1, <1>3 DEF Subject, MovesTo
  <1>5. Subject(c) \in Subjects /\ Email(c) \in Emails
    BY <1>0, SubjectKnown
  <1>6. Subject(c) = grant[cb[c].state].subject
    BY <1>0 DEF Subject
  <1>7. /\ federated \subseteq federated' /\ federated' \subseteq federated \cup {<<Subject(c), p>>}
        /\ <<Subject(c), p>> \in federated'
    BY <1>0 DEF Commit, Inv, Resolutions
  <1>8. principal' \in [Principals -> [email : Emails \cup {NoEmail}, active : BOOLEAN]]
    <2>1. CASE cb[c].new
      <3>1. [email |-> Email(c), active |-> TRUE] \in [email : Emails \cup {NoEmail}, active : BOOLEAN]
        BY <1>5
      <3>2. principal' = [principal EXCEPT ![p] = [email |-> Email(c), active |-> TRUE]]
        BY <2>1 DEF Commit
      <3> QED
        BY <1>0, <3>1, <3>2, AccountWritten
    <2>2. CASE ~cb[c].new
      BY <1>0, <2>2 DEF Commit, TypeOK
    <2> QED
      BY <2>1, <2>2
  <1>9. /\ \A q \in Principals : q # p => principal'[q] = principal[q]
        /\ cb[c].new => principal'[p] = [email |-> Email(c), active |-> TRUE]
        /\ ~cb[c].new => principal' = principal /\ federated' = federated
    BY <1>0 DEF Commit, TypeOK
  <1> USE DEF Inv, MovesTo
  <1>10. TypeOK'
    BY <1>0, <1>1, <1>2, <1>3, <1>5, <1>7, <1>8 DEF TypeOK
  <1>11. Jars' /\ Grants'
    BY <1>2, <1>3 DEF TypeOK, Jars, Grants
  <1>12. Callers'
    BY <1>0, <1>1, <1>2, <1>3 DEF Callers, Unresolved
  <1>13. RowLocks'
    BY <1>0, <1>1, <1>2 DEF RowLocks, Callers, Holding
  <1>14. Accounts'
    BY <1>5, <1>9 DEF Accounts
  <1>15. Resolutions'
    BY <1>0, <1>1, <1>4, <1>7, <1>9 DEF Resolutions
  <1>16. FlowSignsInOnce'
    <2> SUFFICES ASSUME NEW d \in Callbacks, Resolved(d)'
                 PROVE  /\ <<grant[cb'[d].state].subject, cb'[d].principal>> \in federated'
                        /\ flow'[cb'[d].state].status \in {"consumed", "purged"}
                        /\ \A e \in Callbacks \ {d} : Resolved(e)' => cb'[e].state # cb'[d].state
      BY <1>3 DEF FlowSignsInOnce
    <2>1. \A e \in Callbacks \ {c} : Resolved(e)' = Resolved(e) /\ cb'[e] = cb[e]
      BY <1>1 DEF Resolved
    <2>2. \A e \in Callbacks : Resolved(e) => cb[e].state # cb[c].state
      BY <1>0 DEF FlowSignsInOnce, RowLocks
    <2>3. CASE d = c
      BY <2>1, <2>2, <2>3, <1>1, <1>2, <1>6, <1>7
    <2>4. CASE d # c
      <3>1. Resolved(d) /\ cb'[d] = cb[d] /\ cb[d].state \in States
        BY <2>1, <2>4 DEF Callers, Resolved
      <3> QED
        BY <2>1, <2>2, <2>4, <3>1, <1>1, <1>2, <1>7 DEF FlowSignsInOnce
    <2> QED
      BY <2>3, <2>4
  <1>17. SessionForItsBrowser'
    BY <1>0, <1>1, <1>2 DEF SessionForItsBrowser, Callers
  <1>18. OneAccountPerSubject'
    <2>1. CASE ~cb[c].new
      BY <1>9, <2>1 DEF OneAccountPerSubject
    <2>2. CASE cb[c].new
      <3>1. \A q \in Principals : <<Subject(c), q>> \notin federated
        BY <1>0, <2>2 DEF Resolutions
      <3>2. principal'[p] # NoPrincipal
        BY <1>9, <2>2 DEF NoPrincipal
      <3>3. \A u \in Subjects, q \in Principals :
               <<u, q>> \in federated' <=> <<u, q>> \in federated \/ (u = Subject(c) /\ q = p)
        BY <1>7
      <3>4. \A u \in Subjects, x, y \in Principals :
               <<u, x>> \in federated' /\ <<u, y>> \in federated' => x = y
        BY <3>1, <3>3 DEF OneAccountPerSubject
      <3>5. \A q \in Principals : principal'[q] # NoPrincipal <=>
                                  \E u \in Subjects : <<u, q>> \in federated'
        BY <3>2, <3>3, <1>5, <1>9 DEF OneAccountPerSubject
      <3> QED
        BY <3>4, <3>5 DEF OneAccountPerSubject, NoPrincipal
    <2> QED
      BY <2>1, <2>2
  <1> QED
    BY <1>10, <1>11, <1>12, <1>13, <1>14, <1>15, <1>16, <1>17, <1>18

\* The flow of a new login is no callback's.
LEMMA LoginKeeps ==
    ASSUME Inv, NEW b \in Browsers, NEW st \in States, Login(b, st)
    PROVE  Inv'
  <1> USE DEF Inv, Login
  <1>1. TypeOK'
    BY LoginAssumption DEF TypeOK
  <1>2. \A c \in Callbacks : cb[c].at # "idle" => cb[c].state # st /\ cb[c].state \in States
    BY DEF Callers
  <1>3. \A x \in States : x # st => flow'[x] = flow[x]
    BY DEF TypeOK
  <1>4. flow'[st].status = "pending" /\ flow'[st].browser = b
    BY DEF TypeOK
  <1>5. Jars'
    BY <1>3, <1>4 DEF TypeOK, Jars
  <1>6. Grants' /\ Accounts' /\ OneAccountPerSubject' /\ Resolutions'
    BY DEF Grants, Accounts, OneAccountPerSubject, Resolutions, Subject
  <1>7. Callers'
    BY <1>2, <1>3 DEF Callers
  <1>8. RowLocks' /\ FlowSignsInOnce' /\ SessionForItsBrowser'
    BY <1>2, <1>3 DEF RowLocks, Holding, FlowSignsInOnce, Resolved, SessionForItsBrowser
  <1> QED
    BY <1>1, <1>5, <1>6, <1>7, <1>8

\* A callback begins in the browser whose cookie names its flow.
LEMMA BeginKeeps ==
    ASSUME Inv, NEW c \in Callbacks, NEW b \in Browsers, NEW st \in States, NEW k \in States,
           Begin(c, b, st, k)
    PROVE  Inv'
  <1> DEFINE row == [Waiting EXCEPT !.at = "begun", !.browser = b, !.state = st, !.code = k,
                                    !.began = now]
  <1>0. TypeOK
    BY DEF Inv
  <1>1. /\ row \in CallbackRow /\ row.at = "begun" /\ row.browser = b
        /\ row.state = st /\ row.code = k /\ ~row.new
    BY <1>0 DEF Waiting, CallbackRow, Places, TypeOK
  <1>2. cb' = [cb EXCEPT ![c] = row] /\ UNCHANGED <<now, flow, jar, grant, principal, federated>>
    BY DEF Begin
  <1>3. flow[st].status # "none" /\ flow[st].browser = b /\ grant[k] # NoGrant
    BY LoginAssumption DEF Begin, CookieMatches, Inv, Jars
  <1> HIDE DEF row
  <1>4. /\ cb' \in [Callbacks -> CallbackRow] /\ cb'[c] = row
        /\ \A d \in Callbacks : d # c => cb'[d] = cb[d]
    BY <1>0, <1>1, <1>2 DEF TypeOK
  <1> USE DEF Inv
  <1>5. TypeOK' /\ Jars' /\ Grants' /\ Accounts' /\ OneAccountPerSubject'
    BY <1>2, <1>4 DEF TypeOK, Jars, Grants, Accounts, OneAccountPerSubject
  <1>6. Callers'
    BY <1>1, <1>2, <1>3, <1>4 DEF Callers
  <1>7. RowLocks'
    BY <1>1, <1>2, <1>4 DEF RowLocks, Holding
  <1>8. Resolutions'
    BY <1>1, <1>2, <1>4 DEF Resolutions, Subject
  <1>9. FlowSignsInOnce' /\ SessionForItsBrowser'
    BY <1>1, <1>2, <1>4 DEF FlowSignsInOnce, Resolved, SessionForItsBrowser
  <1> QED
    BY <1>5, <1>6, <1>7, <1>8, <1>9

\* A grant is new: no callback carries its code.
LEMMA AuthenticateKeeps ==
    ASSUME Inv, NEW st \in States, NEW u \in Subjects, NEW e \in Emails, Authenticate(st, u, e)
    PROVE  Inv'
  <1> USE DEF Inv, Authenticate
  <1>1. TypeOK'
    BY DEF TypeOK
  <1>2. /\ grant'[st].subject = u /\ grant'[st].email = e /\ grant'[st] # NoGrant
        /\ \A x \in States : x # st => grant'[x] = grant[x]
    BY LoginAssumption DEF TypeOK, NoGrant
  <1>3. \A c \in Callbacks : cb[c].at # "idle" => cb[c].code # st /\ cb[c].code \in States
    BY DEF Callers
  <1>4. \A c \in Callbacks : cb[c].at # "idle" => Subject(c)' = Subject(c)
    BY <1>2, <1>3 DEF Subject
  <1>5. Jars' /\ RowLocks' /\ Accounts' /\ SessionForItsBrowser' /\ OneAccountPerSubject'
    BY DEF Jars, RowLocks, Accounts, SessionForItsBrowser, OneAccountPerSubject
  <1>6. Grants'
    BY <1>2 DEF Grants
  <1>7. Callers'
    BY <1>2, <1>3 DEF Callers
  <1>8. Resolutions'
    BY <1>4 DEF Resolutions
  <1>9. FlowSignsInOnce'
    <2>1. \A c \in Callbacks : Resolved(c)' => Resolved(c) /\ grant'[cb[c].state] = grant[cb[c].state]
      BY <1>2, <1>3 DEF Resolved, Callers
    <2> QED
      BY <2>1 DEF FlowSignsInOnce, Resolved
  <1> QED
    BY <1>1, <1>5, <1>6, <1>7, <1>8, <1>9

\* The purge touches no flow an open transaction holds, and reopens none.
LEMMA PurgeKeeps ==
    ASSUME Inv, PurgeFlows
    PROVE  Inv'
  <1> USE DEF Inv
  <1>1. PICK gone \in SUBSET States :
          /\ \A st \in gone : flow[st].status \in {"pending", "consumed"}
          /\ \A c \in Callbacks : cb[c].state \in gone => cb[c].at \notin Holding
          /\ flow' = [st \in States |-> IF st \in gone THEN [flow[st] EXCEPT !.status = "purged"]
                                                       ELSE flow[st]]
          /\ UNCHANGED <<now, jar, grant, cb, principal, federated>>
    BY DEF PurgeFlows
  <1>2. /\ \A st \in gone : flow'[st].status = "purged" /\ flow'[st].browser = flow[st].browser
        /\ \A st \in States \ gone : flow'[st] = flow[st]
    BY <1>1 DEF TypeOK
  <1>3. TypeOK'
    <2>1. \A st \in States : [flow[st] EXCEPT !.status = "purged"] \in
              [status  : {"none", "pending", "consumed", "purged"},
               created : 0 .. MaxTime,
               browser : Browsers \cup {NoBrowser}]
      BY DEF TypeOK
    <2> QED
      BY <1>1, <2>1 DEF TypeOK
  <1>4. Grants' /\ Accounts' /\ OneAccountPerSubject' /\ Resolutions'
    BY <1>1 DEF Grants, Accounts, OneAccountPerSubject, Resolutions, Subject
  <1>5. Jars'
    BY <1>1, <1>2 DEF Jars, TypeOK
  <1>6. Callers'
    BY <1>1, <1>2 DEF Callers
  <1>7. RowLocks'
    BY <1>1, <1>2 DEF RowLocks, Callers, Holding
  <1>8. FlowSignsInOnce' /\ SessionForItsBrowser'
    BY <1>1, <1>2 DEF FlowSignsInOnce, Resolved, SessionForItsBrowser, Callers
  <1> QED
    BY <1>3, <1>4, <1>5, <1>6, <1>7, <1>8

\* A deactivated account keeps its email, so it is still somebody's.
LEMMA DeactivateKeeps ==
    ASSUME Inv, NEW p \in Principals, Deactivate(p)
    PROVE  Inv'
  <1> USE DEF Inv, Deactivate
  <1>1. TypeOK'
    BY DEF TypeOK
  <1>2. /\ principal'[p].email = principal[p].email
        /\ \A q \in Principals : q # p => principal'[q] = principal[q]
    BY DEF TypeOK
  <1>3. principal[p] # NoPrincipal /\ principal'[p] # NoPrincipal
    BY <1>2, LoginAssumption DEF NoPrincipal, Accounts
  <1>4. Accounts' /\ OneAccountPerSubject'
    BY <1>2, <1>3 DEF Accounts, OneAccountPerSubject
  <1>5. Jars' /\ Grants' /\ Callers' /\ RowLocks' /\ Resolutions'
    BY DEF Jars, Grants, Callers, RowLocks, Resolutions, Subject
  <1>6. FlowSignsInOnce' /\ SessionForItsBrowser'
    BY DEF FlowSignsInOnce, Resolved, SessionForItsBrowser
  <1> QED
    BY <1>1, <1>4, <1>5, <1>6

\* A step that leaves everything but the clock alone.
LEMMA ClockKeeps ==
    ASSUME Inv, UNCHANGED <<flow, jar, grant, cb, principal, federated>>, now' \in 0 .. MaxTime
    PROVE  Inv'
  <1> USE DEF Inv
  <1>1. TypeOK' /\ Jars' /\ Grants' /\ Callers' /\ RowLocks' /\ Accounts'
    BY DEF TypeOK, Jars, Grants, Callers, RowLocks, Accounts
  <1>2. Resolutions' /\ FlowSignsInOnce' /\ SessionForItsBrowser' /\ OneAccountPerSubject'
    BY DEF Resolutions, Subject, FlowSignsInOnce, Resolved, SessionForItsBrowser, OneAccountPerSubject
  <1> QED
    BY <1>1, <1>2

\* A callback that fails without a commit, or moves on without writing, keeps Inv.
LEMMA StepKeeps ==
    ASSUME Inv, NEW c \in Callbacks,
           \/ Consume(c) \/ Exchange(c) \/ ExchangeLost(c) \/ Verify(c) \/ VerifyRaises(c)
           \/ ResolveKnown(c) \/ ResolveUnknown(c) \/ Insert(c) \/ SignIn(c) \/ CallbackDies(c)
    PROVE  Inv'
  <1>0. TypeOK /\ cb[c] \in CallbackRow
    BY DEF Inv, TypeOK
  <1>1. cb[c].principal \in Principals \cup {NoOne} /\ cb[c].new \in BOOLEAN
    BY <1>0 DEF CallbackRow
  <1>2. cb[c].at # "idle"
    BY DEF Consume, Exchange, ExchangeLost, Verify, VerifyRaises, ResolveKnown, ResolveUnknown,
           Insert, SignIn, CallbackDies, Ended
  <1>same. ASSUME UNCHANGED <<now, flow, jar, grant, principal, federated>>,
                  cb' \in [Callbacks -> CallbackRow]
           PROVE  TypeOK' /\ Jars'
    BY <1>same DEF Inv, TypeOK, Jars
  <1>unresolved. ASSUME cb[c].at \in Unresolved
                 PROVE  ~cb[c].new
    BY <1>unresolved DEF Inv, Callers, Unresolved
  <1>fails. ASSUME Goto(c, "failed"), UNCHANGED <<now, flow, jar, grant, principal, federated>>
            PROVE  Inv'
    <2>1. MovesTo(c, "failed", cb[c].principal, cb[c].new)
      BY <1>fails, <1>0, GotoMoves DEF Places, Ended
    <2> QED
      BY ZenonT(60), <1>fails, <1>same, <1>1, <1>2, <2>1, MoveKeeps DEF Inv, MovesTo, Places, Ended, Holding, Unresolved
  <1>3. CASE ExchangeLost(c) \/ VerifyRaises(c) \/ CallbackDies(c)
    BY <1>3, <1>fails DEF ExchangeLost, VerifyRaises, CallbackDies, FailAndRollBack
  <1>4. CASE Consume(c)
    <2>1. CASE ~Consumable(c)
      BY <1>4, <2>1, <1>fails DEF Consume
    <2>2. CASE Consumable(c)
      <3>1. MovesTo(c, "consumed", cb[c].principal, cb[c].new)
        BY <1>4, <2>2, <1>0, GotoMoves DEF Consume, Places, Holding
      <3>2. /\ flow[cb[c].state].status = "pending"
            /\ \A d \in Callbacks \ {c} : cb[d].at \in Holding => cb[d].state # cb[c].state
        BY <1>4, <2>2 DEF Consume, Consumable, RowFree
      <3> QED
        BY <1>4, <1>same, <1>unresolved, <1>1, <1>2, <3>1, <3>2, MoveKeeps
        DEF Consume, Inv, MovesTo, Places, Holding, Unresolved
    <2> QED
      BY <2>1, <2>2
  <1>held. ASSUME cb[c].at \in Holding
           PROVE  /\ flow[cb[c].state].status = "pending"
                  /\ \A d \in Callbacks \ {c} : cb[d].at \in Holding => cb[d].state # cb[c].state
    BY <1>held DEF Inv, RowLocks
  <1>verified. ASSUME cb[c].at \in {"verified", "inserting", "resolved", "committed"}
               PROVE  cb[c].code = cb[c].state
    BY <1>verified DEF Inv, Callers
  <1>5. CASE Exchange(c)
    <2>1. MovesTo(c, "exchanged", cb[c].principal, cb[c].new)
      BY <1>5, <1>0, GotoMoves DEF Exchange, Places, Holding
    <2> QED
      BY <1>5, <1>same, <1>unresolved, <1>held, <1>1, <1>2, <2>1, MoveKeeps
      DEF Exchange, Inv, MovesTo, Places, Holding, Unresolved
  <1>6. CASE Verify(c)
    <2>1. MovesTo(c, "verified", cb[c].principal, cb[c].new)
      BY <1>6, <1>0, GotoMoves DEF Verify, Places, Holding
    <2> QED
      BY <1>6, <1>same, <1>unresolved, <1>held, <1>1, <1>2, <2>1, MoveKeeps
      DEF Verify, NonceMatches, Inv, MovesTo, Places, Holding, Unresolved
  <1>7. CASE ResolveUnknown(c)
    <2>1. CASE \E p \in Principals : principal[p].email = Email(c)
      BY <1>7, <2>1, <1>fails DEF ResolveUnknown
    <2>2. CASE ~\E p \in Principals : principal[p].email = Email(c)
      <3>1. MovesTo(c, "inserting", cb[c].principal, cb[c].new)
        BY <1>7, <2>2, <1>0, GotoMoves DEF ResolveUnknown, Places, Holding
      <3> QED
        BY <1>7, <1>same, <1>unresolved, <1>held, <1>verified, <1>1, <1>2, <3>1, MoveKeeps
        DEF ResolveUnknown, Inv, MovesTo, Places, Holding, Unresolved
    <2> QED
      BY <2>1, <2>2
  <1>8. CASE ResolveKnown(c)
    <2>1. PICK p \in Principals :
            /\ <<Subject(c), p>> \in federated
            /\ cb' = [cb EXCEPT ![c] = [cb[c] EXCEPT
                         !.at = IF principal[p].active THEN "resolved" ELSE "failed",
                         !.principal = IF principal[p].active THEN p ELSE NoOne]]
      BY <1>8, <1>0 DEF ResolveKnown, TypeOK
    <2>2. cb[c].at = "verified" /\ UNCHANGED <<now, flow, jar, grant, principal, federated>>
      BY <1>8 DEF ResolveKnown
    <2>3. CASE principal[p].active
      <3>1. MovesTo(c, "resolved", p, cb[c].new)
        BY <2>1, <2>3, <1>0, ResolveMoves DEF Places, Holding
      <3> QED
        BY <1>same, <1>unresolved, <1>held, <1>verified, <1>1, <1>2, <2>1, <2>2, <3>1, MoveKeeps
        DEF Inv, MovesTo, Places, Holding, Unresolved
    <2>4. CASE ~principal[p].active
      <3>1. MovesTo(c, "failed", NoOne, cb[c].new)
        BY <2>1, <2>4, <1>0, ResolveMoves DEF Places, Ended
      <3> QED
        BY <1>same, <1>1, <1>2, <2>2, <3>1, MoveKeeps
        DEF Inv, MovesTo, Places, Ended, Holding, Unresolved
    <2> QED
      BY <2>3, <2>4
  <1>9. CASE Insert(c)
    <2>1. CASE ~uq_federated_issuer_subject(c)
      BY <1>9, <2>1, <1>fails DEF Insert
    <2>2. CASE uq_federated_issuer_subject(c)
      <3>1. PICK p \in Principals :
              cb' = [cb EXCEPT ![c] = [cb[c] EXCEPT !.at = "resolved", !.principal = p, !.new = TRUE]]
        BY <1>9, <2>2, <1>0 DEF Insert, TypeOK
      <3>2. MovesTo(c, "resolved", p, TRUE)
        BY <3>1, <1>0, InsertMoves
      <3>3. /\ \A q \in Principals : <<Subject(c), q>> \notin federated
            /\ \A d \in Callbacks \ {c} :
                  cb[d].at = "resolved" /\ cb[d].new => Subject(d) # Subject(c)
        BY <1>9, <2>2 DEF Insert, InsertFree, uq_federated_issuer_subject
      <3>4. cb[c].at = "inserting" /\ UNCHANGED <<now, flow, jar, grant, principal, federated>>
        BY <1>9 DEF Insert
      <3> QED
        BY <1>same, <1>held, <1>verified, <1>2, <3>2, <3>3, <3>4, MoveKeeps
        DEF Inv, MovesTo, Places, Holding, Unresolved
    <2> QED
      BY <2>1, <2>2
  <1>10. CASE SignIn(c)
    <2>1. CASE ~principal[cb[c].principal].active
      BY <1>10, <2>1, <1>fails DEF SignIn
    <2>2. CASE principal[cb[c].principal].active
      <3>1. MovesTo(c, "signed_in", cb[c].principal, cb[c].new)
        BY <1>10, <2>2, <1>0, GotoMoves DEF SignIn, Places, Ended
      <3>2. /\ cb[c].at = "committed" /\ UNCHANGED <<now, flow, grant, principal, federated>>
            /\ jar' = [jar EXCEPT ![cb[c].browser] = NoState]
        BY <1>10, <2>2 DEF SignIn
      <3>3. TypeOK' /\ Jars'
        BY <3>1, <3>2 DEF Inv, TypeOK, Jars, MovesTo
      <3> QED
        BY <1>verified, <1>1, <1>2, <3>1, <3>2, <3>3, MoveKeeps
        DEF Inv, Places, Ended, Holding, Unresolved
    <2> QED
      BY <2>1, <2>2
  <1> QED
    BY <1>3, <1>4, <1>5, <1>6, <1>7, <1>8, <1>9, <1>10

\* Every step keeps Inv.
LEMMA NextInv == Inv /\ [Next]_vars => Inv'
  <1> SUFFICES ASSUME Inv, [Next]_vars
               PROVE  Inv'
    OBVIOUS
  <1>1. ASSUME NEW c \in Callbacks, ExchangeRefused(c) \/ VerifyRefused(c) PROVE Inv'
    BY <1>1, FailAndCommitKeeps DEF ExchangeRefused, VerifyRefused, Holding
  <1>2. ASSUME NEW c \in Callbacks, Step(c) \/ CallbackDies(c) PROVE Inv'
    BY <1>1, <1>2, StepKeeps, CommitKeeps DEF Step
  <1>3. CASE Tick
    BY <1>3, ClockKeeps, LoginAssumption DEF Tick, Inv, TypeOK
  <1>4. CASE UNCHANGED vars
    BY <1>4, ClockKeeps DEF vars, Inv, TypeOK
  <1> QED
    BY <1>2, <1>3, <1>4, LoginKeeps, BeginKeeps, AuthenticateKeeps, PurgeKeeps, DeactivateKeeps
    DEF Next

\* For any number of callbacks, replayed or concurrent, a flow signs in at most once and
\* only with the account that was authenticated for it.
THEOREM FlowsAreOneUse == Spec => []FlowSignsInOnce
  <1>1. Inv => FlowSignsInOnce
    BY DEF Inv
  <1> QED
    BY <1>1, InitInv, NextInv, PTL DEF Spec

\* A session goes to the browser that began the flow.
THEOREM SessionsStayHome == Spec => []SessionForItsBrowser
  <1>1. Inv => SessionForItsBrowser
    BY DEF Inv
  <1> QED
    BY <1>1, InitInv, NextInv, PTL DEF Spec

\* Concurrent first sign-ins of a subject leave one account, and every account is
\* somebody's.
THEOREM AccountsAreUnique == Spec => []OneAccountPerSubject
  <1>1. Inv => OneAccountPerSubject
    BY DEF Inv
  <1> QED
    BY <1>1, InitInv, NextInv, PTL DEF Spec
=============================================================================
