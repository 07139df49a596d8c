----------------------------- MODULE MCOidcLogin -----------------------------
(***************************************************************************)
(* The model-checking instance of OidcLogin.  It starts after the first    *)
(* login and its authentication: browsers, states, subjects and emails are *)
(* interchangeable, so every behaviour gets there under some renaming.  (A *)
(* SYMMETRY set would not be sound for the liveness property.)             *)
(***************************************************************************)
EXTENDS OidcLogin

CONSTANTS b1, s1, u1, e1   \* the first browser, state, subject and email

MCInit ==
    /\ now = 0
    /\ flow = [st \in States |-> IF st = s1 THEN [status |-> "pending", created |-> 0,
                                                  browser |-> b1]
                                            ELSE NoFlow]
    /\ jar = [b \in Browsers |-> IF b = b1 THEN s1 ELSE NoState]
    /\ grant = [st \in States |-> IF st = s1 THEN [subject |-> u1, email |-> e1]
                                             ELSE NoGrant]
    /\ cb = [c \in Callbacks |-> Waiting]
    /\ principal = [p \in Principals |-> NoPrincipal]
    /\ federated = {}

MCSpec == MCInit /\ [][Next]_vars /\ \A c \in Callbacks : WF_vars(Step(c))
=============================================================================
