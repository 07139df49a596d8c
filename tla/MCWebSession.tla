---------------------------- MODULE MCWebSession ----------------------------
(***************************************************************************)
(* The model-checking instance of WebSession, from the first sign-in on:   *)
(* nothing happens before it.  Sessions and requests are interchangeable.  *)
(***************************************************************************)
EXTENDS WebSession, TLC

CONSTANTS b1, s1   \* the browser and the session of the first sign-in

MCInit ==
    /\ now = 0
    /\ issued = 1
    /\ sess = [s \in Sessions |-> IF s = s1
                  THEN [token |-> 1, born |-> 0, last_active |-> 0, idle |-> IdleTimeout,
                        absolute |-> AbsoluteTimeout, limit |-> IdleTimeout,
                        revoked |-> FALSE]
                  ELSE NoRow]
    /\ jar = [b \in Browsers |-> IF b = b1 THEN 1 ELSE 0]
    /\ req = [r \in Requests |-> Unsent]

MCSpec == MCInit /\ [][Next]_vars

SessionSymmetry == Permutations(Sessions \ {s1}) \cup Permutations(Requests)
=============================================================================
