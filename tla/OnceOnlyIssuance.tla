-------------------------- MODULE OnceOnlyIssuance --------------------------
(***************************************************************************)
(* What POST /quote promises about idempotency keys, with no storage, no   *)
(* leases and no signer: a key is either refused for good or owns one      *)
(* signed quote, never both, and every signature handed to a client is the *)
(* one its key owns.  QuoteIssuance implements this specification.         *)
(***************************************************************************)
CONSTANTS Requests, Keys, NoKey, None, KeyOf, BodyOf

VARIABLES issued,   \* the quotes that carry a signature
          refused,  \* the keys whose verdict is a failure
          answer    \* the quote each client was given, None before that

vars == <<issued, refused, answer>>

SharesKey(p, q) == p = q \/ (KeyOf[p] # NoKey /\ KeyOf[p] = KeyOf[q])

Init ==
    /\ issued = {}
    /\ refused = {}
    /\ answer = [r \in Requests |-> None]

Issue(q) ==
    /\ KeyOf[q] \notin refused
    /\ \A p \in issued : ~SharesKey(p, q)
    /\ issued' = issued \cup {q}
    /\ UNCHANGED <<refused, answer>>

Refuse(k) ==
    /\ \A p \in issued : KeyOf[p] # k
    /\ refused' = refused \cup {k}
    /\ UNCHANGED <<issued, answer>>

Answer(r, q) ==
    /\ answer[r] = None
    /\ q \in issued
    /\ SharesKey(r, q)
    /\ BodyOf[r] = BodyOf[q]
    /\ answer' = [answer EXCEPT ![r] = q]
    /\ UNCHANGED <<issued, refused>>

Next ==
    \/ \E q \in Requests : Issue(q)
    \/ \E k \in Keys : Refuse(k)
    \/ \E r, q \in Requests : Answer(r, q)

Spec == Init /\ [][Next]_vars
=============================================================================
