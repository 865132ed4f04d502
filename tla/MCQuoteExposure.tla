--------------------------- MODULE MCQuoteExposure ---------------------------
(***************************************************************************)
(* Three quotes of two gateways on one chain, for TLC: q1 and q2 buy what  *)
(* q3 sells; q1 and q3 are of one user; q2 saw a treasury balance that is  *)
(* enough only while q1 is not open.                                       *)
(***************************************************************************)
EXTENDS QuoteExposure

CONSTANTS q1, q2, q3, g1, g2, user, output

TwoGateways == [q \in Quotes |-> IF q = q1 THEN g1 ELSE g2]

Amounts == [q \in Quotes |-> [b \in Buckets |->
    IF <<q, b>> \in {<<q2, user>>, <<q3, output>>} THEN 0 ELSE 1]]

Bounds == [q \in Quotes |-> [b \in Buckets |->
    IF <<q, b>> = <<q2, output>> THEN 1 ELSE 2]]

Positions == [q \in Quotes |-> IF q = q3 THEN -1 ELSE 1]
=============================================================================
