--------------------------- MODULE MCQuoteHandover ---------------------------
(***************************************************************************)
(* Two quotes for TLC that together are too much, either for the Treasury  *)
(* or for the limit of the portfolio, and not for the other.               *)
(***************************************************************************)
EXTENDS QuoteHandover, TLC

CONSTANTS q1, q2, g1

OneGateway == [q \in Quotes |-> g1]

Two == [q \in Quotes |-> 2]

Scarce == {[capital |-> 3, limit |-> 4], [capital |-> 4, limit |-> 3]}
=============================================================================
