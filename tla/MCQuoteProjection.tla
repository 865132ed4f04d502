-------------------------- MODULE MCQuoteProjection --------------------------
(***************************************************************************)
(* Two quotes, one requested with a key and one without, and the mirrors   *)
(* of two gateway replicas, for TLC.                                       *)
(***************************************************************************)
EXTENDS QuoteProjection

CONSTANTS q1, q2, m1, m2

=============================================================================
