--------------------------- MODULE MCQuoteIssuance ---------------------------
(***************************************************************************)
(* Three requests of createQuote at a time for TLC: two attempts with one  *)
(* key and one payload, of which the second may leave its signer, and      *)
(* either a third that reuses the key for another payload or one without a *)
(* key.                                                                    *)
(***************************************************************************)
EXTENDS QuoteIssuance, TLC

CONSTANTS r1, r2, r3, r4, k1, b1, b2

MCKeyOf == (r1 :> k1) @@ (r2 :> k1) @@ (r3 :> k1) @@ (r4 :> NoKey)
MCBodyOf == (r1 :> b1) @@ (r2 :> b1) @@ (r3 :> b2) @@ (r4 :> b1)

Threes == {{r1, r2, r3}, {r1, r2, r4}}
Keyless == {{r1, r2, r4}}
=============================================================================
