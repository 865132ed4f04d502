------------------------------ MODULE MCPostTrade ------------------------------
(***************************************************************************)
(* Two settlements of one quote on competing branches; a gateway and a     *)
(* reconciliation worker, two workers, or two gateways.                    *)
(***************************************************************************)
EXTENDS PostTrade

CONSTANTS e1, e2, g1, g2, w1, w2

Pairs == {{g1, w1}, {w1, w2}, {g1, g2}}

\* A slow gateway beside a worker, and two workers.
GatewayLate == {{g1, w1}}

WorkersOnly == {{w1, w2}}
===============================================================================
