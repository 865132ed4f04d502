-------------------------- MODULE MCSettlementIndexer --------------------------
(*****************************************************************************)
(* Rivals: two settlements of one quote on a chain of two ranges.            *)
(* Receipts: the same, one also sent to /submit.  DeepReorg: a chain longer  *)
(* than the window of checkpoints.  Takeover: two workers.  TwoReorgs: one   *)
(* more reorg, which meets the rollback of the first.                        *)
(*****************************************************************************)
EXTENDS SettlementIndexer

CONSTANTS t1, t2, q1, w1, w2

MCTxs == {t1, t2}
OneQuote == [t \in MCTxs |-> q1]

Rivals == [workers |-> {w1}, mined |-> MCTxs, submitted |-> {},
           projected |-> {}, height |-> 4, reorgs |-> 1]
Receipts == [workers |-> {w1}, mined |-> MCTxs, submitted |-> {t1},
             projected |-> {q1}, height |-> 3, reorgs |-> 1]
DeepReorg == [workers |-> {w1}, mined |-> {t1}, submitted |-> {},
              projected |-> {q1}, height |-> 5, reorgs |-> 1]
Takeover == [workers |-> {w1, w2}, mined |-> {t1}, submitted |-> {},
             projected |-> {q1}, height |-> 2, reorgs |-> 1]

TwoReorgs == [workers |-> {w1}, mined |-> {t1}, submitted |-> {t1},
              projected |-> {q1}, height |-> 2, reorgs |-> 2]

Instances == {Rivals, Receipts, DeepReorg, Takeover, TwoReorgs}
===============================================================================
