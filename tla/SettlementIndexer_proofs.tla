----------------------- MODULE SettlementIndexer_proofs -----------------------
(***************************************************************************)
(* Proofs about SettlementIndexer for any workers, receipts and reorgs:    *)
(* the cursor keeps its checkpoint, the rows agree with the chain behind   *)
(* it, and a rollback leaves no orphan.  The invariant rests on the hashes *)
(* of the chain: a block a reorg took away is of an older branch and never *)
(* comes back, so that what a run once learnt of a block stays true while  *)
(* the block is there, whoever holds the cursor by then.  The block of a   *)
(* row is fixed when it is first written.  Only the run that no other has  *)
(* superseded knows more: that the rows of its range are still those it    *)
(* saw, but for those of writers no lease fences.                          *)
(***************************************************************************)
EXTENDS SettlementIndexer, SumTheorems

CursorTypes ==
    cursor \in [next : Heights \cup {MaxHeight + 1}, revision : Nat,
                owner : Workers \cup {None}, expired : BOOLEAN]

\* A branch bears hashes up to the newest, and a settlement once.
ChainTrue ==
    /\ \A b \in DOMAIN chain : chain[b].hash <= forks
    /\ \A t \in Txs : \A b, c \in DOMAIN chain : OnChain(t, b) /\ OnChain(t, c) => b = c

\* The block p is on the chain, or of a branch that was left for good.
Real(p) == Matches(p) \/ p.hash < forks

PointsTrue ==
    /\ \A p \in checkpoints \cup scanned : Real(p)
    /\ \A p \in scanned : p.block < cursor.next

\* The block is the row's, for good: a row is only removed and restored.
Bound(t, b) == events[t].state # "absent" /\ events[t].block = b

Agrees(p) == \A t \in Txs \ late : OnChain(t, p.block) <=> IsCanonical(t, p.block)

\* The rows are those of the chain up to any checkpoint the chain still has; a
\* rollback under way may have removed the others.
ScannedTrue ==
    \A p \in scanned : Matches(p) =>
        /\ \A t \in Txs : OnChain(t, p.block) => Bound(t, p.block)
        /\ Agrees(p) \/ \A c \in checkpoints : p.block <= c.block => ~Matches(c)

Ranged == {"verify", "seal", "strays", "clean", "apply"}

\* Whoever holds the cursor, a run knows its range and the logs of those of its
\* blocks that stay on the chain, and the rows it has written are of them.
RangeTrue(r) ==
    /\ r.to >= r.next
    /\ \A p \in r.seen : r.next <= p.block /\ p.block <= r.to /\ Real(p)
    /\ \A l \in r.logs : r.next <= l.block
    /\ \A p \in r.seen : Matches(p) =>
           \A t \in Txs : OnChain(t, p.block) <=> [tx |-> t, block |-> p.block] \in r.logs

SealTrue(r) ==
    r.at \in {"strays", "clean", "apply"} => Real([block |-> r.to, hash |-> r.hash])

TodoTrue(r) ==
    /\ r.at = "unwind" => \A l \in r.todo : r.to < l.block
    /\ r.at = "clean" => \A l \in r.todo : r.next <= l.block
    /\ r.at = "apply" => /\ r.todo \subseteq r.logs
                         /\ \A l \in r.logs \ r.todo : Bound(l.tx, l.block)

\* A run of the cursor's revision has the cursor's checkpoints, and one that
\* rolls back knows that those beyond its ancestor are off the chain for good.
WindowTrue(r) ==
    r.at # "idle" /\ r.rev = cursor.revision =>
        /\ r.next = cursor.next
        /\ r.at \in {"compare", "ancestor"} =>
               /\ r.cps = {p \in checkpoints : Oldest(r.next) <= p.block /\ p.block < r.next}
               /\ \E p \in r.cps : p.block = r.next - 1
        /\ r.at = "ancestor" => \A c \in checkpoints : c.block = r.next - 1 => ~Matches(c)
        /\ r.at \in {"orphans", "unwind"} =>
               /\ r.to = 0 \/ \E c \in checkpoints : c.block = r.to
               /\ \A c \in checkpoints : r.to < c.block => ~Matches(c)

\* What the one run that no other has superseded relies on: nobody else writes
\* a row without a trace in late.
Fence(r) ==
    /\ r.at \in Ranged \cup {"scan", "logs"} => \A p \in scanned : Matches(p) => Agrees(p)
    /\ r.at = "clean" =>
           \A p \in r.seen, t \in Txs \ late : Matches(p) /\ IsCanonical(t, p.block) =>
               [tx |-> t, block |-> p.block] \in r.logs \cup r.todo
    /\ r.at = "apply" =>
           /\ \A p \in r.seen, t \in Txs \ late : Matches(p) /\ IsCanonical(t, p.block) =>
                  [tx |-> t, block |-> p.block] \in r.logs
           /\ \A l \in r.logs \ r.todo : l.tx \notin late => IsCanonical(l.tx, l.block)
    /\ r.at = "unwind" =>
           \A t \in Txs \ (late \cup fresh) :
               /\ events[t].state = "canonical"
               /\ r.to < events[t].block /\ events[t].block < r.next
               => [tx |-> t, block |-> events[t].block] \in r.todo

FenceTrue(w) == ~Superseded(w) => Fence(wk[w])

RunTrue(w) ==
    /\ wk[w].rev <= cursor.revision
    /\ wk[w].at \in {"orphans", "unwind"} => wk[w].to < wk[w].next
    /\ wk[w].at = "logs" => wk[w].next <= wk[w].to
    /\ wk[w].at \in Ranged => RangeTrue(wk[w])
    /\ SealTrue(wk[w]) /\ TodoTrue(wk[w]) /\ WindowTrue(wk[w])

IndexerInv ==
    /\ TypeOK /\ CursorTypes
    /\ ChainTrue /\ PointsTrue /\ ScannedTrue
    /\ CursorIsCheckpointed
    /\ \A w \in Workers : RunTrue(w) /\ FenceTrue(w)

-----------------------------------------------------------------------------
(* Types. *)

LEMMA Bounds == /\ MaxHeight \in Nat /\ MaxReorgs \in Nat /\ MaxFaults \in Nat
                /\ Confirmations \in Nat \ {0} /\ MaxRange \in Nat \ {0} /\ Lookback \in Nat
                /\ None \notin Workers
BY IndexerAssumption DEF IndexerAssumption

LEMMA ChainFacts ==
    ASSUME TypeOK
    PROVE  /\ Len(chain) \in 0 .. MaxHeight /\ DOMAIN chain = 1 .. Len(chain)
           /\ \A b \in DOMAIN chain : chain[b].hash \in Hashes /\ chain[b].txs \subseteq Txs
           /\ forks \in Nat /\ forks <= MaxReorgs
<1>1. PICK B : B = [hash : Hashes, txs : SUBSET Txs]
  OBVIOUS
<1>2. chain \in Seq(B) /\ Len(chain) <= MaxHeight /\ forks \in Hashes
  BY <1>1 DEF TypeOK
<1>3. /\ Len(chain) \in Nat /\ DOMAIN chain = 1 .. Len(chain)
      /\ \A b \in DOMAIN chain : chain[b] \in B
  BY <1>2
<1>4. \A x \in B : x.hash \in Hashes /\ x.txs \subseteq Txs
  BY <1>1
<1>5. QED
  BY <1>2, <1>3, <1>4, Bounds DEF Hashes

LEMMA PointFacts ==
    ASSUME NEW p \in Points
    PROVE  /\ p.block \in Nat /\ 1 <= p.block /\ p.block <= MaxHeight
           /\ p.hash \in Nat /\ p = [block |-> p.block, hash |-> p.hash]
BY Bounds DEF Points, Heights, Hashes

LEMMA LogFacts ==
    ASSUME NEW l \in Logs
    PROVE  /\ l.tx \in Txs /\ l.block \in Nat /\ 1 <= l.block /\ l.block <= MaxHeight
           /\ l = [tx |-> l.tx, block |-> l.block]
BY Bounds DEF Logs, Heights

LEMMA RunFacts ==
    ASSUME TypeOK, NEW w \in Workers
    PROVE  /\ wk[w] \in Runs /\ wk[w].at \in Steps
           /\ wk[w].next \in Nat /\ 1 <= wk[w].next /\ wk[w].next <= MaxHeight + 1
           /\ wk[w].rev \in Nat /\ wk[w].to \in Nat /\ wk[w].to <= MaxHeight
           /\ wk[w].cps \subseteq Points /\ wk[w].seen \subseteq Points
           /\ wk[w].logs \subseteq Logs /\ wk[w].todo \subseteq Logs
           /\ wk[w].hash \in Hashes
<1>1. wk[w] \in Runs
  BY DEF TypeOK
<1>2. QED
  BY <1>1, Bounds DEF Runs, Heights

LEMMA CursorFacts ==
    ASSUME CursorTypes
    PROVE  /\ cursor.next \in Nat /\ 1 <= cursor.next /\ cursor.next <= MaxHeight + 1
           /\ cursor.revision \in Nat /\ cursor.owner \in Workers \cup {None}
           /\ cursor.expired \in BOOLEAN
BY Bounds DEF CursorTypes, Heights

LEMMA RowFacts ==
    ASSUME TypeOK, NEW t \in Txs
    PROVE  /\ events[t].state \in {"absent", "canonical", "removed"}
           /\ events[t].block \in Nat /\ events[t].block <= MaxHeight
           /\ \A b : IsCanonical(t, b) <=> events[t].state = "canonical" /\ events[t].block = b
<1>1. events[t] \in Rows
  BY DEF TypeOK
<1>2. events[t] = [state |-> events[t].state, block |-> events[t].block]
  BY <1>1 DEF Rows
<1>3. QED
  BY <1>1, <1>2, Bounds DEF Rows, IsCanonical

LEMMA IdleFacts ==
    /\ Idle \in Runs /\ Idle.at = "idle" /\ Idle.rev = 0
    /\ Idle.next = 1 /\ Idle.todo = {} /\ Idle.logs = {} /\ Idle.seen = {} /\ Idle.cps = {}
<1>1. 1 \in Heights \cup {MaxHeight + 1} /\ 0 \in 0 .. MaxHeight /\ 0 \in Hashes
  BY Bounds DEF Heights, Hashes
<1>2. QED
  BY <1>1 DEF Idle, Runs, Steps, Start

\* A run that ended has nothing to keep to.
LEMMA IdleKeeps ==
    ASSUME NEW w \in Workers, wk[w]' = Idle, cursor'.revision \in Nat
    PROVE  RunTrue(w)' /\ FenceTrue(w)'
<1>1. /\ wk'[w].at = "idle" /\ wk'[w].rev = 0
  BY IdleFacts
<1>2. RunTrue(w)'
  BY <1>1 DEF RunTrue, Ranged, SealTrue, TodoTrue, WindowTrue
<1>3. FenceTrue(w)'
  BY <1>1 DEF FenceTrue, Fence, Ranged
<1>4. QED
  BY <1>2, <1>3

-----------------------------------------------------------------------------
(* The chain.  A block that left it never comes back, and one that stays   *)
(* keeps its settlements.                                                  *)

\* What a step of the chain does to a block p the indexer has met.
Lasts(p) ==
    /\ Real(p)'
    /\ Matches(p)' => /\ Matches(p)
                      /\ \A t \in Txs : OnChain(t, p.block)' <=> OnChain(t, p.block)

LEMMA MineLasts ==
    ASSUME TypeOK, ChainTrue, NEW txs \in SUBSET Txs, Mine(txs)
    PROVE  /\ \A p \in Points : Real(p) => Lasts(p)
           /\ TypeOK' /\ ChainTrue'
<1>1. PICK n : n = Len(chain)
  OBVIOUS
<1>2. PICK x : x = [hash |-> forks, txs |-> txs]
  OBVIOUS
<1>3. /\ chain' = Append(chain, x) /\ n < up.height
      /\ UNCHANGED <<up, forks, known, events, receipt, cursor, checkpoints, wk, faults>>
      /\ UNCHANGED <<late, fresh, scanned>>
  BY <1>1, <1>2 DEF Mine, history
<1>4. PICK B : B = [hash : Hashes, txs : SUBSET Txs]
  OBVIOUS
<1>5. chain \in Seq(B) /\ forks \in Hashes /\ x \in B
  BY <1>2, <1>4 DEF TypeOK
<1>6. /\ n \in Nat /\ DOMAIN chain = 1 .. n /\ DOMAIN chain' = 1 .. n + 1
      /\ \A b \in 1 .. n : chain'[b] = chain[b]
      /\ chain'[n + 1] = x /\ chain' \in Seq(B) /\ Len(chain') = n + 1
  BY <1>1, <1>3, <1>5
<1>7. up.height \in Nat /\ up.height <= MaxHeight
  BY IndexerAssumption, Bounds DEF TypeOK, IndexerAssumption
<1>8. TypeOK'
  BY <1>3, <1>4, <1>6, <1>7, Bounds DEF TypeOK
<1>9. x.hash = forks /\ x.txs = txs /\ forks \in Nat
  BY <1>2, <1>5, Bounds DEF Hashes
<1>10. ASSUME NEW p \in Points, Real(p) PROVE Lasts(p)
  <2>1. p.block \in Nat /\ p.hash \in Nat
    BY <1>10, PointFacts
  <2>2. CASE p.block \in 1 .. n
    BY <1>3, <1>6, <1>10, <2>1, <2>2 DEF Lasts, Real, Matches, OnChain
  <2>3. CASE p.block \notin 1 .. n
    <3>1. p.hash < forks /\ ~Matches(p)
      BY <1>6, <1>10, <2>3 DEF Real, Matches
    <3>2. ~Matches(p)'
      BY <1>6, <1>9, <2>1, <2>3, <3>1 DEF Matches
    <3>3. QED
      BY <1>3, <3>1, <3>2 DEF Lasts, Real
  <2>4. QED
    BY <2>2, <2>3
<1>11. \A t \in txs : \A b \in 1 .. n : t \notin chain[b].txs
  BY <1>6 DEF Mine, Settled, OnChain
<1>12. \A b \in 1 .. n + 1 : chain'[b].hash <= forks
  <2>1. \A b \in 1 .. n : chain[b].hash <= forks
    BY <1>6 DEF ChainTrue
  <2>2. QED
    BY <1>6, <1>9, <2>1
<1>13. ASSUME NEW t \in Txs, NEW b \in 1 .. n + 1, NEW c \in 1 .. n + 1,
              t \in chain'[b].txs, t \in chain'[c].txs
       PROVE  b = c
  <2>1. \A i, j \in 1 .. n : t \in chain[i].txs /\ t \in chain[j].txs => i = j
    BY <1>6 DEF ChainTrue, OnChain
  <2>2. QED
    BY <1>6, <1>9, <1>11, <1>13, <2>1
<1>14. ChainTrue'
  BY <1>3, <1>6, <1>12, <1>13 DEF ChainTrue, OnChain
<1>15. QED
  BY <1>8, <1>10, <1>14

LEMMA ReorgLasts ==
    ASSUME TypeOK, ChainTrue, NEW b \in DOMAIN chain, Reorg(b)
    PROVE  /\ \A p \in Points : Real(p) => Lasts(p)
           /\ TypeOK' /\ ChainTrue'
<1>1. /\ chain' = SubSeq(chain, 1, b - 1) /\ forks' = forks + 1 /\ forks < up.reorgs
      /\ UNCHANGED <<up, known, events, receipt, cursor, checkpoints, wk, faults>>
      /\ UNCHANGED <<late, fresh, scanned>>
  BY DEF Reorg, history
<1>2. PICK B : B = [hash : Hashes, txs : SUBSET Txs]
  OBVIOUS
<1>3. chain \in Seq(B) /\ forks \in Nat /\ b \in 1 .. Len(chain) /\ Len(chain) <= MaxHeight
  BY <1>2, ChainFacts DEF TypeOK
<1>4. PICK n : n = b - 1
  OBVIOUS
<1>5. n \in Nat /\ n < Len(chain) /\ DOMAIN chain = 1 .. Len(chain) /\ Len(chain) \in Nat
  BY <1>3, <1>4
<1>6. /\ chain' \in Seq(B) /\ Len(chain') = n /\ DOMAIN chain' = 1 .. n
      /\ \A c \in 1 .. n : chain'[c] = chain[c]
  BY <1>1, <1>3, <1>4, <1>5
<1>7. up.reorgs \in Nat /\ up.reorgs <= MaxReorgs
  BY IndexerAssumption, Bounds DEF TypeOK, IndexerAssumption
<1>8. forks' \in Hashes
  BY <1>1, <1>3, <1>7, Bounds DEF Hashes
<1>9. TypeOK'
  BY <1>1, <1>2, <1>3, <1>5, <1>6, <1>8, Bounds DEF TypeOK
<1>10. \A c \in 1 .. Len(chain) : chain[c].hash \in Nat /\ chain[c].hash <= forks
  BY <1>5, ChainFacts, Bounds DEF ChainTrue, Hashes
<1>11. ASSUME NEW p \in Points, Real(p) PROVE Lasts(p)
  <2>1. p.hash \in Nat /\ p.hash <= forks
    BY <1>3, <1>5, <1>10, <1>11, PointFacts DEF Real, Matches
  <2>2. QED
    BY <1>1, <1>3, <1>5, <1>6, <2>1 DEF Lasts, Real, Matches, OnChain
<1>12. \A c \in 1 .. n : chain'[c].hash <= forks'
  BY <1>1, <1>3, <1>5, <1>6, <1>10
<1>13. ChainTrue'
  BY <1>5, <1>6, <1>12 DEF ChainTrue, OnChain
<1>14. QED
  BY <1>9, <1>11, <1>13

LEMMA WorldKeeps ==
    ASSUME IndexerInv, TypeOK', ChainTrue',
           \A p \in Points : Real(p) => Lasts(p),
           UNCHANGED <<store, wk, late, fresh, scanned>>
    PROVE  IndexerInv'
<1>1. /\ UNCHANGED <<events, cursor, checkpoints, wk, late, fresh, scanned>>
      /\ TypeOK /\ CursorTypes /\ PointsTrue /\ ScannedTrue /\ CursorIsCheckpointed
      /\ checkpoints \subseteq Points /\ scanned \subseteq Points
  BY DEF store, IndexerInv, TypeOK
<1>2. \A p \in checkpoints \cup scanned : Real(p) /\ Lasts(p)
  BY <1>1 DEF PointsTrue
<1>3. CursorTypes' /\ CursorIsCheckpointed'
  BY <1>1 DEF CursorTypes, CursorIsCheckpointed, LastPoint
<1>4. PointsTrue'
  BY <1>1, <1>2 DEF PointsTrue, Lasts
<1>5. ASSUME NEW p \in Points, Lasts(p), Matches(p)', Agrees(p) PROVE Agrees(p)'
  BY <1>1, <1>5 DEF Lasts, Agrees, IsCanonical
<1>6. ScannedTrue'
  <2>1. SUFFICES ASSUME NEW p \in scanned', Matches(p)'
                 PROVE  /\ \A t \in Txs : OnChain(t, p.block)' => Bound(t, p.block)'
                        /\ Agrees(p)' \/ \A c \in checkpoints' : p.block <= c.block => ~Matches(c)'
    BY DEF ScannedTrue
  <2>2. p \in Points /\ Lasts(p) /\ Matches(p) /\ p \in scanned
    BY <1>1, <1>2, <2>1 DEF Lasts
  <2>3. \A t \in Txs : OnChain(t, p.block)' => Bound(t, p.block)'
    BY <1>1, <2>1, <2>2 DEF ScannedTrue, Lasts, Bound
  <2>4. Agrees(p) => Agrees(p)'
    BY <1>5, <2>1, <2>2
  <2>5. \A c \in checkpoints : ~Matches(c) => ~Matches(c)'
    BY <1>2 DEF Lasts
  <2>6. QED
    BY <1>1, <2>2, <2>3, <2>4, <2>5 DEF ScannedTrue
<1>7. ASSUME NEW w \in Workers PROVE RunTrue(w)' /\ FenceTrue(w)'
  <2>1. RunTrue(w) /\ FenceTrue(w) /\ wk' = wk
    BY <1>1 DEF IndexerInv
  <2>2. PICK r : r = wk[w] /\ r = wk'[w]
    BY <1>1
  <2>3. /\ r.seen \subseteq Points /\ r.to \in Nat /\ r.hash \in Hashes
        /\ r.next \in Nat /\ 1 <= r.next /\ r.to <= MaxHeight
    BY <1>1, <2>2, RunFacts
  <2>4. ASSUME r.at \in Ranged PROVE RangeTrue(r)'
    <3>1. RangeTrue(r)
      BY <2>1, <2>2, <2>4 DEF RunTrue
    <3>2. \A p \in r.seen : Real(p) /\ Lasts(p)
      BY <2>3, <3>1 DEF RangeTrue
    <3>3. QED
      BY <3>1, <3>2 DEF RangeTrue, Lasts
  <2>5. ASSUME r.at \in {"strays", "clean", "apply"}
        PROVE  Real([block |-> r.to, hash |-> r.hash])'
    <3>1. PICK p : p = [block |-> r.to, hash |-> r.hash]
      OBVIOUS
    <3>2. Real(p) /\ r.to >= r.next
      BY <2>1, <2>2, <2>5, <3>1 DEF RunTrue, SealTrue, RangeTrue, Ranged
    <3>3. p \in Points
      BY <2>3, <3>1, <3>2, Bounds DEF Points, Heights
    <3>4. Lasts(p)
      BY <3>2, <3>3
    <3>5. QED
      BY <3>1, <3>4 DEF Lasts
  <2>6. TodoTrue(r)'
    BY <1>1, <2>1, <2>2 DEF RunTrue, TodoTrue, Bound
  <2>7. WindowTrue(r)'
    <3>1. WindowTrue(r)
      BY <2>1, <2>2 DEF RunTrue
    <3>2. \A c \in checkpoints : ~Matches(c) => ~Matches(c)'
      BY <1>2 DEF Lasts
    <3>3. QED
      BY <1>1, <3>1, <3>2 DEF WindowTrue, Oldest, Max2
  <2>8. RunTrue(w)'
    BY <1>1, <2>1, <2>2, <2>4, <2>5, <2>6, <2>7 DEF RunTrue, SealTrue
  <2>9. ASSUME Fence(r) PROVE Fence(r)'
    <3>1. ASSUME r.at \in Ranged \cup {"scan", "logs"}, NEW p \in scanned, Matches(p)' PROVE Agrees(p)'
      <4>1. p \in Points /\ Lasts(p) /\ Matches(p)
        BY <1>1, <1>2, <3>1 DEF Lasts
      <4>2. Agrees(p)
        BY <2>9, <3>1, <4>1 DEF Fence
      <4>3. QED
        BY <1>5, <3>1, <4>1, <4>2
    <3>2. r.at \in Ranged => \A p \in r.seen : Matches(p)' => Matches(p)
      <4>1. r.at \in Ranged => RangeTrue(r)
        BY <2>1, <2>2 DEF RunTrue
      <4>2. QED
        BY <2>3, <4>1 DEF RangeTrue, Lasts
    <3>3. r.at = "clean" =>
           \A p \in r.seen, t \in Txs \ late' : Matches(p)' /\ IsCanonical(t, p.block)' =>
               [tx |-> t, block |-> p.block] \in r.logs \cup r.todo
      BY <1>1, <2>9, <3>2 DEF Fence, Ranged, IsCanonical
    <3>4. r.at = "apply" =>
           /\ \A p \in r.seen, t \in Txs \ late' : Matches(p)' /\ IsCanonical(t, p.block)' =>
                  [tx |-> t, block |-> p.block] \in r.logs
           /\ \A l \in r.logs \ r.todo : l.tx \notin late' => IsCanonical(l.tx, l.block)'
      BY <1>1, <2>9, <3>2 DEF Fence, Ranged, IsCanonical
    <3>5. QED
      BY <1>1, <2>9, <3>1, <3>3, <3>4 DEF Fence
  <2>10. FenceTrue(w)'
    BY <1>1, <2>1, <2>2, <2>9 DEF FenceTrue, Superseded
  <2>11. QED
    BY <2>8, <2>10
<1>8. QED
  BY <1>3, <1>4, <1>6, <1>7 DEF IndexerInv

-----------------------------------------------------------------------------
(* The runs that a step leaves alone.                                      *)

LEMMA StoreKept ==
    ASSUME IndexerInv, UNCHANGED <<chain, forks, events, checkpoints, late, scanned>>,
           cursor'.next = cursor.next
    PROVE  ChainTrue' /\ PointsTrue' /\ ScannedTrue' /\ CursorIsCheckpointed'
<1>1. ChainTrue'
  BY DEF IndexerInv, ChainTrue, OnChain
<1>2. PointsTrue'
  BY DEF IndexerInv, PointsTrue, Real, Matches
<1>3. ScannedTrue'
  BY DEF IndexerInv, ScannedTrue, Matches, OnChain, Bound, Agrees, IsCanonical
<1>4. CursorIsCheckpointed'
  BY DEF IndexerInv, CursorIsCheckpointed, LastPoint
<1>5. QED
  BY <1>1, <1>2, <1>3, <1>4

\* What a run knows of the chain and the cursor does not depend on who holds it.
LEMMA RunKept ==
    ASSUME IndexerInv, NEW v \in Workers, wk'[v] = wk[v],
           UNCHANGED <<chain, forks, checkpoints>>,
           \A t \in Txs : \A b : Bound(t, b) => Bound(t, b)',
           cursor'.next = cursor.next, cursor'.revision = cursor.revision
    PROVE  RunTrue(v)'
<1>1. RunTrue(v) /\ wk[v].logs \subseteq Logs
  BY RunFacts DEF IndexerInv
<1>2. PICK r : r = wk[v] /\ r = wk'[v]
  OBVIOUS
<1>3. r.at \in Ranged => RangeTrue(r)'
  BY <1>1, <1>2 DEF RunTrue, RangeTrue, Real, Matches, OnChain
<1>4. SealTrue(r)'
  BY <1>1, <1>2 DEF RunTrue, SealTrue, Real, Matches
<1>5. TodoTrue(r)'
  <2>1. \A l \in r.logs : l.tx \in Txs
    BY <1>1, <1>2, LogFacts
  <2>2. TodoTrue(r)
    BY <1>1, <1>2 DEF RunTrue
  <2>3. QED
    BY <2>1, <2>2 DEF TodoTrue
<1>6. WindowTrue(r)'
  BY <1>1, <1>2 DEF RunTrue, WindowTrue, Oldest, Max2, Matches
<1>7. QED
  BY <1>1, <1>2, <1>3, <1>4, <1>5, <1>6 DEF RunTrue

LEMMA FenceKept ==
    ASSUME IndexerInv, NEW v \in Workers,
           UNCHANGED <<chain, forks, events, late, scanned>>,
           Superseded(v)' \/ (wk'[v] = wk[v] /\ ~Superseded(v) /\ fresh' = fresh)
    PROVE  FenceTrue(v)'
<1>1. CASE Superseded(v)'
  BY <1>1 DEF FenceTrue
<1>2. CASE wk'[v] = wk[v] /\ ~Superseded(v) /\ fresh' = fresh
  <2>1. PICK r : r = wk[v] /\ r = wk'[v]
    BY <1>2
  <2>2. Fence(r)
    BY <1>2, <2>1 DEF IndexerInv, FenceTrue
  <2>3. Fence(r)'
    BY <1>2, <2>2 DEF Fence, Agrees, Matches, OnChain, IsCanonical
  <2>4. QED
    BY <2>1, <2>3 DEF FenceTrue
<1>3. QED
  BY <1>1, <1>2

\* A step of the worker w that writes nothing but its own run, and what it
\* forgets of the gateways' rows if it holds the cursor.
LEMMA StepKeeps ==
    ASSUME IndexerInv, NEW w \in Workers, NEW r \in Runs,
           wk' = [wk EXCEPT ![w] = r],
           UNCHANGED <<up, chain, forks, known, events, receipt, cursor, checkpoints>>,
           UNCHANGED <<late, scanned>>, faults' \in 0 .. MaxFaults,
           fresh' = fresh \/ (~Superseded(w) /\ fresh' = {}),
           RunTrue(w)', FenceTrue(w)'
    PROVE  IndexerInv'
<1>1. TypeOK /\ CursorTypes
  BY DEF IndexerInv
<1>2. /\ wk' \in [Workers -> Runs] /\ wk'[w] = r
      /\ \A v \in Workers \ {w} : wk'[v] = wk[v]
  BY <1>1 DEF TypeOK
<1>3. fresh' \subseteq Txs
  BY <1>1 DEF TypeOK
<1>4. TypeOK' /\ CursorTypes'
  BY <1>1, <1>2, <1>3 DEF TypeOK, CursorTypes
<1>5. ChainTrue' /\ PointsTrue' /\ ScannedTrue' /\ CursorIsCheckpointed'
  BY StoreKept
<1>6. ASSUME NEW v \in Workers, v # w PROVE RunTrue(v)' /\ FenceTrue(v)'
  <2>1. wk'[v] = wk[v]
    BY <1>2, <1>6
  <2>2. RunTrue(v)'
    BY <2>1, RunKept DEF Bound
  <2>3. Superseded(v)' <=> Superseded(v)
    BY <2>1 DEF Superseded
  <2>4. ~Superseded(w) => Superseded(v)
    BY <1>6 DEF Superseded
  <2>5. FenceTrue(v)'
    BY <2>1, <2>3, <2>4, FenceKept
  <2>6. QED
    BY <2>2, <2>5
<1>7. QED
  BY <1>4, <1>5, <1>6 DEF IndexerInv

LEMMA EndKeeps ==
    ASSUME IndexerInv, NEW w \in Workers, EndRun(w),
           UNCHANGED <<up, chain, forks, known, events, receipt, cursor, checkpoints>>,
           UNCHANGED <<late, fresh, scanned>>, faults' \in 0 .. MaxFaults
    PROVE  IndexerInv'
<1>1. wk'[w] = Idle /\ wk' = [wk EXCEPT ![w] = Idle] /\ Idle \in Runs
  BY IdleFacts DEF EndRun, IndexerInv, TypeOK
<1>2. cursor'.revision \in Nat
  BY CursorFacts DEF IndexerInv
<1>3. RunTrue(w)' /\ FenceTrue(w)'
  BY <1>1, <1>2, IdleKeeps
<1>4. QED
  BY <1>1, <1>3, StepKeeps

\* Another worker's lease, or its end: the cursor and the rows are the same.
LEMMA LeaseKeeps ==
    ASSUME IndexerInv, NEW owner \in Workers \cup {None}, NEW expired \in BOOLEAN,
           cursor' = [cursor EXCEPT !.owner = owner, !.expired = expired],
           UNCHANGED <<up, chain, forks, known, events, receipt, checkpoints>>,
           UNCHANGED <<late, fresh, scanned>>, faults' \in 0 .. MaxFaults,
           wk' \in [Workers -> Runs],
           \A v \in Workers : \/ RunTrue(v)' /\ FenceTrue(v)'
                              \/ wk'[v] = wk[v] /\ (owner # v \/ owner = cursor.owner)
    PROVE  IndexerInv'
<1>1. TypeOK /\ CursorTypes
  BY DEF IndexerInv
<1>2. /\ cursor'.next = cursor.next /\ cursor'.revision = cursor.revision
      /\ cursor'.owner = owner /\ cursor'.expired = expired /\ CursorTypes'
  BY <1>1 DEF CursorTypes
<1>3. TypeOK'
  BY <1>1, <1>2 DEF TypeOK
<1>4. ChainTrue' /\ PointsTrue' /\ ScannedTrue' /\ CursorIsCheckpointed'
  BY <1>2, StoreKept
<1>5. ASSUME NEW v \in Workers, wk'[v] = wk[v], owner # v \/ owner = cursor.owner
      PROVE  RunTrue(v)' /\ FenceTrue(v)'
  <2>1. RunTrue(v)'
    BY <1>2, <1>5, RunKept DEF Bound
  <2>2. Superseded(v)' \/ ~Superseded(v)
    BY <1>2, <1>5 DEF Superseded
  <2>3. FenceTrue(v)'
    BY <1>5, <2>2, FenceKept
  <2>4. QED
    BY <2>1, <2>3
<1>6. QED
  BY <1>2, <1>3, <1>4, <1>5 DEF IndexerInv

LEMMA ClaimKeeps ==
    ASSUME IndexerInv, NEW w \in Workers, Claim(w)
    PROVE  IndexerInv'
<1>1. TypeOK /\ CursorTypes /\ PointsTrue
  BY DEF IndexerInv
<1>2. PICK s : s = (IF cursor.next = Start THEN "scan" ELSE "checkpoints")
  OBVIOUS
<1>3. PICK r : r = [Idle EXCEPT !.at = s, !.next = cursor.next, !.rev = cursor.revision]
  OBVIOUS
<1>4. /\ cursor' = [cursor EXCEPT !.owner = w, !.expired = FALSE]
      /\ wk' = [wk EXCEPT ![w] = r] /\ wk[w].at = "idle"
      /\ UNCHANGED <<up, chain, forks, known, events, receipt, checkpoints, faults>>
      /\ UNCHANGED <<late, fresh, scanned>>
  BY <1>2, <1>3 DEF Claim, world, history
<1>5. /\ s \in {"scan", "checkpoints"} /\ (s = "scan" => cursor.next = 1)
  BY <1>2 DEF Start
<1>6. /\ r \in Runs /\ r.at = s /\ r.next = cursor.next /\ r.rev = cursor.revision
  BY <1>1, <1>3, <1>5, IdleFacts DEF Runs, Steps, CursorTypes
<1>7. /\ wk'[w] = r /\ wk' \in [Workers -> Runs]
      /\ \A v \in Workers \ {w} : wk'[v] = wk[v]
      /\ cursor'.next = cursor.next /\ cursor'.revision = cursor.revision
      /\ cursor'.owner = w
  BY <1>1, <1>4, <1>6 DEF TypeOK, CursorTypes
<1>8. RunTrue(w)'
  <2>1. cursor.revision \in Nat
    BY <1>1, CursorFacts
  <2>2. QED
    BY <1>5, <1>6, <1>7, <2>1 DEF RunTrue, Ranged, SealTrue, TodoTrue, WindowTrue
<1>9. FenceTrue(w)'
  <2>1. s = "scan" => scanned = {}
    BY <1>1, <1>5, PointFacts DEF PointsTrue, TypeOK
  <2>2. QED
    BY <1>4, <1>5, <1>6, <1>7, <2>1 DEF FenceTrue, Fence, Ranged
<1>10. faults' \in 0 .. MaxFaults
  BY <1>1, <1>4 DEF TypeOK
<1>11. QED
  BY <1>4, <1>7, <1>8, <1>9, <1>10, LeaseKeeps

LEMMA ReleaseKeeps ==
    ASSUME IndexerInv, NEW w \in Workers, Release(w)
    PROVE  IndexerInv'
<1>1. /\ cursor' = [cursor EXCEPT !.owner = None, !.expired = FALSE]
      /\ UNCHANGED <<up, chain, forks, known, events, receipt, checkpoints, faults, wk>>
      /\ UNCHANGED <<late, fresh, scanned>>
  BY DEF Release, world, history
<1>2. faults' \in 0 .. MaxFaults /\ wk' \in [Workers -> Runs]
  BY <1>1 DEF IndexerInv, TypeOK
<1>3. /\ \A v \in Workers : wk'[v] = wk[v] /\ None # v
      /\ None \in Workers \cup {None}
  BY <1>1, Bounds
<1>4. PICK o \in Workers \cup {None} : o = None
  BY <1>3
<1>5. cursor' = [cursor EXCEPT !.owner = o, !.expired = FALSE]
  BY <1>1, <1>4
<1>6. QED
  BY <1>1, <1>2, <1>3, <1>4, <1>5, LeaseKeeps

LEMMA LeaseRunsOutKeeps ==
    ASSUME IndexerInv, LeaseRunsOut
    PROVE  IndexerInv'
<1>1. TypeOK /\ CursorTypes
  BY DEF IndexerInv
<1>2. PICK o : o = cursor.owner
  OBVIOUS
<1>3. /\ cursor' = [cursor EXCEPT !.expired = TRUE]
      /\ UNCHANGED <<up, chain, forks, known, events, receipt, checkpoints, wk>>
      /\ UNCHANGED <<late, fresh, scanned>>
      /\ faults' = faults \/ (faults < MaxFaults /\ faults' = faults + 1)
  BY DEF LeaseRunsOut, world, history
<1>4. cursor' = [cursor EXCEPT !.owner = o, !.expired = TRUE] /\ o \in Workers \cup {None}
  BY <1>1, <1>2, <1>3 DEF CursorTypes
<1>5. faults' \in 0 .. MaxFaults /\ wk' \in [Workers -> Runs]
  BY <1>1, <1>3, Bounds DEF TypeOK
<1>6. QED
  BY <1>2, <1>3, <1>4, <1>5, LeaseKeeps

LEMMA FailKeeps ==
    ASSUME IndexerInv, NEW w \in Workers, Fail(w)
    PROVE  IndexerInv'
<1>1. faults' \in 0 .. MaxFaults
  BY Bounds DEF Fail, IndexerInv, TypeOK
<1>2. QED
  BY <1>1, EndKeeps DEF Fail, world, store, history

\* The journal's projection and the reading of a receipt.
LEMMA OutsideKeeps ==
    ASSUME IndexerInv,
           (\E q \in Quotes : Project(q)) \/ (\E t \in Txs, b \in Heights : ReadReceipt(t, b))
    PROVE  IndexerInv'
<1>1. TypeOK /\ CursorTypes
  BY DEF IndexerInv
<1>2. /\ UNCHANGED <<up, chain, forks, events, cursor, checkpoints, wk, faults>>
      /\ UNCHANGED <<late, fresh, scanned>>
      /\ known' \subseteq Quotes /\ receipt' \in [Txs -> 0 .. MaxHeight]
  BY <1>1, Bounds DEF Project, ReadReceipt, history, world, store, TypeOK, Heights
<1>3. TypeOK' /\ CursorTypes'
  BY <1>1, <1>2 DEF TypeOK, CursorTypes
<1>4. ChainTrue' /\ PointsTrue' /\ ScannedTrue' /\ CursorIsCheckpointed'
  BY <1>2, StoreKept
<1>5. ASSUME NEW v \in Workers PROVE RunTrue(v)' /\ FenceTrue(v)'
  BY <1>2, RunKept, FenceKept DEF Bound, Superseded
<1>6. QED
  BY <1>3, <1>4, <1>5 DEF IndexerInv

-----------------------------------------------------------------------------
(* Rows.                                                                   *)

\* A row is inserted with its block, or changes its state and keeps it.
RowStep(t, s, b) ==
    /\ SetRow(t, s, b)
    /\ s \in {"canonical", "removed"}
    /\ b \in 0 .. MaxHeight
    /\ events[t].state = "absent" \/ events[t].block = b

LEMMA RowStepFacts ==
    ASSUME TypeOK, NEW t \in Txs, NEW s, NEW b, RowStep(t, s, b)
    PROVE  /\ events' \in [Txs -> Rows]
           /\ \A u \in Txs \ {t} : events'[u] = events[u]
           /\ events'[t].state = s /\ events'[t].block = b
           /\ \A u \in Txs : \A c : Bound(u, c) => Bound(u, c)'
           /\ \A c : Bound(t, c)' => c = b
           /\ \A c : IsCanonical(t, c)' <=> s = "canonical" /\ c = b
           /\ \A u \in Txs \ {t} : \A c : IsCanonical(u, c)' <=> IsCanonical(u, c)
<1>1. PICK row : row = [state |-> s, block |-> b]
  OBVIOUS
<1>2. events' = [events EXCEPT ![t] = row] /\ events \in [Txs -> Rows]
  BY <1>1 DEF RowStep, SetRow, TypeOK
<1>3. row \in Rows /\ row.state = s /\ row.block = b /\ s # "absent"
  BY <1>1 DEF RowStep, Rows
<1>4. /\ events' \in [Txs -> Rows] /\ events'[t] = row
      /\ \A u \in Txs \ {t} : events'[u] = events[u]
  BY <1>2, <1>3
<1>5. \A u \in Txs : \A c : Bound(u, c) => Bound(u, c)'
  BY <1>3, <1>4 DEF Bound, RowStep
<1>6. \A c : IsCanonical(t, c)' <=> s = "canonical" /\ c = b
  BY <1>1, <1>4 DEF IsCanonical
<1>7. QED
  BY <1>1, <1>3, <1>4, <1>5, <1>6 DEF IsCanonical, Bound

LEMMA AgreesKept ==
    ASSUME IndexerInv, NEW t \in Txs, NEW s, NEW b, RowStep(t, s, b),
           UNCHANGED chain, late' \ {t} = late \ {t},
           NEW p \in scanned, Matches(p), Agrees(p),
           t \in late' \/ (s = "canonical" /\ OnChain(t, b)) \/ p.block # b
    PROVE  Agrees(p)'
<1>1. /\ \A u \in Txs : \A c : Bound(u, c) => Bound(u, c)'
      /\ \A c : Bound(t, c)' => c = b
      /\ \A c : IsCanonical(t, c)' <=> s = "canonical" /\ c = b
      /\ \A u \in Txs \ {t} : \A c : IsCanonical(u, c)' <=> IsCanonical(u, c)
  BY RowStepFacts DEF IndexerInv
<1>2. \A u, c : OnChain(u, c)' <=> OnChain(u, c)
  BY DEF OnChain
<1>3. ASSUME NEW u \in Txs \ late', u # t
      PROVE  OnChain(u, p.block)' <=> IsCanonical(u, p.block)'
  BY <1>1, <1>2, <1>3 DEF Agrees
<1>4. ASSUME t \notin late' PROVE OnChain(t, p.block)' <=> IsCanonical(t, p.block)'
  <2>1. CASE p.block # b
    <3>1. ~IsCanonical(t, p.block)'
      BY <1>1, <2>1
    <3>2. OnChain(t, p.block) => Bound(t, p.block)
      BY DEF IndexerInv, ScannedTrue
    <3>3. QED
      BY <1>1, <1>2, <2>1, <3>1, <3>2
  <2>2. CASE p.block = b
    BY <1>1, <1>2, <1>4, <2>2
  <2>3. QED
    BY <2>1, <2>2
<1>5. QED
  BY <1>3, <1>4 DEF Agrees

\* The checkpoints vouch for no block from which a row is taken back.
LEMMA RowsScanned ==
    ASSUME IndexerInv, NEW t \in Txs, NEW s, NEW b, RowStep(t, s, b),
           UNCHANGED <<chain, checkpoints, scanned>>, late' \ {t} = late \ {t},
           \/ t \in late' \/ (s = "canonical" /\ OnChain(t, b))
           \/ \A p \in scanned : Matches(p) => \/ p.block # b
                                               \/ \A c \in checkpoints : p.block <= c.block => ~Matches(c)
    PROVE  ScannedTrue'
<1>1. \A u \in Txs : \A c : Bound(u, c) => Bound(u, c)'
  BY RowStepFacts DEF IndexerInv
<1>2. SUFFICES ASSUME NEW p \in scanned, Matches(p)
               PROVE  /\ \A u \in Txs : OnChain(u, p.block) => Bound(u, p.block)'
                      /\ Agrees(p)' \/ \A c \in checkpoints : p.block <= c.block => ~Matches(c)
  BY DEF ScannedTrue, Matches, OnChain
<1>3. /\ \A u \in Txs : OnChain(u, p.block) => Bound(u, p.block)
      /\ Agrees(p) \/ \A c \in checkpoints : p.block <= c.block => ~Matches(c)
  BY <1>2 DEF IndexerInv, ScannedTrue
<1>4. ASSUME Agrees(p), t \in late' \/ (s = "canonical" /\ OnChain(t, b)) \/ p.block # b
      PROVE  Agrees(p)'
  BY <1>2, <1>4, AgreesKept
<1>5. QED
  BY <1>1, <1>2, <1>3, <1>4

\* A row somebody else writes leaves the run that is not superseded what it
\* relies on: it is late, or a settlement the chain shows where it says.
LEMMA FenceOther ==
    ASSUME IndexerInv, NEW t \in Txs, NEW s, NEW b, RowStep(t, s, b),
           UNCHANGED <<chain, forks, cursor, checkpoints, scanned>>,
           late' \ {t} = late \ {t}, fresh \subseteq fresh', NEW v \in Workers, wk'[v] = wk[v],
           t \in late' \/ (s = "canonical" /\ OnChain(t, b) /\ t \in fresh')
    PROVE  FenceTrue(v)'
<1>1. PICK r : r = wk[v] /\ r = wk'[v]
  OBVIOUS
<1>2. Superseded(v)' <=> Superseded(v)
  BY DEF Superseded
<1>3. SUFFICES ASSUME Fence(r) PROVE Fence(r)'
  BY <1>1, <1>2 DEF FenceTrue, IndexerInv
<1>4. /\ r.at \in Ranged => RangeTrue(r)
      /\ TodoTrue(r) /\ r.logs \subseteq Logs
  BY <1>1, RunFacts DEF IndexerInv, RunTrue
<1>5. /\ \A c : IsCanonical(t, c)' <=> s = "canonical" /\ c = b
      /\ \A u \in Txs \ {t} : \A c : IsCanonical(u, c)' <=> IsCanonical(u, c)
      /\ \A u \in Txs : \A c : Bound(u, c) => Bound(u, c)'
      /\ \A c : Bound(t, c)' => c = b
      /\ \A u \in Txs \ {t} : events'[u] = events[u]
  BY RowStepFacts DEF IndexerInv
<1>6. /\ \A p : Matches(p)' <=> Matches(p)
      /\ \A u, c : OnChain(u, c)' <=> OnChain(u, c)
  BY DEF Matches, OnChain
<1>7. ASSUME r.at \in Ranged \cup {"scan", "logs"}, NEW p \in scanned, Matches(p) PROVE Agrees(p)'
  <2>1. Agrees(p)
    BY <1>3, <1>7 DEF Fence
  <2>2. QED
    BY <1>7, <2>1, AgreesKept
<1>8. ASSUME r.at \in Ranged, NEW p \in r.seen, Matches(p), NEW u \in Txs \ late', IsCanonical(u, p.block)'
      PROVE  \/ [tx |-> u, block |-> p.block] \in r.logs
             \/ u \in Txs \ late /\ IsCanonical(u, p.block)
  <2>1. CASE u = t
    <3>1. OnChain(u, p.block)
      BY <1>5, <1>8, <2>1
    <3>2. QED
      BY <1>4, <1>8, <3>1 DEF RangeTrue
  <2>2. CASE u # t
    BY <1>5, <1>8, <2>2
  <2>3. QED
    BY <2>1, <2>2
<1>9. ASSUME r.at = "clean", NEW p \in r.seen, Matches(p), NEW u \in Txs \ late', IsCanonical(u, p.block)'
      PROVE  [tx |-> u, block |-> p.block] \in r.logs \cup r.todo
  BY <1>3, <1>8, <1>9 DEF Fence, Ranged
<1>10. ASSUME r.at = "apply", NEW p \in r.seen, Matches(p), NEW u \in Txs \ late', IsCanonical(u, p.block)'
       PROVE  [tx |-> u, block |-> p.block] \in r.logs
  BY <1>3, <1>8, <1>10 DEF Fence, Ranged
<1>11. ASSUME r.at = "apply", NEW l \in r.logs \ r.todo, l.tx \notin late'
       PROVE  IsCanonical(l.tx, l.block)'
  <2>1. l.tx \in Txs /\ Bound(l.tx, l.block)
    BY <1>4, <1>11, LogFacts DEF TodoTrue
  <2>2. CASE l.tx = t
    BY <1>5, <1>11, <2>1, <2>2
  <2>3. CASE l.tx # t
    BY <1>3, <1>5, <1>11, <2>1, <2>3 DEF Fence
  <2>4. QED
    BY <2>2, <2>3
<1>12. ASSUME r.at = "unwind", NEW u \in Txs \ (late' \cup fresh'), events'[u].state = "canonical",
              r.to < events'[u].block, events'[u].block < r.next
       PROVE  [tx |-> u, block |-> events'[u].block] \in r.todo
  <2>1. u # t /\ u \notin late /\ u \notin fresh
    BY <1>12
  <2>2. events'[u] = events[u]
    BY <1>5, <2>1
  <2>3. QED
    BY <1>3, <1>12, <2>1, <2>2 DEF Fence
<1>13. QED
  BY <1>6, <1>7, <1>9, <1>10, <1>11, <1>12 DEF Fence

LEMMA StoreReceiptKeeps ==
    ASSUME IndexerInv, NEW t \in Txs, StoreReceipt(t)
    PROVE  IndexerInv'
<1>1. TypeOK /\ CursorTypes
  BY DEF IndexerInv
<1>2. PICK b : b = receipt[t]
  OBVIOUS
<1>3. /\ UNCHANGED <<up, chain, forks, known, cursor, checkpoints, wk, faults, scanned>>
      /\ receipt' = [receipt EXCEPT ![t] = 0] /\ b \in 0 .. MaxHeight
      /\ receipt' \in [Txs -> 0 .. MaxHeight]
  BY <1>1, <1>2, Bounds DEF StoreReceipt, world, TypeOK
<1>4. CASE Fits(t, b)
  <2>1. /\ SetRow(t, "canonical", b)
        /\ late' = IF OnChain(t, b) THEN late \ {t} ELSE late \cup {t}
        /\ fresh' = fresh \cup {t}
    BY <1>2, <1>4 DEF StoreReceipt
  <2>2. RowStep(t, "canonical", b)
    BY <1>3, <1>4, <2>1 DEF RowStep, Fits
  <2>3. /\ late' \subseteq Txs /\ fresh' \subseteq Txs /\ late' \ {t} = late \ {t}
        /\ t \in late' \/ OnChain(t, b)
    BY <1>1, <2>1 DEF TypeOK
  <2>4. events' \in [Txs -> Rows] /\ \A u \in Txs : \A c : Bound(u, c) => Bound(u, c)'
    BY <1>1, <2>2, RowStepFacts
  <2>5. TypeOK' /\ CursorTypes'
    BY <1>1, <1>3, <2>3, <2>4 DEF TypeOK, CursorTypes
  <2>6. ScannedTrue'
    BY <1>3, <2>2, <2>3, RowsScanned
  <2>7. ChainTrue' /\ PointsTrue' /\ CursorIsCheckpointed'
    BY <1>3 DEF IndexerInv, ChainTrue, OnChain, PointsTrue, Real, Matches,
                CursorIsCheckpointed, LastPoint
  <2>8. ASSUME NEW v \in Workers PROVE RunTrue(v)' /\ FenceTrue(v)'
    <3>1. RunTrue(v)'
      BY <1>3, <2>4, RunKept
    <3>2. FenceTrue(v)'
      BY <1>3, <2>1, <2>2, <2>3, FenceOther
    <3>3. QED
      BY <3>1, <3>2
  <2>9. QED
    BY <2>5, <2>6, <2>7, <2>8 DEF IndexerInv
<1>5. CASE ~Fits(t, b)
  <2>1. UNCHANGED <<events, late, fresh>>
    BY <1>2, <1>5 DEF StoreReceipt
  <2>2. TypeOK' /\ CursorTypes'
    BY <1>1, <1>3, <2>1 DEF TypeOK, CursorTypes
  <2>3. ChainTrue' /\ PointsTrue' /\ ScannedTrue' /\ CursorIsCheckpointed'
    BY <1>3, <2>1, StoreKept
  <2>4. ASSUME NEW v \in Workers PROVE RunTrue(v)' /\ FenceTrue(v)'
    BY <1>3, <2>1, RunKept, FenceKept DEF Bound, Superseded
  <2>5. QED
    BY <2>2, <2>3, <2>4 DEF IndexerInv
<1>6. QED
  BY <1>4, <1>5

-----------------------------------------------------------------------------
(* A worker writes a row.                                                  *)

LEMMA TodoFacts ==
    ASSUME TypeOK, NEW w \in Workers, NEW todo \in SUBSET wk[w].todo, NEW r,
           r = [wk[w] EXCEPT !.todo = todo]
    PROVE  /\ r \in Runs /\ r.at = wk[w].at /\ r.next = wk[w].next /\ r.rev = wk[w].rev
           /\ r.cps = wk[w].cps /\ r.to = wk[w].to /\ r.logs = wk[w].logs
           /\ r.seen = wk[w].seen /\ r.hash = wk[w].hash /\ r.todo = todo
BY RunFacts DEF Runs

\* A run that has dealt with one more of its events.
LEMMA TodoKeeps ==
    ASSUME IndexerInv, NEW w \in Workers, NEW e \in wk[w].todo,
           wk[w].at \in {"unwind", "clean", "apply"},
           NEW r, r = [wk[w] EXCEPT !.todo = wk[w].todo \ {e}], wk'[w] = r,
           UNCHANGED <<chain, forks, cursor, checkpoints>>,
           \A t \in Txs : \A b : Bound(t, b) => Bound(t, b)',
           wk[w].at = "apply" => Bound(e.tx, e.block)'
    PROVE  RunTrue(w)'
<1>1. PICK o : o = wk[w]
  OBVIOUS
<1>2. /\ r.at = o.at /\ r.next = o.next /\ r.rev = o.rev /\ r.cps = o.cps /\ r.to = o.to
      /\ r.logs = o.logs /\ r.seen = o.seen /\ r.hash = o.hash /\ r.todo = o.todo \ {e}
      /\ o.logs \subseteq Logs /\ o.at \in {"unwind", "clean", "apply"}
  BY <1>1, TodoFacts, RunFacts DEF IndexerInv
<1>3. RunTrue(w)
  BY DEF IndexerInv
<1>4. r.at \in Ranged => RangeTrue(r)'
  BY <1>1, <1>2, <1>3 DEF RunTrue, RangeTrue, Real, Matches, OnChain
<1>5. SealTrue(r)'
  BY <1>1, <1>2, <1>3 DEF RunTrue, SealTrue, Real, Matches
<1>6. TodoTrue(r)'
  <2>1. \A l \in o.logs : l.tx \in Txs
    BY <1>2, LogFacts
  <2>2. TodoTrue(o) /\ (o.at = "apply" => Bound(e.tx, e.block)')
    BY <1>1, <1>3 DEF RunTrue
  <2>3. CASE o.at # "apply"
    BY <1>2, <2>2, <2>3 DEF TodoTrue
  <2>4. CASE o.at = "apply"
    BY <1>2, <2>1, <2>2, <2>4 DEF TodoTrue
  <2>5. QED
    BY <2>3, <2>4
<1>7. WindowTrue(r)'
  BY <1>1, <1>2, <1>3 DEF RunTrue, WindowTrue, Oldest, Max2, Matches
<1>8. QED
  BY <1>1, <1>2, <1>3, <1>4, <1>5, <1>6, <1>7 DEF RunTrue

\* The one run that may write such a row writes none that a scanned block shows.
LEMMA RowKeeps ==
    ASSUME IndexerInv, NEW w \in Workers, NEW t \in Txs, NEW s, NEW b, RowStep(t, s, b),
           UNCHANGED <<up, chain, forks, known, receipt, cursor, checkpoints, faults>>,
           UNCHANGED <<fresh, scanned>>,
           late' = IF Superseded(w) THEN late \cup {t} ELSE late \ {t},
           NEW r \in Runs, r.rev = wk[w].rev, wk' = [wk EXCEPT ![w] = r], RunTrue(w)',
           ~Superseded(w) => FenceTrue(w)',
           ~Superseded(w) => \A p \in scanned : Matches(p) =>
               p.block # b \/ \A c \in checkpoints : p.block <= c.block => ~Matches(c)
    PROVE  IndexerInv'
<1>1. TypeOK /\ CursorTypes
  BY DEF IndexerInv
<1>2. /\ wk' \in [Workers -> Runs] /\ wk'[w] = r
      /\ \A v \in Workers \ {w} : wk'[v] = wk[v]
  BY <1>1 DEF TypeOK
<1>3. events' \in [Txs -> Rows] /\ \A u \in Txs : \A c : Bound(u, c) => Bound(u, c)'
  BY <1>1, RowStepFacts
<1>4. late' \subseteq Txs /\ late' \ {t} = late \ {t} /\ (Superseded(w) => t \in late')
  BY <1>1 DEF TypeOK
<1>5. TypeOK' /\ CursorTypes'
  BY <1>1, <1>2, <1>3, <1>4 DEF TypeOK, CursorTypes
<1>6. ScannedTrue'
  BY <1>4, RowsScanned
<1>7. ChainTrue' /\ PointsTrue' /\ CursorIsCheckpointed'
  BY DEF IndexerInv, ChainTrue, OnChain, PointsTrue, Real, Matches,
         CursorIsCheckpointed, LastPoint
<1>8. ASSUME NEW v \in Workers PROVE RunTrue(v)' /\ FenceTrue(v)'
  <2>1. CASE v # w
    <3>1. wk'[v] = wk[v]
      BY <1>2, <2>1
    <3>2. RunTrue(v)'
      BY <1>3, <3>1, RunKept
    <3>3. CASE Superseded(w)
      BY <1>4, <3>1, <3>2, <3>3, FenceOther
    <3>4. CASE ~Superseded(w)
      BY <2>1, <3>1, <3>2, <3>4 DEF FenceTrue, Superseded
    <3>5. QED
      BY <3>2, <3>3, <3>4
  <2>2. CASE v = w
    <3>1. Superseded(w)' <=> Superseded(w)
      BY <1>2 DEF Superseded
    <3>2. FenceTrue(w)'
      BY <3>1 DEF FenceTrue
    <3>3. QED
      BY <2>2, <3>2
  <2>3. QED
    BY <2>1, <2>2
<1>9. QED
  BY <1>5, <1>6, <1>7, <1>8 DEF IndexerInv

\* The run after it took an event off its list of rows to take back, if the
\* row is not canonical then.
LEMMA RemovedFence ==
    ASSUME IndexerInv, NEW w \in Workers, NEW e \in wk[w].todo,
           wk[w].at \in {"unwind", "clean"}, ~Superseded(w),
           NEW r, r = [wk[w] EXCEPT !.todo = wk[w].todo \ {e}], wk'[w] = r,
           UNCHANGED <<chain, forks, cursor, checkpoints, scanned, fresh>>,
           late' \ {e.tx} = late \ {e.tx}, events'[e.tx].state # "canonical",
           \A u \in Txs \ {e.tx} : events'[u] = events[u],
           wk[w].at = "clean" => \A p \in scanned : Matches(p) /\ Agrees(p) => Agrees(p)'
    PROVE  FenceTrue(w)'
<1>1. PICK o : o = wk[w]
  OBVIOUS
<1>2. /\ r.at = o.at /\ r.next = o.next /\ r.to = o.to /\ r.logs = o.logs /\ r.seen = o.seen
      /\ r.todo = o.todo \ {e} /\ o.todo \subseteq Logs /\ o.at \in {"unwind", "clean"}
  BY <1>1, TodoFacts, RunFacts DEF IndexerInv
<1>3. Fence(o) /\ e.tx \in Txs /\ e \in o.todo
  BY <1>1, <1>2, LogFacts DEF IndexerInv, FenceTrue
<1>4. /\ \A u \in Txs \ {e.tx} : \A c : IsCanonical(u, c)' <=> IsCanonical(u, c)
      /\ \A c : ~IsCanonical(e.tx, c)'
      /\ \A p : Matches(p)' <=> Matches(p)
  BY DEF IsCanonical, Matches
<1>5. \A u, c : [tx |-> u, block |-> c] = e => u = e.tx
  OBVIOUS
<1>6. CASE o.at = "clean"
  <2>1. \A p \in scanned' : Matches(p)' => Agrees(p)'
    BY <1>1, <1>3, <1>4, <1>6 DEF Fence, Ranged
  <2>2. ASSUME NEW p \in r.seen, NEW u \in Txs \ late', Matches(p)', IsCanonical(u, p.block)'
        PROVE  [tx |-> u, block |-> p.block] \in r.logs \cup r.todo
    <3>1. u # e.tx /\ u \notin late /\ IsCanonical(u, p.block) /\ Matches(p)
      BY <1>4, <2>2
    <3>2. [tx |-> u, block |-> p.block] \in o.logs \cup o.todo
      BY <1>2, <1>3, <1>6, <2>2, <3>1 DEF Fence
    <3>3. QED
      BY <1>2, <1>5, <3>1, <3>2
  <2>3. Fence(r)'
    BY <1>2, <1>6, <2>1, <2>2 DEF Fence
  <2>4. QED
    BY <2>3 DEF FenceTrue
<1>7. CASE o.at = "unwind"
  <2>1. ASSUME NEW u \in Txs \ (late' \cup fresh'), events'[u].state = "canonical",
               r.to < events'[u].block, events'[u].block < r.next
        PROVE  [tx |-> u, block |-> events'[u].block] \in r.todo
    <3>1. u # e.tx /\ u \notin late /\ u \notin fresh /\ events'[u] = events[u]
      BY <2>1
    <3>2. [tx |-> u, block |-> events[u].block] \in o.todo
      BY <1>2, <1>3, <1>7, <2>1, <3>1 DEF Fence
    <3>3. QED
      BY <1>2, <1>5, <3>1, <3>2
  <2>2. Fence(r)'
    BY <1>2, <1>7, <2>1 DEF Fence, Ranged
  <2>3. QED
    BY <2>2 DEF FenceTrue
<1>8. QED
  BY <1>2, <1>6, <1>7

LEMMA RemoveKeeps ==
    ASSUME IndexerInv, NEW w \in Workers, wk[w].at \in {"unwind", "clean"}, RemoveNext(w),
           UNCHANGED <<up, chain, forks, known, receipt, cursor, checkpoints, faults>>,
           UNCHANGED <<fresh, scanned>>
    PROVE  IndexerInv'
<1>1. TypeOK /\ CursorTypes /\ RunTrue(w)
  BY DEF IndexerInv
<1>2. PICK e \in wk[w].todo :
          \/ /\ events[e.tx].state # "canonical"
             /\ wk' = [wk EXCEPT ![w].todo = @ \ {e}]
             /\ UNCHANGED <<events, late>>
          \/ EndRun(w) /\ UNCHANGED <<events, late>>
          \/ /\ events[e.tx].state = "canonical" /\ events[e.tx].block = e.block
             /\ wk' = [wk EXCEPT ![w].todo = @ \ {e}]
             /\ SetRow(e.tx, "removed", e.block)
             /\ late' = IF Superseded(w) THEN late \cup {e.tx} ELSE late \ {e.tx}
  BY DEF RemoveNext
<1>3. e \in Logs /\ e.tx \in Txs /\ e.block \in 0 .. MaxHeight
  BY <1>1, RunFacts, LogFacts, Bounds
<1>4. PICK r : r = [wk[w] EXCEPT !.todo = wk[w].todo \ {e}]
  OBVIOUS
<1>5. /\ r \in Runs /\ r.rev = wk[w].rev
      /\ faults' \in 0 .. MaxFaults /\ wk[w].at \in {"unwind", "clean", "apply"}
      /\ wk[w].at # "apply"
  <2>1. PICK todo \in SUBSET wk[w].todo : todo = wk[w].todo \ {e}
    OBVIOUS
  <2>2. r \in Runs /\ r.rev = wk[w].rev
    BY <1>1, <1>4, <2>1, TodoFacts
  <2>3. QED
    BY <1>1, <2>2 DEF TypeOK
<1>6. CASE EndRun(w) /\ UNCHANGED <<events, late>>
  BY <1>5, <1>6, EndKeeps
<1>7. ASSUME wk' = [wk EXCEPT ![w].todo = @ \ {e}]
      PROVE  wk' = [wk EXCEPT ![w] = r] /\ wk'[w] = r
  BY <1>1, <1>4, <1>7 DEF TypeOK
<1>8. CASE /\ events[e.tx].state # "canonical"
           /\ wk' = [wk EXCEPT ![w].todo = @ \ {e}]
           /\ UNCHANGED <<events, late>>
  <2>1. wk' = [wk EXCEPT ![w] = r] /\ wk'[w] = r
    BY <1>7, <1>8
  <2>2. RunTrue(w)'
    BY <1>4, <1>5, <1>8, <2>1, TodoKeeps DEF Bound
  <2>3. \A p \in scanned : Matches(p) /\ Agrees(p) => Agrees(p)'
    BY <1>8 DEF Agrees, OnChain, IsCanonical
  <2>4. FenceTrue(w)'
    <3>1. CASE Superseded(w)
      BY <1>5, <2>1, <3>1 DEF FenceTrue, Superseded
    <3>2. CASE ~Superseded(w)
      BY <1>4, <1>8, <2>1, <2>3, <3>2, RemovedFence
    <3>3. QED
      BY <3>1, <3>2
  <2>5. QED
    BY <1>5, <1>8, <2>1, <2>2, <2>4, StepKeeps
<1>9. CASE /\ events[e.tx].state = "canonical" /\ events[e.tx].block = e.block
           /\ wk' = [wk EXCEPT ![w].todo = @ \ {e}]
           /\ SetRow(e.tx, "removed", e.block)
           /\ late' = IF Superseded(w) THEN late \cup {e.tx} ELSE late \ {e.tx}
  <2>1. wk' = [wk EXCEPT ![w] = r] /\ wk'[w] = r
    BY <1>7, <1>9
  <2>2. PICK t \in Txs : t = e.tx
    BY <1>3
  <2>3. PICK b : b = e.block
    OBVIOUS
  <2>4. RowStep(t, "removed", b)
    BY <1>3, <1>9, <2>2, <2>3 DEF RowStep
  <2>5. /\ \A u \in Txs : \A c : Bound(u, c) => Bound(u, c)'
        /\ \A u \in Txs \ {t} : events'[u] = events[u]
        /\ events'[t].state # "canonical"
    BY <1>1, <2>4, RowStepFacts
  <2>6. RunTrue(w)'
    BY <1>4, <1>5, <2>1, <2>5, TodoKeeps
  <2>7. ASSUME ~Superseded(w), NEW p \in scanned
        PROVE  /\ wk[w].at = "clean" => p.block # b
               /\ p.block # b \/ \A c \in checkpoints : p.block <= c.block => ~Matches(c)
    <3>1. /\ wk[w].next = cursor.next
          /\ wk[w].at = "unwind" => /\ wk[w].to < b
                                    /\ \A c \in checkpoints : wk[w].to < c.block => ~Matches(c)
          /\ wk[w].at = "clean" => wk[w].next <= b
      BY <1>1, <1>5, <2>3, <2>7 DEF RunTrue, WindowTrue, TodoTrue, Superseded
    <3>2. /\ p.block \in Nat /\ p.block < cursor.next /\ cursor.next \in Nat
          /\ wk[w].to \in Nat /\ b \in Nat /\ \A c \in checkpoints : c.block \in Nat
      BY <1>1, <1>3, <2>3, CursorFacts, PointFacts, RunFacts, Bounds
         DEF IndexerInv, PointsTrue, TypeOK
    <3>3. QED
      BY <1>5, <3>1, <3>2
  <2>8. /\ late' = IF Superseded(w) THEN late \cup {t} ELSE late \ {t}
        /\ late' \ {t} = late \ {t}
    BY <1>9, <2>2
  <2>9. ASSUME ~Superseded(w) PROVE FenceTrue(w)'
    <3>1. ASSUME wk[w].at = "clean", NEW p \in scanned, Matches(p), Agrees(p) PROVE Agrees(p)'
      <4>1. p.block # b
        BY <2>7, <2>9, <3>1
      <4>2. QED
        BY <2>4, <2>8, <3>1, <4>1, AgreesKept
    <3>2. /\ events'[e.tx].state # "canonical" /\ late' \ {e.tx} = late \ {e.tx}
          /\ \A u \in Txs \ {e.tx} : events'[u] = events[u]
      BY <2>2, <2>5, <2>8
    <3>3. QED
      BY <1>4, <2>1, <2>9, <3>1, <3>2, RemovedFence
  <2>10. QED
    BY <1>5, <2>1, <2>4, <2>6, <2>7, <2>8, <2>9, RowKeeps
<1>10. QED
  BY <1>2, <1>6, <1>8, <1>9

\* The run after it applied a log.
LEMMA AppliedFence ==
    ASSUME IndexerInv, NEW w \in Workers, NEW e \in wk[w].todo,
           wk[w].at = "apply", ~Superseded(w),
           NEW r, r = [wk[w] EXCEPT !.todo = wk[w].todo \ {e}], wk'[w] = r,
           UNCHANGED <<chain, forks, cursor, checkpoints, scanned>>,
           late' \ {e.tx} = late \ {e.tx}, IsCanonical(e.tx, e.block)',
           \A u \in Txs : \A b : Bound(u, b) => Bound(u, b)',
           \A u \in Txs \ {e.tx} : events'[u] = events[u],
           \A p \in scanned : Matches(p) /\ Agrees(p) => Agrees(p)'
    PROVE  FenceTrue(w)'
<1>1. PICK o : o = wk[w]
  OBVIOUS
<1>2. /\ r.at = "apply" /\ r.logs = o.logs /\ r.seen = o.seen
      /\ r.todo = o.todo \ {e} /\ o.todo \subseteq Logs /\ o.logs \subseteq Logs
  BY <1>1, TodoFacts, RunFacts DEF IndexerInv
<1>3. Fence(o) /\ e \in Logs /\ e.tx \in Txs /\ e \in o.todo /\ o.at = "apply"
  BY <1>1, <1>2, LogFacts DEF IndexerInv, FenceTrue
<1>4. TodoTrue(o)
  BY <1>1 DEF IndexerInv, RunTrue
<1>5. /\ \A u \in Txs \ {e.tx} : \A c : IsCanonical(u, c)' <=> IsCanonical(u, c)
      /\ \A c : IsCanonical(e.tx, c)' => c = e.block
      /\ \A c : Bound(e.tx, c)' => c = e.block
      /\ \A p : Matches(p)' <=> Matches(p)
  BY DEF IsCanonical, Matches, Bound
<1>6. e = [tx |-> e.tx, block |-> e.block] /\ e \in o.logs
  BY <1>3, <1>4, LogFacts DEF TodoTrue
<1>7. \A p \in scanned' : Matches(p)' => Agrees(p)'
  BY <1>3, <1>5 DEF Fence, Ranged
<1>8. ASSUME NEW p \in r.seen, NEW u \in Txs \ late', Matches(p)', IsCanonical(u, p.block)'
      PROVE  [tx |-> u, block |-> p.block] \in r.logs
  <2>1. CASE u = e.tx
    BY <1>2, <1>5, <1>6, <1>8, <2>1
  <2>2. CASE u # e.tx
    <3>1. u \notin late /\ IsCanonical(u, p.block) /\ Matches(p)
      BY <1>5, <1>8, <2>2
    <3>2. QED
      BY <1>2, <1>3, <1>8, <3>1 DEF Fence
  <2>3. QED
    BY <2>1, <2>2
<1>9. ASSUME NEW l \in r.logs \ r.todo, l.tx \notin late' PROVE IsCanonical(l.tx, l.block)'
  <2>1. l \in Logs /\ l.tx \in Txs /\ (l = e \/ l \in o.logs \ o.todo)
    BY <1>2, <1>9, LogFacts
  <2>2. CASE l = e
    BY <2>2
  <2>3. CASE l # e /\ l.tx = e.tx
    <3>1. Bound(l.tx, l.block)'
      BY <1>3, <1>4, <2>1, <2>3 DEF TodoTrue
    <3>2. l.block = e.block
      BY <1>5, <2>3, <3>1
    <3>3. QED
      BY <2>3, <3>2
  <2>4. CASE l.tx # e.tx
    <3>1. l.tx \notin late /\ l \in o.logs \ o.todo
      BY <1>9, <2>1, <2>4
    <3>2. IsCanonical(l.tx, l.block)
      BY <1>3, <3>1 DEF Fence
    <3>3. QED
      BY <1>5, <2>1, <2>4, <3>2
  <2>5. QED
    BY <2>2, <2>3, <2>4
<1>10. Fence(r)'
  BY <1>2, <1>7, <1>8, <1>9 DEF Fence
<1>11. QED
  BY <1>10 DEF FenceTrue

LEMMA ApplyKeeps ==
    ASSUME IndexerInv, NEW w \in Workers, Apply(w)
    PROVE  IndexerInv'
<1>1. TypeOK /\ CursorTypes /\ RunTrue(w) /\ wk[w].at = "apply"
  BY DEF IndexerInv, Apply
<1>2. /\ UNCHANGED <<up, chain, forks, known, receipt, cursor, checkpoints, faults>>
      /\ UNCHANGED <<fresh, scanned>>
  BY DEF Apply, world
<1>3. PICK e \in wk[w].todo :
          \/ EndRun(w) /\ UNCHANGED <<events, late>>
          \/ /\ ~Conflicts(e.tx, e.block)
             /\ wk' = [wk EXCEPT ![w].todo = @ \ {e}]
             /\ \/ /\ Fits(e.tx, e.block)
                   /\ SetRow(e.tx, "canonical", e.block)
                   /\ late' = IF Superseded(w) THEN late \cup {e.tx} ELSE late \ {e.tx}
                \/ ~Fits(e.tx, e.block) /\ UNCHANGED <<events, late>>
  BY DEF Apply
<1>4. e \in Logs /\ e.tx \in Txs /\ e.block \in 0 .. MaxHeight
  BY <1>1, RunFacts, LogFacts, Bounds
<1>5. PICK r : r = [wk[w] EXCEPT !.todo = wk[w].todo \ {e}]
  OBVIOUS
<1>6. /\ r \in Runs /\ r.rev = wk[w].rev /\ faults' \in 0 .. MaxFaults
  <2>1. PICK todo \in SUBSET wk[w].todo : todo = wk[w].todo \ {e}
    OBVIOUS
  <2>2. r \in Runs /\ r.rev = wk[w].rev
    BY <1>1, <1>5, <2>1, TodoFacts
  <2>3. QED
    BY <1>1, <1>2, <2>2 DEF TypeOK
<1>7. CASE EndRun(w) /\ UNCHANGED <<events, late>>
  BY <1>2, <1>6, <1>7, EndKeeps
<1>8. ASSUME wk' = [wk EXCEPT ![w].todo = @ \ {e}]
      PROVE  wk' = [wk EXCEPT ![w] = r] /\ wk'[w] = r
  BY <1>1, <1>5, <1>8 DEF TypeOK
<1>9. CASE /\ ~Conflicts(e.tx, e.block) /\ ~Fits(e.tx, e.block)
           /\ wk' = [wk EXCEPT ![w].todo = @ \ {e}]
           /\ UNCHANGED <<events, late>>
  <2>1. wk' = [wk EXCEPT ![w] = r] /\ wk'[w] = r
    BY <1>8, <1>9
  <2>2. IsCanonical(e.tx, e.block)' /\ Bound(e.tx, e.block)'
    BY <1>9 DEF Conflicts, IsCanonical, Bound
  <2>3. \A u \in Txs : \A b : Bound(u, b) => Bound(u, b)'
    BY <1>9 DEF Bound
  <2>4. RunTrue(w)'
    BY <1>1, <1>2, <1>5, <2>1, <2>2, <2>3, TodoKeeps
  <2>5. \A p \in scanned : Matches(p) /\ Agrees(p) => Agrees(p)'
    BY <1>2, <1>9 DEF Agrees, OnChain, IsCanonical
  <2>6. FenceTrue(w)'
    <3>1. CASE Superseded(w)
      BY <1>2, <1>6, <2>1, <3>1 DEF FenceTrue, Superseded
    <3>2. CASE ~Superseded(w)
      BY <1>1, <1>2, <1>5, <1>9, <2>1, <2>2, <2>3, <2>5, <3>2, AppliedFence
    <3>3. QED
      BY <3>1, <3>2
  <2>7. QED
    BY <1>2, <1>6, <1>9, <2>1, <2>4, <2>6, StepKeeps
<1>10. CASE /\ Fits(e.tx, e.block)
            /\ wk' = [wk EXCEPT ![w].todo = @ \ {e}]
            /\ SetRow(e.tx, "canonical", e.block)
            /\ late' = IF Superseded(w) THEN late \cup {e.tx} ELSE late \ {e.tx}
  <2>1. wk' = [wk EXCEPT ![w] = r] /\ wk'[w] = r
    BY <1>8, <1>10
  <2>2. PICK t \in Txs : t = e.tx
    BY <1>4
  <2>3. PICK b : b = e.block
    OBVIOUS
  <2>4. RowStep(t, "canonical", b)
    BY <1>4, <1>10, <2>2, <2>3 DEF RowStep, Fits
  <2>5. /\ \A u \in Txs : \A c : Bound(u, c) => Bound(u, c)'
        /\ \A u \in Txs \ {t} : events'[u] = events[u]
        /\ IsCanonical(t, b)' /\ Bound(t, b)'
    <3>1. events'[t].state = "canonical" /\ events'[t].block = b /\ IsCanonical(t, b)'
      BY <1>1, <2>4, RowStepFacts
    <3>2. QED
      BY <1>1, <2>4, <3>1, RowStepFacts DEF Bound
  <2>6. /\ \A u \in Txs \ {e.tx} : events'[u] = events[u]
        /\ IsCanonical(e.tx, e.block)' /\ Bound(e.tx, e.block)'
    BY <2>2, <2>3, <2>5 DEF IsCanonical, Bound
  <2>7. RunTrue(w)'
    BY <1>1, <1>2, <1>5, <2>1, <2>5, <2>6, TodoKeeps
  <2>8. ASSUME ~Superseded(w), NEW p \in scanned PROVE p.block # b
    <3>1. /\ wk[w].next = cursor.next /\ e \in wk[w].logs
          /\ \A l \in wk[w].logs : wk[w].next <= l.block
      BY <1>1, <2>8 DEF RunTrue, WindowTrue, TodoTrue, Superseded, RangeTrue, Ranged
    <3>2. p.block \in Nat /\ p.block < cursor.next /\ cursor.next \in Nat /\ b \in Nat
      BY <1>1, <1>4, <2>3, CursorFacts, PointFacts, Bounds DEF IndexerInv, PointsTrue, TypeOK
    <3>3. QED
      BY <2>3, <3>1, <3>2
  <2>9. /\ late' = IF Superseded(w) THEN late \cup {t} ELSE late \ {t}
        /\ late' \ {t} = late \ {t} /\ late' \ {e.tx} = late \ {e.tx}
    BY <1>10, <2>2
  <2>10. ASSUME ~Superseded(w) PROVE FenceTrue(w)'
    <3>1. ASSUME NEW p \in scanned, Matches(p), Agrees(p) PROVE Agrees(p)'
      <4>1. p.block # b
        BY <2>8, <2>10
      <4>2. QED
        BY <1>2, <2>4, <2>9, <3>1, <4>1, AgreesKept
    <3>2. QED
      BY <1>1, <1>2, <1>5, <2>1, <2>5, <2>6, <2>9, <2>10, <3>1, AppliedFence
  <2>11. QED
    BY <1>2, <1>6, <2>1, <2>4, <2>7, <2>8, <2>9, <2>10, RowKeeps
<1>11. QED
  BY <1>3, <1>7, <1>9, <1>10

-----------------------------------------------------------------------------
(* The steps of a run that write nothing.                                  *)

\* What such a step must show: where its run stands after it.
LEMMA QuietKeeps ==
    ASSUME IndexerInv, NEW w \in Workers,
           UNCHANGED <<world, store, receipt, faults, late, scanned>>,
           fresh' = fresh \/ (~Superseded(w) /\ fresh' = {}),
           NEW r \in Runs, wk' = [wk EXCEPT ![w] = r], r.rev = wk[w].rev,
           r.at \in {"orphans", "unwind"} => r.to < r.next,
           r.at \in Ranged => RangeTrue(r),
           r.at = "logs" => r.next <= r.to,
           SealTrue(r), TodoTrue(r), WindowTrue(r),
           ~Superseded(w) => Fence(r)'
    PROVE  IndexerInv'
<1>1. /\ UNCHANGED <<up, chain, forks, known, events, receipt, cursor, checkpoints, faults>>
      /\ UNCHANGED <<late, scanned>>
  BY DEF world, store
<1>2. /\ wk'[w] = r /\ faults' \in 0 .. MaxFaults /\ RunTrue(w)
  BY DEF IndexerInv, TypeOK
<1>3. r.at \in Ranged => RangeTrue(r)'
  BY <1>1 DEF RangeTrue, Real, Matches, OnChain
<1>4. SealTrue(r)' /\ TodoTrue(r)'
  BY <1>1 DEF SealTrue, TodoTrue, Real, Matches, Bound
<1>5. WindowTrue(r)'
  BY <1>1 DEF WindowTrue, Matches, Oldest, Max2
<1>6. RunTrue(w)'
  BY <1>1, <1>2, <1>3, <1>4, <1>5 DEF RunTrue
<1>7. FenceTrue(w)'
  BY <1>1, <1>2 DEF FenceTrue, Superseded
<1>8. QED
  BY <1>1, <1>2, <1>6, <1>7, StepKeeps

\* A step at which the run ends.
LEMMA QuietEnds ==
    ASSUME IndexerInv, NEW w \in Workers, EndRun(w),
           UNCHANGED <<world, store, receipt, faults, late, scanned>>, fresh' = fresh
    PROVE  IndexerInv'
<1>1. /\ UNCHANGED <<up, chain, forks, known, events, receipt, cursor, checkpoints>>
      /\ UNCHANGED <<late, fresh, scanned>> /\ faults' \in 0 .. MaxFaults
  BY DEF world, store, IndexerInv, TypeOK
<1>2. QED
  BY <1>1, EndKeeps

LEMMA ListCheckpointsKeeps ==
    ASSUME IndexerInv, NEW w \in Workers, ListCheckpoints(w)
    PROVE  IndexerInv'
<1>1. TypeOK /\ RunTrue(w) /\ wk[w].at = "checkpoints"
  BY DEF IndexerInv, ListCheckpoints
<1>2. PICK cps : cps = {p \in checkpoints : Oldest(wk[w].next) <= p.block /\ p.block < wk[w].next}
  OBVIOUS
<1>3. /\ UNCHANGED <<world, store, receipt, faults, late, scanned>> /\ fresh' = fresh
      /\ \/ /\ \E p \in cps : p.block = wk[w].next - 1
            /\ wk' = [wk EXCEPT ![w].at = "compare", ![w].cps = cps]
         \/ EndRun(w)
  BY <1>2 DEF ListCheckpoints, history
<1>4. CASE EndRun(w)
  BY <1>3, <1>4, QuietEnds
<1>5. CASE /\ \E p \in cps : p.block = wk[w].next - 1
           /\ wk' = [wk EXCEPT ![w].at = "compare", ![w].cps = cps]
  <2>1. PICK r : r = [wk[w] EXCEPT !.at = "compare", !.cps = cps]
    OBVIOUS
  <2>2. wk' = [wk EXCEPT ![w] = r]
    BY <1>1, <1>5, <2>1 DEF TypeOK
  <2>3. cps \subseteq Points
    BY <1>1, <1>2 DEF TypeOK
  <2>4. /\ r \in Runs /\ r.at = "compare" /\ r.cps = cps /\ r.rev = wk[w].rev
        /\ r.next = wk[w].next
    BY <1>1, <2>1, <2>3, RunFacts DEF Runs, Steps
  <2>5. WindowTrue(r)
    BY <1>1, <1>2, <1>5, <2>4 DEF WindowTrue, RunTrue
  <2>6. SealTrue(r) /\ TodoTrue(r) /\ r.at \notin Ranged
    BY <2>4 DEF SealTrue, TodoTrue, Ranged
  <2>7. Fence(r)'
    BY <2>4 DEF Fence, Ranged
  <2>8. QED
    BY <1>3, <2>2, <2>4, <2>5, <2>6, <2>7, QuietKeeps
<1>6. QED
  BY <1>3, <1>4, <1>5

LEMMA CompareLastKeeps ==
    ASSUME IndexerInv, NEW w \in Workers, CompareLast(w)
    PROVE  IndexerInv'
<1>1. TypeOK /\ CursorTypes /\ RunTrue(w) /\ wk[w].at = "compare"
  BY DEF IndexerInv, CompareLast
<1>2. PICK last : last = CHOOSE p \in wk[w].cps : p.block = wk[w].next - 1
  OBVIOUS
<1>3. /\ UNCHANGED <<world, store, receipt, faults, late, scanned>> /\ fresh' = fresh
      /\ \/ EndRun(w)
         \/ Matches(last) /\ wk' = [wk EXCEPT ![w].at = "scan", ![w].cps = {}]
         \/ ~Matches(last) /\ wk' = [wk EXCEPT ![w].at = "ancestor"]
  BY <1>2 DEF CompareLast, history, Goto
<1>4. ASSUME wk[w].rev = cursor.revision
      PROVE  /\ last \in checkpoints /\ last.block = cursor.next - 1 /\ wk[w].next = cursor.next
             /\ \A c \in checkpoints : c.block = last.block => c = last
  <2>1. /\ wk[w].cps \subseteq checkpoints /\ \E p \in wk[w].cps : p.block = wk[w].next - 1
        /\ wk[w].next = cursor.next
    BY <1>1, <1>4 DEF RunTrue, WindowTrue
  <2>2. last \in wk[w].cps /\ last.block = wk[w].next - 1
    BY <1>2, <2>1
  <2>3. QED
    BY <2>1, <2>2 DEF IndexerInv, CursorIsCheckpointed
<1>5. CASE EndRun(w)
  BY <1>3, <1>5, QuietEnds
<1>6. CASE Matches(last) /\ wk' = [wk EXCEPT ![w].at = "scan", ![w].cps = {}]
  <2>1. PICK r : r = [wk[w] EXCEPT !.at = "scan", !.cps = {}]
    OBVIOUS
  <2>2. wk' = [wk EXCEPT ![w] = r]
    BY <1>1, <1>6, <2>1 DEF TypeOK
  <2>3. r \in Runs /\ r.at = "scan" /\ r.rev = wk[w].rev /\ r.next = wk[w].next
    BY <1>1, <2>1, RunFacts DEF Runs, Steps
  <2>4. WindowTrue(r)
    BY <1>1, <2>3 DEF WindowTrue, RunTrue
  <2>5. SealTrue(r) /\ TodoTrue(r) /\ r.at \notin Ranged
    BY <2>3 DEF SealTrue, TodoTrue, Ranged
  <2>6. ASSUME ~Superseded(w) PROVE Fence(r)'
    <3>1. ASSUME NEW p \in scanned, Matches(p) PROVE Agrees(p)'
      <4>1. last \in checkpoints /\ last.block = cursor.next - 1
        BY <1>4, <2>6 DEF Superseded
      <4>2. p.block \in Nat /\ cursor.next \in Nat /\ p.block < cursor.next
        BY <1>1, CursorFacts, PointFacts DEF IndexerInv, PointsTrue, TypeOK
      <4>3. p.block <= last.block
        BY <4>1, <4>2
      <4>4. Agrees(p)
        BY <1>6, <3>1, <4>1, <4>3 DEF IndexerInv, ScannedTrue
      <4>5. QED
        BY <1>3, <4>4 DEF Agrees, OnChain, IsCanonical, world, store
    <3>2. \A p \in scanned' : Matches(p)' => Agrees(p)'
      BY <1>3, <3>1 DEF Matches, world
    <3>3. QED
      BY <2>3, <3>2 DEF Fence, Ranged
  <2>7. QED
    BY <1>3, <2>2, <2>3, <2>4, <2>5, <2>6, QuietKeeps
<1>7. CASE ~Matches(last) /\ wk' = [wk EXCEPT ![w].at = "ancestor"]
  <2>1. PICK r : r = [wk[w] EXCEPT !.at = "ancestor"]
    OBVIOUS
  <2>2. wk' = [wk EXCEPT ![w] = r]
    BY <1>1, <1>7, <2>1 DEF TypeOK
  <2>3. /\ r \in Runs /\ r.at = "ancestor" /\ r.rev = wk[w].rev /\ r.next = wk[w].next
        /\ r.cps = wk[w].cps
    BY <1>1, <2>1, RunFacts DEF Runs, Steps
  <2>4. WindowTrue(r)
    BY <1>1, <1>4, <1>7, <2>3 DEF WindowTrue, RunTrue
  <2>5. SealTrue(r) /\ TodoTrue(r) /\ r.at \notin Ranged
    BY <2>3 DEF SealTrue, TodoTrue, Ranged
  <2>6. Fence(r)'
    BY <2>3 DEF Fence, Ranged
  <2>7. QED
    BY <1>3, <2>2, <2>3, <2>4, <2>5, <2>6, QuietKeeps
<1>8. QED
  BY <1>3, <1>5, <1>6, <1>7

\* A finite set of blocks that is not empty has a youngest one.
LEMMA YoungestBlock ==
    ASSUME NEW S, S # {}, S \subseteq Points
    PROVE  \E b \in {p.block : p \in S} : \A p \in S : p.block <= b
<1>1. PICK B : B = {p.block : p \in S}
  OBVIOUS
<1>2. B # {} /\ \A b \in B : b \in Nat /\ b <= MaxHeight
  BY <1>1, PointFacts
<1>3. PICK D : D = {MaxHeight - b : b \in B}
  OBVIOUS
<1>4. D # {} /\ D \subseteq Nat
  BY <1>2, <1>3, Bounds
<1>5. PICK d \in D : \A e \in D : d <= e
  BY <1>4, LeastNatural
<1>6. PICK b \in B : d = MaxHeight - b
  BY <1>3
<1>7. \A c \in B : c <= b
  <2>1. SUFFICES ASSUME NEW c \in B PROVE c <= b
    OBVIOUS
  <2>2. MaxHeight - c \in D
    BY <1>3
  <2>3. d <= MaxHeight - c
    BY <1>5, <2>2
  <2>4. QED
    BY <1>2, <1>6, <2>3, Bounds
<1>8. QED
  BY <1>1, <1>7

LEMMA FindAncestorKeeps ==
    ASSUME IndexerInv, NEW w \in Workers, FindAncestor(w)
    PROVE  IndexerInv'
<1>1. TypeOK /\ CursorTypes /\ RunTrue(w) /\ wk[w].at = "ancestor"
  BY DEF IndexerInv, FindAncestor
<1> DEFINE older == {p \in wk[w].cps : p.block < wk[w].next - 1}
           found == {p \in older : Matches(p)}
           youngest == CHOOSE y \in {p.block : p \in found} : \A p \in found : p.block <= y
<1>2. PICK common : common = found
  OBVIOUS
<1>3. common = {p \in wk[w].cps : p.block < wk[w].next - 1 /\ Matches(p)}
  BY <1>2
<1>4. PICK b : b = youngest
  OBVIOUS
<1>5. common \subseteq Points
  BY <1>1, <1>3, RunFacts
<1>6. common # {} => /\ \E p \in common : p.block = b
                     /\ \A p \in common : p.block <= b
                     /\ b \in Nat
  <2>1. HAVE common # {}
  <2>2. \E y \in {p.block : p \in found} : \A p \in found : p.block <= y
    BY <1>2, <1>5, <2>1, YoungestBlock
  <2>3. youngest \in {p.block : p \in found} /\ \A p \in found : p.block <= youngest
    BY <2>2
  <2>4. QED
    BY <1>2, <1>4, <1>5, <2>3, PointFacts
<1>7. PICK to : to = (IF common = {} THEN 0 ELSE b)
  OBVIOUS
<1>8. /\ UNCHANGED <<world, store, receipt, faults, late, scanned>> /\ fresh' = fresh
      /\ \/ EndRun(w)
         \/ /\ common # {} \/ Oldest(wk[w].next) = Start
            /\ wk' = [wk EXCEPT ![w].at = "orphans", ![w].to = to, ![w].cps = {}]
  <2> DEFINE next == IF found = {} THEN Start ELSE 1 + youngest
  <2>1. /\ UNCHANGED <<world, store, receipt, faults, late, scanned>> /\ fresh' = fresh
        /\ IF found = {} /\ Oldest(wk[w].next) # Start THEN EndRun(w)
           ELSE wk' = [wk EXCEPT ![w].at = "orphans", ![w].to = next - 1, ![w].cps = {}]
    BY DEF FindAncestor, history
  <2>2. next - 1 = to
    BY <1>2, <1>4, <1>6, <1>7 DEF Start
  <2> HIDE DEF found, youngest, next
  <2>3. QED
    BY <1>2, <2>1, <2>2
<1> HIDE DEF older, found, youngest
<1>9. CASE EndRun(w)
  BY <1>8, <1>9, QuietEnds
<1>10. CASE /\ common # {} \/ Oldest(wk[w].next) = Start
           /\ wk' = [wk EXCEPT ![w].at = "orphans", ![w].to = to, ![w].cps = {}]
  <2>1. PICK r : r = [wk[w] EXCEPT !.at = "orphans", !.to = to, !.cps = {}]
    OBVIOUS
  <2>2. wk' = [wk EXCEPT ![w] = r]
    BY <1>1, <1>10, <2>1 DEF TypeOK
  <2>3. wk[w].next \in Nat /\ 1 <= wk[w].next
    BY <1>1, RunFacts
  <2>4. to \in 0 .. MaxHeight /\ to < wk[w].next
    BY <1>3, <1>7, <1>5, <1>6, <2>3, PointFacts, Bounds
  <2>5. /\ r \in Runs /\ r.at = "orphans" /\ r.rev = wk[w].rev /\ r.next = wk[w].next
        /\ r.to = to
    BY <1>1, <2>1, <2>4, RunFacts DEF Runs, Steps
  <2>6. ASSUME r.rev = cursor.revision
        PROVE  /\ r.to = 0 \/ \E c \in checkpoints : c.block = r.to
               /\ \A c \in checkpoints : r.to < c.block => ~Matches(c)
    <3>1. /\ wk[w].cps = {p \in checkpoints : Oldest(wk[w].next) <= p.block /\ p.block < wk[w].next}
          /\ wk[w].next = cursor.next
          /\ \A c \in checkpoints : c.block = wk[w].next - 1 => ~Matches(c)
      BY <1>1, <2>5, <2>6 DEF RunTrue, WindowTrue
    <3>2. common \subseteq checkpoints
      BY <1>3, <3>1
    <3>3. ASSUME NEW c \in checkpoints, to < c.block, Matches(c) PROVE FALSE
      <4>1. /\ c \in Points /\ c.block \in Nat /\ 1 <= c.block /\ c.block < wk[w].next
        BY <1>1, <3>1, PointFacts DEF TypeOK, IndexerInv, CursorIsCheckpointed
      <4>2. c.block < wk[w].next - 1
        BY <2>3, <3>1, <3>3, <4>1
      <4>3. Oldest(wk[w].next) <= c.block
        <5>1. CASE Oldest(wk[w].next) = Start
          BY <4>1, <5>1 DEF Start
        <5>2. CASE common # {}
          <6>1. PICK p \in common : p.block = b
            BY <1>6, <5>2
          <6>2. Oldest(wk[w].next) <= b /\ b < c.block /\ b \in Nat
            BY <1>3, <1>7, <1>6, <3>1, <3>3, <5>2, <6>1
          <6>3. Oldest(wk[w].next) \in Int
            BY <2>3, Bounds DEF Oldest, Max2, Start
          <6>4. QED
            BY <4>1, <6>2, <6>3
        <5>3. QED
          BY <1>10, <5>1, <5>2
      <4>4. c \in common
        BY <1>3, <3>1, <3>3, <4>1, <4>2, <4>3
      <4>5. QED
        BY <1>7, <1>6, <3>3, <4>1, <4>4
    <3>4. to = 0 \/ \E c \in checkpoints : c.block = to
      BY <1>7, <1>6, <3>2
    <3>5. QED
      BY <2>5, <3>3, <3>4
  <2>7. WindowTrue(r)
    BY <1>1, <2>5, <2>6 DEF WindowTrue, RunTrue
  <2>8. SealTrue(r) /\ TodoTrue(r) /\ r.at \notin Ranged /\ r.to < r.next
    BY <2>4, <2>5 DEF SealTrue, TodoTrue, Ranged
  <2>9. Fence(r)'
    BY <2>5 DEF Fence, Ranged
  <2>10. QED
    BY <1>8, <2>2, <2>5, <2>7, <2>8, <2>9, QuietKeeps
<1>11. QED
  BY <1>8, <1>9, <1>10

LEMMA ListOrphansKeeps ==
    ASSUME IndexerInv, NEW w \in Workers, ListOrphans(w)
    PROVE  IndexerInv'
<1>1. TypeOK /\ CursorTypes /\ RunTrue(w) /\ wk[w].at = "orphans"
  BY DEF IndexerInv, ListOrphans
<1>2. PICK todo : todo = CanonicalIn(wk[w].to + 1, wk[w].next - 1)
  OBVIOUS
<1>3. /\ UNCHANGED <<world, store, receipt, faults, late, scanned>>
      /\ wk' = [wk EXCEPT ![w].at = "unwind", ![w].todo = todo]
      /\ fresh' = IF Superseded(w) THEN fresh ELSE {}
  BY <1>2 DEF ListOrphans
<1>4. PICK r : r = [wk[w] EXCEPT !.at = "unwind", !.todo = todo]
  OBVIOUS
<1>5. wk' = [wk EXCEPT ![w] = r]
  BY <1>1, <1>3, <1>4 DEF TypeOK
<1>6. /\ wk[w].next \in Nat /\ wk[w].next <= MaxHeight + 1 /\ wk[w].to \in Nat
      /\ wk[w].to < wk[w].next
  BY <1>1, RunFacts DEF RunTrue
<1>7. \A l \in todo : l \in Logs /\ wk[w].to < l.block
  BY <1>2, <1>6, Bounds DEF CanonicalIn, Logs, Heights
<1>8. \A t \in Txs : \A b \in Nat : IsCanonical(t, b) /\ wk[w].to < b /\ b < wk[w].next =>
          [tx |-> t, block |-> b] \in todo
  <2>1. ASSUME NEW t \in Txs, NEW b \in Nat, IsCanonical(t, b), wk[w].to < b, b < wk[w].next
        PROVE  [tx |-> t, block |-> b] \in todo
    <3>1. b \in (wk[w].to + 1) .. (wk[w].next - 1)
      BY <1>6, <2>1
    <3>2. QED
      BY <1>2, <2>1, <3>1 DEF CanonicalIn
  <2>2. QED
    BY <2>1
<1>9. /\ r \in Runs /\ r.at = "unwind" /\ r.rev = wk[w].rev /\ r.next = wk[w].next
      /\ r.to = wk[w].to /\ r.todo = todo
  <2>1. todo \subseteq Logs
    BY <1>7
  <2>2. QED
    BY <1>1, <1>4, <2>1, RunFacts DEF Runs, Steps
<1>10. WindowTrue(r)
  BY <1>1, <1>9 DEF WindowTrue, RunTrue
<1>11. SealTrue(r) /\ TodoTrue(r) /\ r.at \notin Ranged /\ r.to < r.next
  BY <1>6, <1>7, <1>9 DEF SealTrue, TodoTrue, Ranged
<1>12. Fence(r)'
  <2>1. events' = events
    BY <1>3 DEF store
  <2>2. ASSUME NEW t \in Txs, events'[t].state = "canonical",
               r.to < events'[t].block, events'[t].block < r.next
        PROVE  [tx |-> t, block |-> events'[t].block] \in r.todo
    <3>1. PICK b : b = events[t].block
      OBVIOUS
    <3>2. b \in Nat /\ IsCanonical(t, b)
      BY <1>1, <2>1, <2>2, <3>1, RowFacts
    <3>3. QED
      BY <1>8, <1>9, <2>1, <2>2, <3>1, <3>2
  <2>3. QED
    BY <1>9, <2>2 DEF Fence, Ranged
<1>13. QED
  BY <1>3, <1>5, <1>9, <1>10, <1>11, <1>12, QuietKeeps

LEMMA ReadHeadKeeps ==
    ASSUME IndexerInv, NEW w \in Workers, ReadHead(w)
    PROVE  IndexerInv'
<1>1. TypeOK /\ CursorTypes /\ RunTrue(w) /\ wk[w].at = "scan"
  BY DEF IndexerInv, ReadHead
<1>2. PICK n : n = wk[w].next
  OBVIOUS
<1>3. PICK to : to = Min2(Safe, n + MaxRange - 1)
  OBVIOUS
<1>4. /\ UNCHANGED <<world, store, receipt, faults, late, scanned>> /\ fresh' = fresh
      /\ \/ EndRun(w)
         \/ ~(Safe < n) /\ wk' = [wk EXCEPT ![w].at = "logs", ![w].to = to]
  BY <1>2, <1>3 DEF ReadHead, history
<1>5. CASE EndRun(w)
  BY <1>4, <1>5, QuietEnds
<1>6. CASE ~(Safe < n) /\ wk' = [wk EXCEPT ![w].at = "logs", ![w].to = to]
  <2>1. PICK r : r = [wk[w] EXCEPT !.at = "logs", !.to = to]
    OBVIOUS
  <2>2. wk' = [wk EXCEPT ![w] = r]
    BY <1>1, <1>6, <2>1 DEF TypeOK
  <2>3. n \in Nat /\ 1 <= n
    BY <1>1, <1>2, RunFacts
  <2>4. Len(chain) \in Nat /\ Len(chain) <= MaxHeight
    BY <1>1, ChainFacts, Bounds
  <2>5. to \in 0 .. MaxHeight /\ n <= to
    BY <1>3, <1>6, <2>3, <2>4, Bounds DEF Safe, Min2
  <2>6. /\ r \in Runs /\ r.at = "logs" /\ r.rev = wk[w].rev /\ r.next = n /\ r.to = to
    BY <1>1, <1>2, <2>1, <2>5, RunFacts DEF Runs, Steps
  <2>7. WindowTrue(r)
    BY <1>1, <1>2, <2>6 DEF WindowTrue, RunTrue
  <2>8. SealTrue(r) /\ TodoTrue(r)
    BY <2>6 DEF SealTrue, TodoTrue
  <2>9. ASSUME ~Superseded(w) PROVE Fence(r)'
    <3>1. \A p \in scanned : Matches(p) => Agrees(p)
      BY <1>1, <2>9 DEF IndexerInv, FenceTrue, Fence
    <3>2. \A p \in scanned' : Matches(p)' => Agrees(p)'
      BY <1>4, <3>1 DEF Matches, Agrees, OnChain, IsCanonical, world, store
    <3>3. QED
      BY <2>6, <3>2 DEF Fence, Ranged
  <2>10. QED
    BY <1>4, <2>2, <2>5, <2>6, <2>7, <2>8, <2>9, QuietKeeps DEF Ranged
<1>7. QED
  BY <1>4, <1>5, <1>6

LEMMA ScanKeeps ==
    ASSUME IndexerInv, NEW w \in Workers, Scan(w)
    PROVE  IndexerInv'
<1>1. TypeOK /\ CursorTypes /\ RunTrue(w) /\ wk[w].at = "logs"
  BY DEF IndexerInv, Scan
<1>2. PICK n : n = wk[w].next
  OBVIOUS
<1>3. PICK to : to = wk[w].to
  OBVIOUS
<1>4. PICK logs : logs = LogsIn(n, to)
  OBVIOUS
<1>5. PICK seen : seen = {[block |-> b, hash |-> chain[b].hash] : b \in (n .. to) \cap DOMAIN chain}
  OBVIOUS
<1>6. /\ UNCHANGED <<world, store, receipt, faults, late, scanned>> /\ fresh' = fresh
      /\ wk' = [wk EXCEPT ![w].at = "verify", ![w].logs = logs, ![w].seen = seen]
  BY <1>2, <1>3, <1>4, <1>5 DEF Scan, history
<1>7. QED
  <2>1. PICK r : r = [wk[w] EXCEPT !.at = "verify", !.logs = logs, !.seen = seen]
    OBVIOUS
  <2>2. wk' = [wk EXCEPT ![w] = r]
    BY <1>1, <1>6, <2>1 DEF TypeOK
  <2>3. n \in Nat /\ 1 <= n
    BY <1>1, <1>2, RunFacts
  <2>4. Len(chain) \in Nat /\ Len(chain) <= MaxHeight /\ DOMAIN chain = 1 .. Len(chain)
    BY <1>1, ChainFacts, Bounds
  <2>5. to \in Nat /\ n <= to /\ to <= MaxHeight
    BY <1>1, <1>2, <1>3, RunFacts DEF RunTrue
  <2>6. ASSUME NEW b \in (n .. to) \cap DOMAIN chain
        PROVE  b \in Heights /\ chain[b].hash \in Hashes
    BY <1>1, <2>3, <2>4, <2>5, Bounds, ChainFacts DEF Heights
  <2>7. \A p \in seen : /\ p \in Points /\ n <= p.block /\ p.block <= to /\ Matches(p)
    BY <1>5, <2>3, <2>5, <2>6 DEF Points, Matches
  <2>8. \A l \in logs : /\ l \in Logs /\ n <= l.block
    BY <1>4, <2>3, <2>5, Bounds DEF LogsIn, Logs, Heights
  <2>9. \A p \in seen : \A t \in Txs :
            OnChain(t, p.block) <=> [tx |-> t, block |-> p.block] \in logs
    <3>1. ASSUME NEW p \in seen, NEW t \in Txs
          PROVE  OnChain(t, p.block) <=> [tx |-> t, block |-> p.block] \in logs
      <4>1. PICK b \in (n .. to) \cap DOMAIN chain : b = p.block
        BY <1>5, <3>1
      <4>2. [tx |-> t, block |-> b] \in [tx : Txs, block : n .. to]
        OBVIOUS
      <4>3. [tx |-> t, block |-> b] \in logs <=> OnChain(t, b)
        BY <1>4, <4>2 DEF LogsIn
      <4>4. QED
        BY <4>1, <4>3
    <3>2. QED
      BY <3>1
  <2>10. /\ r \in Runs /\ r.at = "verify" /\ r.rev = wk[w].rev /\ r.next = n
         /\ r.to = to /\ r.logs = logs /\ r.seen = seen
    <3>1. seen \subseteq Points /\ logs \subseteq Logs /\ to \in 0 .. MaxHeight
      BY <2>5, <2>7, <2>8, Bounds
    <3>2. QED
      BY <1>1, <1>2, <1>3, <2>1, <3>1, RunFacts DEF Runs, Steps
  <2>11. RangeTrue(r)
    BY <2>3, <2>5, <2>7, <2>8, <2>9, <2>10 DEF RangeTrue, Real
  <2>12. WindowTrue(r)
    BY <1>1, <1>2, <2>10 DEF WindowTrue, RunTrue
  <2>13. SealTrue(r) /\ TodoTrue(r)
    BY <2>10 DEF SealTrue, TodoTrue
  <2>14. ASSUME ~Superseded(w) PROVE Fence(r)'
    <3>1. \A p \in scanned : Matches(p) => Agrees(p)
      BY <1>1, <2>14 DEF IndexerInv, FenceTrue, Fence
    <3>2. \A p \in scanned' : Matches(p)' => Agrees(p)'
      BY <1>6, <3>1 DEF Matches, Agrees, OnChain, IsCanonical, world, store
    <3>3. QED
      BY <2>10, <3>2 DEF Fence
  <2>15. QED
    BY <1>6, <2>2, <2>10, <2>11, <2>12, <2>13, <2>14, QuietKeeps

\* A step within the range: the run keeps its range, logs and blocks.
LEMMA RangeKeeps ==
    ASSUME IndexerInv, NEW w \in Workers, wk[w].at \in Ranged,
           UNCHANGED <<world, store, receipt, faults, history>>,
           NEW r \in Runs, wk' = [wk EXCEPT ![w] = r], r.at \in Ranged,
           r.rev = wk[w].rev, r.next = wk[w].next, r.to = wk[w].to,
           r.logs = wk[w].logs, r.seen = wk[w].seen,
           SealTrue(r), TodoTrue(r),
           r.at = "clean" => wk[w].at = "strays"
                             /\ r.todo = CanonicalIn(wk[w].next, wk[w].to) \ wk[w].logs,
           r.at = "apply" => wk[w].at = "clean" /\ wk[w].todo = {} /\ r.todo = r.logs
    PROVE  IndexerInv'
<1>1. TypeOK /\ RunTrue(w)
  BY DEF IndexerInv
<1>2. /\ UNCHANGED <<world, store, receipt, faults, late, scanned>> /\ fresh' = fresh
  BY DEF history
<1>3. RangeTrue(r)
  BY <1>1 DEF RunTrue, RangeTrue
<1>4. WindowTrue(r)
  BY <1>1 DEF RunTrue, WindowTrue, Ranged
<1>5. ASSUME ~Superseded(w) PROVE Fence(r)'
  <2>1. Fence(wk[w])
    BY <1>5 DEF IndexerInv, FenceTrue
  <2>2. /\ \A p : Matches(p)' <=> Matches(p)
        /\ \A t, b : IsCanonical(t, b)' <=> IsCanonical(t, b)
        /\ \A t, b : OnChain(t, b)' <=> OnChain(t, b)
        /\ late' = late /\ scanned' = scanned
    BY <1>2 DEF Matches, IsCanonical, OnChain, world, store
  <2>3. \A p \in scanned' : Matches(p)' => Agrees(p)'
    BY <2>1, <2>2 DEF Fence, Agrees
  <2>4. ASSUME r.at = "clean", NEW p \in r.seen, NEW t \in Txs, IsCanonical(t, p.block)'
        PROVE  [tx |-> t, block |-> p.block] \in r.logs \cup r.todo
    <3>1. PICK b : b = p.block
      OBVIOUS
    <3>2. b \in wk[w].next .. wk[w].to /\ IsCanonical(t, b)
      <4>1. p \in Points /\ r.next <= b /\ b <= r.to
        BY <1>1, <1>3, <2>4, <3>1, RunFacts DEF RangeTrue
      <4>2. wk[w].next \in Nat /\ wk[w].to \in Nat /\ b \in Nat
        BY <1>1, <3>1, <4>1, RunFacts, PointFacts
      <4>3. QED
        BY <2>2, <2>4, <3>1, <4>1, <4>2
    <3>3. [tx |-> t, block |-> b] \in CanonicalIn(wk[w].next, wk[w].to)
      BY <3>2 DEF CanonicalIn
    <3>4. QED
      BY <2>4, <3>1, <3>3
  <2>5. ASSUME r.at = "apply", NEW p \in r.seen, NEW t \in Txs \ late', Matches(p)',
               IsCanonical(t, p.block)'
        PROVE  [tx |-> t, block |-> p.block] \in r.logs
    <3>1. /\ p \in wk[w].seen /\ t \in Txs \ late /\ Matches(p) /\ IsCanonical(t, p.block)
      BY <2>2, <2>5
    <3>2. [tx |-> t, block |-> p.block] \in wk[w].logs \cup wk[w].todo
      BY <2>1, <2>5, <3>1 DEF Fence
    <3>3. QED
      BY <2>5, <3>2
  <2>6. QED
    BY <2>3, <2>4, <2>5 DEF Fence, Ranged
<1>6. r.at \notin {"orphans", "unwind", "logs"}
  BY DEF Ranged
<1>7. QED
  BY <1>2, <1>3, <1>4, <1>5, <1>6, QuietKeeps

LEMMA VerifyKeeps ==
    ASSUME IndexerInv, NEW w \in Workers, Verify(w)
    PROVE  IndexerInv'
<1>1. TypeOK /\ RunTrue(w) /\ wk[w].at = "verify" /\ wk[w].at \in Ranged
  BY DEF IndexerInv, Verify, Ranged
<1>2. /\ UNCHANGED <<world, store, receipt, faults, history>>
      /\ UNCHANGED <<world, store, receipt, faults, late, scanned>> /\ fresh' = fresh
      /\ wk' = [wk EXCEPT ![w].at = "seal"] \/ EndRun(w)
  BY DEF Verify, Goto, history
<1>3. CASE wk' = [wk EXCEPT ![w].at = "seal"]
  <2>1. PICK r : r = [wk[w] EXCEPT !.at = "seal"]
    OBVIOUS
  <2>2. wk' = [wk EXCEPT ![w] = r]
    BY <1>1, <1>3, <2>1 DEF TypeOK
  <2>3. /\ r \in Runs /\ r.at = "seal" /\ r.rev = wk[w].rev /\ r.next = wk[w].next
        /\ r.to = wk[w].to /\ r.logs = wk[w].logs /\ r.seen = wk[w].seen
    BY <1>1, <2>1, RunFacts DEF Runs, Steps
  <2>4. SealTrue(r) /\ TodoTrue(r) /\ r.at \in Ranged
    BY <2>3 DEF SealTrue, TodoTrue, Ranged
  <2>5. QED
    BY <1>1, <1>2, <2>2, <2>3, <2>4, RangeKeeps
<1>4. QED
  BY <1>2, <1>3, QuietEnds

LEMMA SealKeeps ==
    ASSUME IndexerInv, NEW w \in Workers, Seal(w)
    PROVE  IndexerInv'
<1>1. TypeOK /\ RunTrue(w) /\ wk[w].at = "seal" /\ wk[w].at \in Ranged
  BY DEF IndexerInv, Seal, Ranged
<1>2. RangeTrue(wk[w]) /\ wk[w].seen \subseteq Points
  BY <1>1, RunFacts DEF RunTrue
<1>3. PICK verified : verified = {p \in WithLogs(wk[w]) : p.block = wk[w].to}
  OBVIOUS
<1>4. /\ UNCHANGED <<world, store, receipt, faults, history>>
      /\ UNCHANGED <<world, store, receipt, faults, late, scanned>> /\ fresh' = fresh
      /\ \/ EndRun(w)
         \/ \E p \in verified : wk' = [wk EXCEPT ![w].at = "strays", ![w].hash = p.hash]
         \/ /\ wk[w].to \in DOMAIN chain
            /\ wk' = [wk EXCEPT ![w].at = "strays", ![w].hash = chain[wk[w].to].hash]
  BY <1>3 DEF Seal, history
<1>5. CASE EndRun(w)
  BY <1>4, <1>5, QuietEnds
<1>6. ASSUME NEW h \in Hashes, Real([block |-> wk[w].to, hash |-> h]),
             wk' = [wk EXCEPT ![w].at = "strays", ![w].hash = h]
      PROVE  IndexerInv'
  <2>1. PICK r : r = [wk[w] EXCEPT !.at = "strays", !.hash = h]
    OBVIOUS
  <2>2. wk' = [wk EXCEPT ![w] = r]
    BY <1>1, <1>6, <2>1 DEF TypeOK
  <2>3. /\ r \in Runs /\ r.at = "strays" /\ r.rev = wk[w].rev /\ r.next = wk[w].next
        /\ r.to = wk[w].to /\ r.logs = wk[w].logs /\ r.seen = wk[w].seen /\ r.hash = h
    BY <1>1, <2>1, RunFacts DEF Runs, Steps
  <2>4. SealTrue(r) /\ TodoTrue(r) /\ r.at \in Ranged
    BY <1>6, <2>3 DEF SealTrue, TodoTrue, Ranged
  <2>5. QED
    BY <1>1, <1>4, <2>2, <2>3, <2>4, RangeKeeps
<1>7. ASSUME NEW p \in verified, wk' = [wk EXCEPT ![w].at = "strays", ![w].hash = p.hash]
      PROVE  IndexerInv'
  <2>1. p \in wk[w].seen /\ p.block = wk[w].to /\ p \in Points
    BY <1>2, <1>3 DEF WithLogs
  <2>2. p = [block |-> wk[w].to, hash |-> p.hash] /\ Real(p) /\ p.hash \in Hashes
    BY <1>2, <2>1 DEF RangeTrue, Points
  <2>3. QED
    BY <1>6, <1>7, <2>2
<1>8. CASE /\ wk[w].to \in DOMAIN chain
           /\ wk' = [wk EXCEPT ![w].at = "strays", ![w].hash = chain[wk[w].to].hash]
  <2>1. PICK h \in Hashes : h = chain[wk[w].to].hash
    BY <1>1, <1>8, ChainFacts
  <2>2. Real([block |-> wk[w].to, hash |-> h])
    BY <1>8, <2>1 DEF Real, Matches
  <2>3. QED
    BY <1>6, <1>8, <2>1, <2>2
<1>9. QED
  BY <1>4, <1>5, <1>7, <1>8

LEMMA ListStraysKeeps ==
    ASSUME IndexerInv, NEW w \in Workers, ListStrays(w)
    PROVE  IndexerInv'
<1>1. TypeOK /\ RunTrue(w) /\ wk[w].at = "strays" /\ wk[w].at \in Ranged
  BY DEF IndexerInv, ListStrays, Ranged
<1>2. PICK todo : todo = CanonicalIn(wk[w].next, wk[w].to) \ wk[w].logs
  OBVIOUS
<1>3. /\ UNCHANGED <<world, store, receipt, faults, history>>
      /\ wk' = [wk EXCEPT ![w].at = "clean", ![w].todo = todo]
  BY <1>2 DEF ListStrays
<1>4. PICK r : r = [wk[w] EXCEPT !.at = "clean", !.todo = todo]
  OBVIOUS
<1>5. wk' = [wk EXCEPT ![w] = r]
  BY <1>1, <1>3, <1>4 DEF TypeOK
<1>6. /\ wk[w].next \in Nat /\ 1 <= wk[w].next /\ wk[w].to \in Nat /\ wk[w].to <= MaxHeight
  BY <1>1, RunFacts
<1>7. \A l \in todo : l \in Logs /\ wk[w].next <= l.block
  BY <1>2, <1>6, Bounds DEF CanonicalIn, Logs, Heights
<1>8. /\ r \in Runs /\ r.at = "clean" /\ r.rev = wk[w].rev /\ r.next = wk[w].next
      /\ r.to = wk[w].to /\ r.logs = wk[w].logs /\ r.seen = wk[w].seen
      /\ r.hash = wk[w].hash /\ r.todo = todo
  <2>1. todo \subseteq Logs
    BY <1>7
  <2>2. QED
    BY <1>1, <1>4, <2>1, RunFacts DEF Runs, Steps
<1>9. SealTrue(r) /\ TodoTrue(r) /\ r.at \in Ranged
  BY <1>1, <1>7, <1>8 DEF RunTrue, SealTrue, TodoTrue, Ranged
<1>10. QED
  BY <1>1, <1>2, <1>3, <1>5, <1>8, <1>9, RangeKeeps

LEMMA StartApplyKeeps ==
    ASSUME IndexerInv, NEW w \in Workers, StartApply(w)
    PROVE  IndexerInv'
<1>1. TypeOK /\ RunTrue(w) /\ wk[w].at = "clean" /\ wk[w].at \in Ranged /\ wk[w].todo = {}
  BY DEF IndexerInv, StartApply, Ranged
<1>2. PICK logs : logs = wk[w].logs
  OBVIOUS
<1>3. /\ UNCHANGED <<world, store, receipt, faults, history>>
      /\ wk' = [wk EXCEPT ![w].at = "apply", ![w].todo = logs]
  BY <1>2 DEF StartApply
<1>4. PICK r : r = [wk[w] EXCEPT !.at = "apply", !.todo = logs]
  OBVIOUS
<1>5. wk' = [wk EXCEPT ![w] = r]
  BY <1>1, <1>3, <1>4 DEF TypeOK
<1>6. /\ r \in Runs /\ r.at = "apply" /\ r.rev = wk[w].rev /\ r.next = wk[w].next
      /\ r.to = wk[w].to /\ r.logs = wk[w].logs /\ r.seen = wk[w].seen
      /\ r.hash = wk[w].hash /\ r.todo = logs
  BY <1>1, <1>2, <1>4, RunFacts DEF Runs, Steps
<1>7. SealTrue(r) /\ TodoTrue(r) /\ r.at \in Ranged
  BY <1>1, <1>2, <1>6 DEF RunTrue, SealTrue, TodoTrue, Ranged
<1>8. QED
  BY <1>1, <1>2, <1>3, <1>5, <1>6, <1>7, RangeKeeps

-----------------------------------------------------------------------------
(* The cursor moves.                                                       *)

\* The revision supersedes every other run.
LEMMA CursorMoves ==
    ASSUME IndexerInv, NEW w \in Workers, EndRun(w), NEW next \in 1 .. MaxHeight + 1,
           cursor' = [cursor EXCEPT !.next = next, !.revision = cursor.revision + 1],
           UNCHANGED <<up, chain, forks, known, events, receipt, faults, late, fresh>>,
           checkpoints' \subseteq Points, scanned' \subseteq Points,
           PointsTrue', ScannedTrue', CursorIsCheckpointed'
    PROVE  IndexerInv'
<1>1. TypeOK /\ CursorTypes /\ cursor.revision \in Nat
  BY CursorFacts DEF IndexerInv
<1>2. /\ wk' \in [Workers -> Runs] /\ wk'[w] = Idle
      /\ \A v \in Workers \ {w} : wk'[v] = wk[v]
  BY <1>1, IdleFacts DEF EndRun, TypeOK
<1>3. next \in Heights \cup {MaxHeight + 1}
  BY Bounds DEF Heights
<1>4. /\ cursor'.next = next /\ cursor'.revision = cursor.revision + 1
      /\ CursorTypes' /\ cursor'.revision \in Nat
  <2>1. PICK n \in Nat : n = cursor.revision + 1
    BY <1>1
  <2>2. cursor' = [cursor EXCEPT !.next = next, !.revision = n]
    BY <2>1
  <2>3. cursor'.next = next /\ cursor'.revision = n /\ CursorTypes'
    BY <1>1, <1>3, <2>2 DEF CursorTypes
  <2>4. QED
    BY <2>1, <2>3
<1>5. TypeOK'
  BY <1>1, <1>2, <1>4 DEF TypeOK, CursorTypes
<1>6. ChainTrue'
  BY DEF IndexerInv, ChainTrue, OnChain
<1>7. RunTrue(w)' /\ FenceTrue(w)'
  BY <1>2, <1>4, IdleKeeps
<1>8. ASSUME NEW v \in Workers, v # w PROVE RunTrue(v)' /\ FenceTrue(v)'
  <2>1. PICK r : r = wk[v] /\ r = wk'[v]
    BY <1>2, <1>8
  <2>2. RunTrue(v) /\ r.rev \in Nat /\ r.rev <= cursor.revision
    BY <1>1, <2>1, RunFacts DEF IndexerInv, RunTrue
  <2>3. r.rev # cursor'.revision /\ r.rev <= cursor'.revision
    BY <1>1, <1>4, <2>2
  <2>4. r.at \in Ranged => RangeTrue(r)'
    BY <2>1, <2>2 DEF RunTrue, RangeTrue, Real, Matches, OnChain
  <2>5. SealTrue(r)' /\ TodoTrue(r)'
    BY <2>1, <2>2 DEF RunTrue, SealTrue, TodoTrue, Real, Matches, Bound
  <2>6. WindowTrue(r)'
    BY <2>3 DEF WindowTrue
  <2>7. RunTrue(v)'
    BY <2>1, <2>2, <2>3, <2>4, <2>5, <2>6 DEF RunTrue
  <2>8. FenceTrue(v)'
    BY <2>1, <2>3 DEF FenceTrue, Superseded
  <2>9. QED
    BY <2>7, <2>8
<1>9. QED
  BY <1>4, <1>5, <1>6, <1>7, <1>8 DEF IndexerInv

LEMMA RollbackCursorKeeps ==
    ASSUME IndexerInv, NEW w \in Workers, RollbackCursor(w)
    PROVE  IndexerInv'
<1>1. TypeOK /\ CursorTypes /\ RunTrue(w) /\ wk[w].at = "unwind" /\ wk[w].todo = {}
  BY DEF IndexerInv, RollbackCursor
<1>2. PICK next : next = wk[w].to + 1
  OBVIOUS
<1>3. /\ UNCHANGED <<up, chain, forks, known, events, receipt, faults, late, fresh>>
      /\ EndRun(w)
      /\ \/ UNCHANGED <<cursor, checkpoints, scanned>>
         \/ /\ Holds(w)
            /\ cursor' = [cursor EXCEPT !.next = next, !.revision = cursor.revision + 1]
            /\ checkpoints' = {p \in checkpoints : p.block < next}
            /\ scanned' = {p \in scanned : p.block < next}
  BY <1>2 DEF RollbackCursor, world
<1>4. CASE UNCHANGED <<cursor, checkpoints, scanned>>
  <2>1. faults' \in 0 .. MaxFaults
    BY <1>1, <1>3 DEF TypeOK
  <2>2. QED
    BY <1>3, <1>4, <2>1, EndKeeps
<1>5. CASE /\ Holds(w)
           /\ cursor' = [cursor EXCEPT !.next = next, !.revision = cursor.revision + 1]
           /\ checkpoints' = {p \in checkpoints : p.block < next}
           /\ scanned' = {p \in scanned : p.block < next}
  <2>1. /\ wk[w].to \in Nat /\ wk[w].to < wk[w].next /\ wk[w].next \in Nat
        /\ wk[w].next <= MaxHeight + 1
    BY <1>1, RunFacts DEF RunTrue
  <2>2. next \in 1 .. MaxHeight + 1
    BY <1>2, <2>1, Bounds
  <2>3. cursor'.next = next
    BY <1>1, <1>5 DEF CursorTypes
  <2>4. /\ checkpoints' \subseteq checkpoints /\ scanned' \subseteq scanned
        /\ checkpoints' \subseteq Points /\ scanned' \subseteq Points
        /\ checkpoints \subseteq Points
    BY <1>1, <1>5 DEF TypeOK
  <2>5. PointsTrue'
    BY <1>3, <1>5, <2>3, <2>4 DEF IndexerInv, PointsTrue, Real, Matches
  <2>6. ScannedTrue'
    BY <1>3, <2>4 DEF IndexerInv, ScannedTrue, Matches, OnChain, Bound, Agrees, IsCanonical
  <2>7. wk[w].to = 0 \/ \E c \in checkpoints : c.block = wk[w].to
    BY <1>1, <1>5 DEF RunTrue, WindowTrue, Holds
  <2>8. CursorIsCheckpointed'
    <3>1. \A p, r \in checkpoints : p.block = r.block => p = r
      BY DEF IndexerInv, CursorIsCheckpointed
    <3>2. next # 1 => \E c \in checkpoints' : c.block = next - 1
      BY <1>2, <1>5, <2>1, <2>4, <2>7, PointFacts
    <3>3. \A p \in checkpoints' : p.block < next
      BY <1>5
    <3>4. QED
      BY <2>3, <2>4, <3>1, <3>2, <3>3 DEF CursorIsCheckpointed, LastPoint, Start
  <2>9. QED
    BY <1>3, <1>5, <2>2, <2>4, <2>5, <2>6, <2>8, CursorMoves
<1>6. QED
  BY <1>3, <1>4, <1>5

LEMMA AdvanceCursorKeeps ==
    ASSUME IndexerInv, NEW w \in Workers, AdvanceCursor(w)
    PROVE  IndexerInv'
<1>1. /\ TypeOK /\ CursorTypes /\ RunTrue(w) /\ FenceTrue(w)
      /\ wk[w].at = "apply" /\ wk[w].todo = {}
  BY DEF IndexerInv, AdvanceCursor
<1>2. PICK point : point = [block |-> wk[w].to, hash |-> wk[w].hash]
  OBVIOUS
<1>3. PICK next : next = wk[w].to + 1
  OBVIOUS
<1>4. /\ UNCHANGED <<up, chain, forks, known, events, receipt, faults, late, fresh>>
      /\ EndRun(w)
      /\ \/ UNCHANGED <<cursor, checkpoints, scanned>>
         \/ /\ Holds(w)
            /\ cursor' = [cursor EXCEPT !.next = next, !.revision = cursor.revision + 1]
            /\ checkpoints' = checkpoints \cup {point}
            /\ scanned' = scanned \cup wk[w].seen
  BY <1>2, <1>3 DEF AdvanceCursor, world
<1>5. CASE UNCHANGED <<cursor, checkpoints, scanned>>
  <2>1. faults' \in 0 .. MaxFaults
    BY <1>1, <1>4 DEF TypeOK
  <2>2. QED
    BY <1>4, <1>5, <2>1, EndKeeps
<1>6. CASE /\ Holds(w)
           /\ cursor' = [cursor EXCEPT !.next = next, !.revision = cursor.revision + 1]
           /\ checkpoints' = checkpoints \cup {point}
           /\ scanned' = scanned \cup wk[w].seen
  <2>1. PICK r : r = wk[w]
    OBVIOUS
  <2>2. /\ r.to \in Nat /\ r.to <= MaxHeight /\ r.next \in Nat /\ 1 <= r.next
        /\ r.seen \subseteq Points /\ r.logs \subseteq Logs /\ r.hash \in Hashes
        /\ r.at = "apply" /\ r.todo = {}
    BY <1>1, <2>1, RunFacts
  <2>3. /\ RangeTrue(r) /\ Real(point)
        /\ \A l \in r.logs : Bound(l.tx, l.block)
    BY <1>1, <1>2, <2>1, <2>2 DEF RunTrue, SealTrue, TodoTrue, Ranged
  <2>4. Fence(r) /\ r.next = cursor.next
    BY <1>1, <1>6, <2>1 DEF FenceTrue, RunTrue, WindowTrue, Holds, Superseded
  <2>5. r.next <= r.to /\ next = r.to + 1 /\ next \in 1 .. MaxHeight + 1 /\ cursor'.next = next
    BY <1>1, <1>3, <1>6, <2>1, <2>2, <2>3, Bounds DEF RangeTrue, CursorTypes
  <2>6. point \in Points /\ point.block = r.to
    BY <1>2, <2>1, <2>2, <2>5, Bounds DEF Points, Heights
  <2>7. /\ checkpoints' \subseteq Points /\ scanned' \subseteq Points
        /\ checkpoints \subseteq Points /\ scanned \subseteq Points
    BY <1>1, <1>6, <2>1, <2>2, <2>6 DEF TypeOK
  <2>8. PointsTrue'
    <3>1. \A p \in checkpoints' \cup scanned' : Real(p)
      BY <1>6, <2>1, <2>3 DEF RangeTrue, IndexerInv, PointsTrue
    <3>2. ASSUME NEW p \in scanned' PROVE p.block < next
      <4>1. p.block \in Nat
        BY <2>7, PointFacts
      <4>2. CASE p \in scanned
        BY <2>2, <2>4, <2>5, <4>1, <4>2 DEF IndexerInv, PointsTrue
      <4>3. CASE p \in r.seen
        BY <2>2, <2>3, <2>5, <4>1, <4>3 DEF RangeTrue
      <4>4. QED
        BY <1>6, <2>1, <4>2, <4>3
    <3>3. QED
      BY <1>4, <2>5, <3>1, <3>2 DEF PointsTrue, Real, Matches
  <2>9. ASSUME NEW p \in scanned', Matches(p)
        PROVE  (\A t \in Txs : OnChain(t, p.block) => Bound(t, p.block)) /\ Agrees(p)
    <3>1. CASE p \in scanned
      BY <2>2, <2>4, <2>9, <3>1 DEF IndexerInv, ScannedTrue, Fence, Ranged
    <3>2. CASE p \in r.seen
      <4>1. \A t \in Txs : OnChain(t, p.block) <=> [tx |-> t, block |-> p.block] \in r.logs
        BY <2>3, <2>9, <3>2 DEF RangeTrue
      <4>2. ASSUME NEW t \in Txs, OnChain(t, p.block)
            PROVE  Bound(t, p.block) /\ (t \notin late => IsCanonical(t, p.block))
        <5>1. PICK l \in r.logs : l.tx = t /\ l.block = p.block
          BY <4>1, <4>2
        <5>2. QED
          BY <2>2, <2>3, <2>4, <5>1 DEF Fence
      <4>3. ASSUME NEW t \in Txs \ late, IsCanonical(t, p.block) PROVE OnChain(t, p.block)
        BY <2>2, <2>4, <2>9, <3>2, <4>1, <4>3 DEF Fence
      <4>4. QED
        BY <4>2, <4>3 DEF Agrees
    <3>3. QED
      BY <1>6, <2>1, <3>1, <3>2
  <2>10. ScannedTrue'
    BY <1>4, <2>9 DEF ScannedTrue, Matches, OnChain, Bound, Agrees, IsCanonical
  <2>11. CursorIsCheckpointed'
    <3>1. /\ \A p, q \in checkpoints : p.block = q.block => p = q
          /\ \A p \in checkpoints : p.block < cursor.next
      BY DEF IndexerInv, CursorIsCheckpointed
    <3>2. \A p \in checkpoints : p.block \in Nat /\ p.block < r.to
      BY <2>2, <2>4, <2>5, <2>7, <3>1, PointFacts
    <3>3. \A p, q \in checkpoints' : p.block = q.block => p = q
      BY <1>6, <2>2, <2>6, <3>1, <3>2
    <3>4. \A p \in checkpoints' : p.block < next
      BY <1>6, <2>2, <2>5, <2>6, <3>2
    <3>5. point \in checkpoints' /\ point.block = next - 1
      BY <1>6, <2>2, <2>5, <2>6
    <3>6. QED
      BY <2>5, <3>3, <3>4, <3>5 DEF CursorIsCheckpointed, LastPoint
  <2>12. QED
    BY <1>4, <1>6, <2>5, <2>7, <2>8, <2>10, <2>11, CursorMoves
<1>7. QED
  BY <1>4, <1>5, <1>6

-----------------------------------------------------------------------------
(* The invariant, and what follows from it.                                *)

LEMMA InitEstablishes == Init => IndexerInv
<1>1. SUFFICES ASSUME Init PROVE IndexerInv
  OBVIOUS
<1>2. /\ chain = <<>> /\ forks = 0 /\ checkpoints = {} /\ scanned = {}
      /\ late = {} /\ fresh = {} /\ faults = 0 /\ wk = [w \in Workers |-> Idle]
      /\ cursor = [next |-> Start, revision |-> 0, owner |-> None, expired |-> FALSE]
  BY <1>1 DEF Init
<1>3. Start \in Heights \cup {MaxHeight + 1} /\ 0 \in 0 .. MaxHeight /\ 0 \in Hashes
      /\ 0 \in 0 .. MaxFaults
  BY Bounds DEF Heights, Hashes, Start
<1>4. /\ cursor.next = Start /\ cursor.revision = 0 /\ cursor.owner = None
      /\ cursor.expired = FALSE /\ CursorTypes
  <2>1. cursor.next = Start /\ cursor.revision = 0 /\ cursor.owner = None
        /\ cursor.expired = FALSE
    BY <1>2
  <2>2. CursorTypes
    BY <1>2, <1>3 DEF CursorTypes
  <2>3. QED
    BY <2>1, <2>2
<1>5. /\ up \in Deployments /\ up.projected \subseteq Quotes
  <2>1. up \in Deployments
    BY <1>1 DEF Init
  <2>2. PICK D : D = [workers : SUBSET Workers, mined : SUBSET Txs, submitted : SUBSET Txs,
                      projected : SUBSET Quotes, height : 0 .. MaxHeight, reorgs : 0 .. MaxReorgs]
    OBVIOUS
  <2>3. up \in D
    BY <2>1, <2>2, IndexerAssumption DEF IndexerAssumption
  <2>4. QED
    BY <2>1, <2>2, <2>3
<1>6. /\ known \subseteq Quotes /\ events \in [Txs -> Rows]
      /\ receipt \in [Txs -> 0 .. MaxHeight] /\ wk \in [Workers -> Runs]
  <2>1. known \subseteq Quotes /\ wk \in [Workers -> Runs]
    BY <1>1, <1>2, <1>5, IdleFacts DEF Init
  <2>2. PICK row : row = [state |-> "absent", block |-> 0]
    OBVIOUS
  <2>3. row \in Rows /\ events = [t \in Txs |-> row]
    BY <1>1, <1>3, <2>2 DEF Init, Rows
  <2>4. events \in [Txs -> Rows]
    BY <2>3
  <2>5. receipt \in [Txs -> 0 .. MaxHeight]
    BY <1>1, <1>3 DEF Init
  <2>6. QED
    BY <2>1, <2>4, <2>5
<1>7. chain \in Seq([hash : Hashes, txs : SUBSET Txs]) /\ Len(chain) = 0 /\ DOMAIN chain = {}
  BY <1>2
<1>8. TypeOK
  BY <1>2, <1>3, <1>4, <1>5, <1>6, <1>7, Bounds DEF TypeOK, CursorTypes
<1>9. ChainTrue /\ PointsTrue /\ ScannedTrue /\ CursorIsCheckpointed
  BY <1>2, <1>4, <1>7 DEF ChainTrue, PointsTrue, ScannedTrue, CursorIsCheckpointed, LastPoint
<1>10. ASSUME NEW w \in Workers PROVE RunTrue(w) /\ FenceTrue(w)
  BY <1>2, <1>4, IdleFacts
     DEF RunTrue, FenceTrue, Fence, Ranged, SealTrue, TodoTrue, WindowTrue
<1>11. QED
  BY <1>4, <1>8, <1>9, <1>10 DEF IndexerInv

LEMMA StepsKeep ==
    ASSUME IndexerInv, NEW w \in Workers, Step(w)
    PROVE  IndexerInv'
<1>1. CASE Unwind(w) \/ Clean(w)
  <2>1. /\ wk[w].at \in {"unwind", "clean"} /\ RemoveNext(w)
        /\ UNCHANGED <<up, chain, forks, known, receipt, cursor, checkpoints, faults>>
        /\ UNCHANGED <<fresh, scanned>>
    BY <1>1 DEF Unwind, Clean, world
  <2>2. QED
    BY <2>1, RemoveKeeps
<1>2. QED
  BY <1>1, ListCheckpointsKeeps, CompareLastKeeps, FindAncestorKeeps, ListOrphansKeeps,
     RollbackCursorKeeps, ReadHeadKeeps, ScanKeeps, VerifyKeeps, SealKeeps, ListStraysKeeps,
     StartApplyKeeps, ApplyKeeps, AdvanceCursorKeeps DEF Step

LEMMA NextKeeps == IndexerInv /\ [Next]_vars => IndexerInv'
<1>1. SUFFICES ASSUME IndexerInv, [Next]_vars PROVE IndexerInv'
  OBVIOUS
<1>2. TypeOK /\ ChainTrue
  BY <1>1 DEF IndexerInv
<1>3. ASSUME NEW txs \in SUBSET Txs, Mine(txs) PROVE IndexerInv'
  <2>1. UNCHANGED <<store, wk, late, fresh, scanned>>
    BY <1>3 DEF Mine, store, history
  <2>2. QED
    BY <1>1, <1>2, <1>3, <2>1, MineLasts, WorldKeeps
<1>4. ASSUME NEW b \in DOMAIN chain, Reorg(b) PROVE IndexerInv'
  <2>1. UNCHANGED <<store, wk, late, fresh, scanned>>
    BY <1>4 DEF Reorg, store, history
  <2>2. QED
    BY <1>1, <1>2, <1>4, <2>1, ReorgLasts, WorldKeeps
<1>5. CASE UNCHANGED vars
  <2>1. /\ UNCHANGED <<up, chain, forks, known, events, cursor, checkpoints, receipt, wk, faults>>
        /\ UNCHANGED <<late, fresh, scanned>>
    BY <1>5 DEF vars, world, store, history
  <2>2. TypeOK' /\ CursorTypes'
    BY <1>1, <2>1 DEF IndexerInv, TypeOK, CursorTypes
  <2>3. ChainTrue' /\ PointsTrue' /\ ScannedTrue' /\ CursorIsCheckpointed'
    BY <1>1, <2>1, StoreKept
  <2>4. ASSUME NEW v \in Workers PROVE RunTrue(v)' /\ FenceTrue(v)'
    BY <1>1, <2>1, RunKept, FenceKept DEF Bound, Superseded
  <2>5. QED
    BY <2>2, <2>3, <2>4 DEF IndexerInv
<1>6. QED
  BY <1>1, <1>3, <1>4, <1>5, OutsideKeeps, StoreReceiptKeeps, LeaseRunsOutKeeps, ClaimKeeps,
     ReleaseKeeps, FailKeeps, StepsKeep DEF Next

LEMMA Invariance == Spec => []IndexerInv
BY InitEstablishes, NextKeeps, PTL DEF Spec

\* Every state is of the types the module declares.
THEOREM IndexerTypes == Spec => []TypeOK
<1>1. IndexerInv => TypeOK
  BY DEF IndexerInv
<1>2. QED
  BY <1>1, Invariance, PTL

\* advanceCursor and rollbackCursor keep a checkpoint right behind the cursor
\* and none ahead of it, whoever loses its lease between any two steps: the
\* next run can always look for a reorg.
THEOREM CheckpointsFollowCursor == Spec => []CursorIsCheckpointed
<1>1. IndexerInv => CursorIsCheckpointed
  BY DEF IndexerInv
<1>2. QED
  BY <1>1, Invariance, PTL

\* settlement_events and the chain agree behind the cursor, at the blocks that
\* are still those whose logs were read, for any number of workers, reorgs and
\* receipts: only the rows of an unfenced writer are excepted.
THEOREM EventsAgreeWithChain == Spec => []EventsFollowChain
<1>1. ASSUME IndexerInv, InSync, NEW p \in scanned, Matches(p) PROVE Agrees(p)
  <2>1. p.block \in Nat /\ 1 <= p.block /\ p.block < cursor.next /\ cursor.next \in Nat
    BY <1>1, PointFacts, CursorFacts DEF IndexerInv, TypeOK, PointsTrue
  <2>2. PICK c \in checkpoints : c.block = cursor.next - 1 /\ Matches(c)
    BY <1>1, <2>1 DEF InSync, LastPoint, Start
  <2>3. p.block <= c.block
    BY <2>1, <2>2
  <2>4. QED
    BY <1>1, <2>2, <2>3 DEF IndexerInv, ScannedTrue
<1>2. IndexerInv => EventsFollowChain
  BY <1>1 DEF EventsFollowChain, Agrees
<1>3. QED
  BY <1>2, Invariance, PTL

\* rollbackCursor leaves no canonical row of the blocks it goes back over but
\* those of a gateway that stored them after the orphans were listed and those
\* of an unfenced writer.
THEOREM RollbackIsClean == Spec => RollbackLeavesNoOrphan
<1>1. ASSUME IndexerInv, [Next]_vars, cursor'.next < cursor.next, NEW t \in Txs \ (late \cup fresh),
             events[t].state = "canonical",
             events[t].block \in cursor'.next .. cursor.next - 1
      PROVE  FALSE
  <2>1. TypeOK /\ CursorTypes
    BY <1>1 DEF IndexerInv
  <2>2. cursor.next \in Nat
    BY <2>1, CursorFacts
  <2>3. ASSUME NEW w \in Workers, AdvanceCursor(w) PROVE FALSE
    <3>1. /\ Holds(w) /\ wk[w].at = "apply"
          /\ cursor' = [cursor EXCEPT !.next = wk[w].to + 1, !.revision = cursor.revision + 1]
      BY <1>1, <2>2, <2>3 DEF AdvanceCursor
    <3>2. cursor'.next = wk[w].to + 1 /\ wk[w].to \in Nat
      BY <2>1, <3>1, RunFacts DEF CursorTypes
    <3>3. wk[w].next <= wk[w].to /\ wk[w].next = cursor.next
      BY <1>1, <3>1 DEF IndexerInv, RunTrue, RangeTrue, Ranged, Holds
    <3>4. QED
      BY <1>1, <2>2, <3>2, <3>3
  <2>4. ASSUME NEW w \in Workers, RollbackCursor(w) PROVE FALSE
    <3>1. /\ Holds(w) /\ wk[w].at = "unwind" /\ wk[w].todo = {}
          /\ cursor' = [cursor EXCEPT !.next = wk[w].to + 1, !.revision = cursor.revision + 1]
      BY <1>1, <2>2, <2>4 DEF RollbackCursor
    <3>2. cursor'.next = wk[w].to + 1 /\ wk[w].to \in Nat /\ wk[w].next = cursor.next
      BY <2>1, <3>1, RunFacts DEF CursorTypes, Holds
    <3>3. Fence(wk[w])
      BY <1>1, <3>1 DEF IndexerInv, FenceTrue, Holds, Superseded
    <3>4. wk[w].to < events[t].block /\ events[t].block < wk[w].next
      BY <1>1, <2>2, <3>2
    <3>5. [tx |-> t, block |-> events[t].block] \in wk[w].todo
      BY <1>1, <3>1, <3>3, <3>4 DEF Fence
    <3>6. QED
      BY <3>1, <3>5
  <2>5. ASSUME \/ cursor' = cursor
               \/ \E x, y : cursor' = [cursor EXCEPT !.owner = x, !.expired = y]
               \/ cursor' = [cursor EXCEPT !.expired = TRUE]
        PROVE  FALSE
    <3>1. cursor'.next = cursor.next
      BY <2>1, <2>5 DEF CursorTypes
    <3>2. QED
      BY <1>1, <2>2, <3>1
  <2>6. ASSUME NEW w \in Workers, Step(w), ~AdvanceCursor(w), ~RollbackCursor(w)
        PROVE  cursor' = cursor
    BY <2>6 DEF Step, ListCheckpoints, CompareLast, FindAncestor, ListOrphans, Unwind, ReadHead, Scan,
                Verify, Seal, ListStrays, Clean, StartApply, Apply, store
  <2>7. ASSUME NEW w \in Workers, Claim(w) \/ Release(w) \/ Fail(w)
        PROVE  FALSE
    BY <2>5, <2>7 DEF Claim, Release, Fail, store
  <2>8. ASSUME LeaseRunsOut PROVE FALSE
    BY <2>5, <2>8 DEF LeaseRunsOut
  <2>9. ASSUME \/ \E txs \in SUBSET Txs : Mine(txs)
               \/ \E b \in DOMAIN chain : Reorg(b)
               \/ \E q \in Quotes : Project(q)
               \/ \E u \in Txs, b \in Heights : ReadReceipt(u, b)
               \/ \E u \in Txs : StoreReceipt(u)
               \/ UNCHANGED vars
        PROVE  cursor' = cursor
    BY <2>9 DEF Mine, Reorg, Project, ReadReceipt, StoreReceipt, store, vars
  <2>10. QED
    BY <1>1, <2>3, <2>4, <2>5, <2>6, <2>7, <2>8, <2>9 DEF Next
<1>2. IndexerInv /\ [Next]_vars =>
        [cursor'.next < cursor.next =>
            \A t \in Txs \ (late \cup fresh) :
                ~(/\ events[t].state = "canonical"
                  /\ events[t].block \in cursor'.next .. cursor.next - 1)]_vars
  BY <1>1
<1>3. QED
  BY <1>2, Invariance, PTL DEF Spec, RollbackLeavesNoOrphan
=============================================================================
