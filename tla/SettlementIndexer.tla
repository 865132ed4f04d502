--------------------------- MODULE SettlementIndexer ---------------------------
(***************************************************************************)
(* The settlement indexer of one chain: workers that lease its cursor in   *)
(* PostgreSQL, scan ranges of confirmed blocks for QuoteSettled logs, keep *)
(* the hash of every range's last block as a checkpoint, and roll back     *)
(* what a reorg orphaned; next to them the gateways, whose /submit stores  *)
(* the same events from receipts.  Every database transaction is one       *)
(* action.  So is every RPC call, except that the loops of block hash      *)
(* reads (verifyLogBlockHashes, findCommonAncestor) read one chain.        *)
(***************************************************************************)
EXTENDS Integers, Sequences, FiniteSets

CONSTANTS
    Txs,            \* settlement transactions: one QuoteSettled log each
    Quotes,
    QuoteOf,        \* the quote each transaction settles
    Workers,
    None,
    MaxHeight,      \* bound: blocks
    Deployments,    \* bound: the workers, transactions, blocks, reorgs that meet
    MaxReorgs,      \* bound: times the chain switches its branch
    MaxFaults,      \* bound: runs that fail or lose their lease
    Confirmations,
    MaxRange,       \* maxBlockRange
    Lookback        \* reorgLookbackBlocks

ASSUME IndexerAssumption ==
    /\ QuoteOf \in [Txs -> Quotes]
    /\ None \notin Workers
    /\ {MaxHeight, MaxReorgs, MaxFaults} \subseteq Nat
    /\ {Confirmations, MaxRange} \subseteq Nat \ {0}
    /\ Lookback \in Nat /\ Lookback >= MaxRange
    /\ Deployments \subseteq [workers : SUBSET Workers, mined : SUBSET Txs,
                              submitted : SUBSET Txs, projected : SUBSET Quotes,
                              height : 0 .. MaxHeight, reorgs : 0 .. MaxReorgs]

VARIABLES
    up,             \* the workers that run, the transactions mined, those sent
                    \* to /submit too, the quotes projected before, the height
                    \* and the number of reorgs it all ends at
    chain,          \* the node's current branch
    forks,          \* branches so far; a block's hash is its height and this
    known,          \* quotes whose signed row PostgreSQL shows
    events,         \* settlement_events
    receipt,        \* the block in which a gateway read the receipt, or 0
    cursor,         \* settlement_indexer_cursors
    checkpoints,    \* settlement_indexer_checkpoints
    wk,             \* what each worker is doing
    faults,
    late,           \* history: rows last written by a writer the cursor had
                    \* moved past, or from a receipt a reorg had orphaned
    fresh,          \* history: rows gateways stored since the cursor's owner
                    \* last listed orphans
    scanned         \* history: the blocks behind the cursor, as they were when
                    \* their logs were read

store == <<events, cursor, checkpoints>>
world == <<up, chain, forks, known>>
history == <<late, fresh, scanned>>
vars == <<world, store, receipt, wk, faults, history>>

Start == 1
Heights == 1 .. MaxHeight
Hashes == 0 .. MaxReorgs
Points == [block : Heights, hash : Hashes]      \* a block, by number and hash
Logs == [tx : Txs, block : Heights]             \* a log, or a row, by its key

Rows == [state : {"absent", "canonical", "removed"}, block : 0 .. MaxHeight]

Steps == {"idle", "checkpoints", "compare", "ancestor", "orphans", "unwind",
          "scan", "logs", "verify", "seal", "strays", "clean", "apply"}

\* runChainOnce: its step, the claimed cursor, the checkpoints it listed, the
\* range's last block, the logs, the blocks of the range as they were when the
\* logs were read, the hash to record, and the events left to write.
Runs == [at : Steps, next : Heights \cup {MaxHeight + 1}, rev : Nat,
         cps : SUBSET Points, to : 0 .. MaxHeight, logs : SUBSET Logs,
         seen : SUBSET Points, hash : Hashes, todo : SUBSET Logs]

Idle == [at |-> "idle", next |-> Start, rev |-> 0, cps |-> {}, to |-> 0,
         logs |-> {}, seen |-> {}, hash |-> 0, todo |-> {}]

TypeOK ==
    /\ up \in Deployments
    /\ chain \in Seq([hash : Hashes, txs : SUBSET Txs])
    /\ Len(chain) <= MaxHeight
    /\ forks \in Hashes
    /\ known \subseteq Quotes
    /\ events \in [Txs -> Rows]
    /\ receipt \in [Txs -> 0 .. MaxHeight]
    /\ cursor.next \in Heights \cup {MaxHeight + 1}
    /\ cursor.revision \in Nat
    /\ cursor.owner \in Workers \cup {None}
    /\ cursor.expired \in BOOLEAN
    /\ checkpoints \subseteq Points
    /\ wk \in [Workers -> Runs]
    /\ faults \in 0 .. MaxFaults
    /\ late \subseteq Txs /\ fresh \subseteq Txs
    /\ scanned \subseteq Points

Init ==
    /\ up \in Deployments
    /\ chain = <<>>
    /\ forks = 0
    /\ known = up.projected
    /\ events = [t \in Txs |-> [state |-> "absent", block |-> 0]]
    /\ receipt = [t \in Txs |-> 0]
    /\ cursor = [next |-> Start, revision |-> 0, owner |-> None, expired |-> FALSE]
    /\ checkpoints = {}
    /\ wk = [w \in Workers |-> Idle]
    /\ faults = 0
    /\ late = {}
    /\ fresh = {}
    /\ scanned = {}

-----------------------------------------------------------------------------
(* The chain.  A settlement spends its quote's nonce, so that a branch     *)
(* settles a quote at most once.                                           *)

OnChain(t, b) == b \in DOMAIN chain /\ t \in chain[b].txs

Settled(q) == \E b \in DOMAIN chain, t \in Txs : OnChain(t, b) /\ QuoteOf[t] = q

Mine(txs) ==
    /\ txs \subseteq up.mined
    /\ Len(chain) < up.height
    /\ \A t \in txs : ~Settled(QuoteOf[t])
    /\ \A t, u \in txs : QuoteOf[t] = QuoteOf[u] => t = u
    /\ chain' = Append(chain, [hash |-> forks, txs |-> txs])
    /\ UNCHANGED <<up, forks, known, events, receipt, cursor, checkpoints, wk,
                   faults, history>>

\* The node leaves its branch at height b, and shows the new one block by
\* block.
Reorg(b) ==
    /\ forks < up.reorgs
    /\ chain' = SubSeq(chain, 1, b - 1)
    /\ forks' = forks + 1
    /\ UNCHANGED <<up, known, events, receipt, cursor, checkpoints, wk, faults,
                   history>>

\* The projection of the issuance journal reaches the quote's row.
Project(q) ==
    /\ q \notin known
    /\ known' = known \cup {q}
    /\ UNCHANGED <<up, chain, forks, events, receipt, cursor, checkpoints, wk,
                   faults, history>>

-----------------------------------------------------------------------------
(* Rows of settlement_events.                                              *)

Rival(t) == \E u \in Txs \ {t} :
    QuoteOf[u] = QuoteOf[t] /\ events[u].state = "canonical"

IsCanonical(t, b) == events[t] = [state |-> "canonical", block |-> b]

\* applySettlementEvent inserts a new row or reactivates its removed one; the
\* keys are transaction and log, and the quote among canonical rows.
Fits(t, b) ==
    /\ ~Rival(t)
    /\ \/ events[t].state = "absent"
       \/ events[t] = [state |-> "removed", block |-> b]

\* Neither: the row is of another block, or the quote has a canonical row.
Conflicts(t, b) == ~IsCanonical(t, b) /\ ~Fits(t, b)

SetRow(t, state, b) ==
    events' = [events EXCEPT ![t] = [state |-> state, block |-> b]]

-----------------------------------------------------------------------------
(* /submit: a receipt confirmed when it was read, stored later.            *)

ReadReceipt(t, b) ==
    /\ t \in up.submitted
    /\ receipt[t] = 0
    /\ QuoteOf[t] \in known
    /\ OnChain(t, b)
    /\ b <= Len(chain) - Confirmations + 1
    /\ receipt' = [receipt EXCEPT ![t] = b]
    /\ UNCHANGED <<world, store, wk, faults, history>>

StoreReceipt(t) ==
    /\ receipt[t] # 0
    /\ IF Fits(t, receipt[t])
       THEN /\ SetRow(t, "canonical", receipt[t])
            /\ late' = IF OnChain(t, receipt[t]) THEN late \ {t} ELSE late \cup {t}
            /\ fresh' = fresh \cup {t}
       ELSE UNCHANGED <<events, late, fresh>>
    /\ receipt' = [receipt EXCEPT ![t] = 0]
    /\ UNCHANGED <<world, cursor, checkpoints, wk, faults, scanned>>

-----------------------------------------------------------------------------
(* The cursor's lease.                                                     *)

Goto(w, s) == wk' = [wk EXCEPT ![w].at = s]

EndRun(w) == wk' = [wk EXCEPT ![w] = Idle]

\* WHERE lease_owner = $2 AND lease_expires_at > now() AND revision = $4 AND
\* next_block = $5
Holds(w) ==
    /\ cursor.owner = w
    /\ ~cursor.expired
    /\ cursor.revision = wk[w].rev
    /\ cursor.next = wk[w].next

\* The cursor has been claimed, or moved, by another worker since.
Superseded(w) == cursor.owner # w \/ cursor.revision # wk[w].rev

Claim(w) ==
    /\ w \in up.workers
    /\ wk[w].at = "idle"
    /\ cursor.owner \in {None, w} \/ cursor.expired
    /\ cursor' = [cursor EXCEPT !.owner = w, !.expired = FALSE]
    /\ wk' = [wk EXCEPT ![w] =
         [Idle EXCEPT !.at = IF cursor.next = Start THEN "scan" ELSE "checkpoints",
                      !.next = cursor.next, !.rev = cursor.revision]]
    /\ UNCHANGED <<world, events, receipt, checkpoints, faults, history>>

\* A worker that stops in good order gives its lease up.
Release(w) ==
    /\ wk[w].at = "idle"
    /\ cursor.owner = w
    /\ cursor' = [cursor EXCEPT !.owner = None, !.expired = FALSE]
    /\ UNCHANGED <<world, events, receipt, checkpoints, wk, faults, history>>

\* leaseMs pass: a fault when the owner is in the middle of a run.
LeaseRunsOut ==
    /\ cursor.owner # None /\ ~cursor.expired
    /\ IF wk[cursor.owner].at = "idle" THEN faults' = faults
       ELSE faults < MaxFaults /\ faults' = faults + 1
    /\ cursor' = [cursor EXCEPT !.expired = TRUE]
    /\ UNCHANGED <<world, events, receipt, checkpoints, wk, history>>

\* An error of the RPC or of PostgreSQL, or a crash: the lease stays.
Fail(w) ==
    /\ wk[w].at # "idle"
    /\ faults < MaxFaults
    /\ faults' = faults + 1
    /\ EndRun(w)
    /\ UNCHANGED <<world, store, receipt, history>>

-----------------------------------------------------------------------------
(* rollbackReorgIfNeeded.                                                  *)

Max2(a, b) == IF a > b THEN a ELSE b

\* The oldest block whose checkpoint is looked at.
Oldest(next) == Max2(Start, next - 1 - Lookback)

Matches(p) == p.block \in DOMAIN chain /\ chain[p.block].hash = p.hash

ListCheckpoints(w) ==
    LET run == wk[w]
        cps == {p \in checkpoints : Oldest(run.next) <= p.block /\ p.block < run.next}
    IN  /\ run.at = "checkpoints"
        /\ IF \E p \in cps : p.block = run.next - 1
           THEN wk' = [wk EXCEPT ![w].at = "compare", ![w].cps = cps]
           ELSE EndRun(w)
        /\ UNCHANGED <<world, store, receipt, faults, history>>

\* getBlockHash of the last indexed block; an error while the node lacks it.
CompareLast(w) ==
    LET last == CHOOSE p \in wk[w].cps : p.block = wk[w].next - 1
    IN  /\ wk[w].at = "compare"
        /\ IF last.block \notin DOMAIN chain THEN EndRun(w)
           ELSE IF Matches(last) THEN wk' = [wk EXCEPT ![w].at = "scan", ![w].cps = {}]
           ELSE Goto(w, "ancestor")
        /\ UNCHANGED <<world, store, receipt, faults, history>>

\* The youngest older checkpoint still on the chain, or the start when the
\* window reaches it; beyond the window the chain stops (DEEP_REORG).
FindAncestor(w) ==
    LET run == wk[w]
        older == {p \in run.cps : p.block < run.next - 1}
        common == {p \in older : Matches(p)}
        to == IF common = {} THEN Start
              ELSE 1 + CHOOSE b \in {p.block : p \in common} :
                           \A p \in common : p.block <= b
    IN  /\ run.at = "ancestor"
        /\ IF common = {} /\ Oldest(run.next) # Start THEN EndRun(w)
           ELSE wk' = [wk EXCEPT ![w].at = "orphans", ![w].to = to - 1, ![w].cps = {}]
        /\ UNCHANGED <<world, store, receipt, faults, history>>

CanonicalIn(from, to) ==
    {l \in [tx : Txs, block : from .. to] : IsCanonical(l.tx, l.block)}

\* Faulty variant of ListOrphans: the first block to scan again is left out.
ListOrphansAfter(w) ==
    /\ wk[w].at = "orphans"
    /\ wk' = [wk EXCEPT ![w].at = "unwind",
                        ![w].todo = CanonicalIn(wk[w].to + 2, wk[w].next - 1)]
    /\ fresh' = IF Superseded(w) THEN fresh ELSE {}
    /\ UNCHANGED <<world, store, receipt, faults, late, scanned>>

ListOrphans(w) ==
    /\ wk[w].at = "orphans"
    /\ wk' = [wk EXCEPT ![w].at = "unwind",
                        ![w].todo = CanonicalIn(wk[w].to + 1, wk[w].next - 1)]
    /\ fresh' = IF Superseded(w) THEN fresh ELSE {}
    /\ UNCHANGED <<world, store, receipt, faults, late, scanned>>

\* removeSettlementEvent of the next event listed, if it is still canonical.
RemoveNext(w) ==
    \E e \in wk[w].todo :
        /\ \A f \in wk[w].todo : f.block <= e.block
        /\ IF events[e.tx].state # "canonical"
           THEN /\ wk' = [wk EXCEPT ![w].todo = @ \ {e}]
                /\ UNCHANGED <<events, late>>
           ELSE IF events[e.tx].block # e.block
           THEN EndRun(w) /\ UNCHANGED <<events, late>>
           ELSE /\ wk' = [wk EXCEPT ![w].todo = @ \ {e}]
                /\ SetRow(e.tx, "removed", e.block)
                /\ late' = IF Superseded(w) THEN late \cup {e.tx} ELSE late \ {e.tx}

Unwind(w) ==
    /\ wk[w].at = "unwind"
    /\ RemoveNext(w)
    /\ UNCHANGED <<world, receipt, cursor, checkpoints, faults, fresh, scanned>>

\* Faulty variant of RollbackCursor: back to the ancestor itself, which then has
\* no checkpoint before it.
RollbackToAncestor(w) ==
    LET next == wk[w].to
    IN  /\ wk[w].at = "unwind" /\ wk[w].todo = {}
        /\ IF Holds(w)
           THEN /\ cursor' = [cursor EXCEPT !.next = next, !.revision = @ + 1]
                /\ checkpoints' = {p \in checkpoints : p.block < next}
                /\ scanned' = {p \in scanned : p.block < next}
           ELSE UNCHANGED <<cursor, checkpoints, scanned>>
        /\ EndRun(w)
        /\ UNCHANGED <<world, events, receipt, faults, late, fresh>>

\* Faulty variant of RollbackCursor: the orphaned checkpoints stay.
RollbackCursorOnly(w) ==
    LET next == wk[w].to + 1
    IN  /\ wk[w].at = "unwind" /\ wk[w].todo = {}
        /\ IF Holds(w)
           THEN /\ cursor' = [cursor EXCEPT !.next = next, !.revision = @ + 1]
                /\ scanned' = {p \in scanned : p.block < next}
           ELSE UNCHANGED <<cursor, scanned>>
        /\ EndRun(w)
        /\ UNCHANGED <<world, events, receipt, checkpoints, faults, late, fresh>>

RollbackCursor(w) ==
    LET next == wk[w].to + 1
    IN  /\ wk[w].at = "unwind" /\ wk[w].todo = {}
        /\ IF Holds(w)
           THEN /\ cursor' = [cursor EXCEPT !.next = next, !.revision = @ + 1]
                /\ checkpoints' = {p \in checkpoints : p.block < next}
                /\ scanned' = {p \in scanned : p.block < next}
           ELSE UNCHANGED <<cursor, checkpoints, scanned>>
        /\ EndRun(w)
        /\ UNCHANGED <<world, events, receipt, faults, late, fresh>>

-----------------------------------------------------------------------------
(* The scan of a range.                                                    *)

Safe == Len(chain) - Confirmations

Min2(a, b) == IF a < b THEN a ELSE b

LogsIn(from, to) ==
    {l \in [tx : Txs, block : from .. to] : OnChain(l.tx, l.block)}

\* getBlockNumber: the range ends at the confirmed head at most.
ReadHead(w) ==
    /\ wk[w].at = "scan"
    /\ IF Safe < wk[w].next THEN EndRun(w)
       ELSE wk' = [wk EXCEPT ![w].at = "logs",
                             ![w].to = Min2(Safe, wk[w].next + MaxRange - 1)]
    /\ UNCHANGED <<world, store, receipt, faults, history>>

\* getQuoteSettledLogs gives each log the hash of the block it is in; a range
\* that a reorg has left partly or wholly without blocks yields fewer logs.
Scan(w) ==
    LET run == wk[w]
        blocks == (run.next .. run.to) \cap DOMAIN chain
    IN  /\ run.at = "logs"
        /\ wk' = [wk EXCEPT ![w].at = "verify",
                            ![w].logs = LogsIn(run.next, run.to),
                            ![w].seen = {[block |-> b, hash |-> chain[b].hash] :
                                            b \in blocks}]
        /\ UNCHANGED <<world, store, receipt, faults, history>>

WithLogs(run) == {p \in run.seen : \E l \in run.logs : l.block = p.block}

\* verifyLogBlockHashes asks again for the hash of each block that has logs,
\* and of no other.
Verify(w) ==
    /\ wk[w].at = "verify"
    /\ IF \A p \in WithLogs(wk[w]) : Matches(p) THEN Goto(w, "seal") ELSE EndRun(w)
    /\ UNCHANGED <<world, store, receipt, faults, history>>

\* The checkpoint's hash: the one verified, or one asked for now.
Seal(w) ==
    LET run == wk[w]
        verified == {p \in WithLogs(run) : p.block = run.to}
    IN  /\ run.at = "seal"
        /\ IF verified # {}
           THEN wk' = [wk EXCEPT ![w].at = "strays",
                                 ![w].hash = (CHOOSE p \in verified : TRUE).hash]
           ELSE IF run.to \in DOMAIN chain
           THEN wk' = [wk EXCEPT ![w].at = "strays", ![w].hash = chain[run.to].hash]
           ELSE EndRun(w)
        /\ UNCHANGED <<world, store, receipt, faults, history>>

\* Faulty variant of ListStrays: the rows of the range are taken as they are.
ListNoStrays(w) ==
    /\ wk[w].at = "strays"
    /\ wk' = [wk EXCEPT ![w].at = "clean", ![w].todo = {}]
    /\ UNCHANGED <<world, store, receipt, faults, history>>

\* removeOrphanedUncheckpointedEvents: rows of the range that no log confirms.
ListStrays(w) ==
    /\ wk[w].at = "strays"
    /\ wk' = [wk EXCEPT ![w].at = "clean",
                        ![w].todo = CanonicalIn(wk[w].next, wk[w].to) \ wk[w].logs]
    /\ UNCHANGED <<world, store, receipt, faults, history>>

Clean(w) ==
    /\ wk[w].at = "clean"
    /\ RemoveNext(w)
    /\ UNCHANGED <<world, receipt, cursor, checkpoints, faults, fresh, scanned>>

\* The strays are gone; the logs come next.
StartApply(w) ==
    /\ wk[w].at = "clean" /\ wk[w].todo = {}
    /\ wk' = [wk EXCEPT ![w].at = "apply", ![w].todo = wk[w].logs]
    /\ UNCHANGED <<world, store, receipt, faults, history>>

\* applyLog, in the order of the blocks: an error for a quote PostgreSQL does
\* not show (QUOTE_NOT_FOUND) or for a row that conflicts.
Apply(w) ==
    /\ wk[w].at = "apply"
    /\ \E l \in wk[w].todo :
        /\ \A k \in wk[w].todo : l.block <= k.block
        /\ IF QuoteOf[l.tx] \notin known \/ Conflicts(l.tx, l.block)
           THEN EndRun(w) /\ UNCHANGED <<events, late>>
           ELSE /\ wk' = [wk EXCEPT ![w].todo = @ \ {l}]
                /\ IF Fits(l.tx, l.block)
                   THEN /\ SetRow(l.tx, "canonical", l.block)
                        /\ late' = IF Superseded(w) THEN late \cup {l.tx}
                                                    ELSE late \ {l.tx}
                   ELSE UNCHANGED <<events, late>>
    /\ UNCHANGED <<world, receipt, cursor, checkpoints, faults, fresh, scanned>>

\* One transaction: the checkpoint, unless one of another hash is there, and
\* the cursor, if the lease, the revision and the block are still the run's.
AdvanceCursor(w) ==
    LET run == wk[w]
        point == [block |-> run.to, hash |-> run.hash]
    IN  /\ run.at = "apply" /\ run.todo = {}
        /\ IF Holds(w) /\ \A p \in checkpoints : p.block = run.to => p = point
           THEN /\ cursor' = [cursor EXCEPT !.next = run.to + 1, !.revision = @ + 1]
                /\ checkpoints' = checkpoints \cup {point}
                /\ scanned' = scanned \cup run.seen
           ELSE UNCHANGED <<cursor, checkpoints, scanned>>
        /\ EndRun(w)
        /\ UNCHANGED <<world, events, receipt, faults, late, fresh>>

-----------------------------------------------------------------------------

Step(w) ==
    \/ ListCheckpoints(w) \/ CompareLast(w) \/ FindAncestor(w)
    \/ ListOrphans(w) \/ Unwind(w) \/ RollbackCursor(w)
    \/ ReadHead(w) \/ Scan(w) \/ Verify(w) \/ Seal(w)
    \/ ListStrays(w) \/ Clean(w) \/ StartApply(w) \/ Apply(w)
    \/ AdvanceCursor(w)

Next ==
    \/ \E txs \in SUBSET Txs : Mine(txs)
    \/ \E b \in DOMAIN chain : Reorg(b)
    \/ \E q \in Quotes : Project(q)
    \/ \E t \in Txs, b \in Heights : ReadReceipt(t, b)
    \/ \E t \in Txs : StoreReceipt(t)
    \/ LeaseRunsOut
    \/ \E w \in Workers : Claim(w) \/ Release(w) \/ Fail(w) \/ Step(w)

Spec == Init /\ [][Next]_vars

\* Blocks keep coming, the journal's projection catches up, and of the workers
\* one that may claim the cursor does, and one that can carry its run on does.
\* No lease has to run out, and no gateway has to store what it read.
Fairness ==
    /\ WF_vars(\E txs \in SUBSET Txs : Mine(txs))
    /\ WF_vars(\E q \in Quotes : Project(q))
    /\ SF_vars(\E w \in Workers : Claim(w))
    /\ WF_vars(\E w \in Workers : Step(w))

FairSpec == Spec /\ Fairness

-----------------------------------------------------------------------------
(* Properties.                                                             *)

LastPoint == {p \in checkpoints : p.block = cursor.next - 1}

\* The cursor's last checkpoint is a block of the node's branch.
InSync == cursor.next = Start \/ \E p \in LastPoint : Matches(p)

\* Behind the cursor every height belongs to a checkpointed range: the last
\* block of the last one is a checkpoint, none lies ahead, and a block has one
\* hash.  Without it a run ends in an error before it can look for a reorg
\* (rollbackReorgIfNeeded).
CursorIsCheckpointed ==
    /\ cursor.next # Start => LastPoint # {}
    /\ \A p \in checkpoints : p.block < cursor.next
    /\ \A p, r \in checkpoints : p.block = r.block => p = r

\* While the last checkpoint is on the chain, settlement_events and the chain
\* agree behind the cursor, at every block that is still the one whose logs were
\* read: each canonical row is a settlement of that block, and each settlement
\* is a canonical row.  Excepted are rows last written by a worker the cursor
\* had passed, or from a receipt already orphaned: no lease fences those.  Of a
\* block that was replaced after its logs were read and before the range was
\* sealed it says nothing, see NothingMissed.
EventsFollowChain ==
    InSync =>
        \A p \in scanned, t \in Txs \ late :
            Matches(p) =>
                (OnChain(t, p.block) <=> IsCanonical(t, p.block))

\* Every settlement behind the cursor was applied: the cursor moves only after
\* every log of its range.  The code does not keep this: a range that is sealed
\* with the hash of a branch other than the one whose logs were read passes for
\* indexed.
NothingMissed ==
    InSync =>
        \A b \in Start .. cursor.next - 1, t \in Txs \ late :
            OnChain(t, b) => IsCanonical(t, b)

\* The cursor goes back only over blocks of whose events none is left canonical,
\* whatever the gateways and further reorgs do meanwhile, but those a gateway
\* stored since the orphans were listed and those of an unfenced writer.
RollbackLeavesNoOrphan ==
    [][cursor'.next < cursor.next =>
        \A t \in Txs \ (late \cup fresh) :
            ~(/\ events[t].state = "canonical"
              /\ events[t].block \in cursor'.next .. cursor.next - 1)]_vars

\* A reorg deeper than the checkpoints of the window (DEEP_REORG).
Deep ==
    /\ ~InSync
    /\ Oldest(cursor.next) # Start
    /\ ~\E p \in checkpoints : Oldest(cursor.next) <= p.block /\ Matches(p)

\* A settlement ahead of the cursor that no row can hold: its transaction has a
\* row of another block, or its quote a canonical row.
Blocked ==
    \E t \in Txs, b \in cursor.next .. Safe : OnChain(t, b) /\ Conflicts(t, b)

\* The indexer reaches the confirmed head and stays there, unless a deep reorg
\* or a conflicting row stops it: an error, a lost lease, a crash between any
\* two steps, a shorter branch or a late projection only delays it.
CatchesUp == <>[]((InSync /\ Safe < cursor.next) \/ Deep \/ Blocked)
===============================================================================
