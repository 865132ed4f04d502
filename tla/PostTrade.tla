------------------------------- MODULE PostTrade -------------------------------
(***************************************************************************)
(* What follows the settlement of one quote.  Its rows in PostgreSQL are   *)
(* written by three kinds of process that share nothing else: gateways     *)
(* that serve /submit, the settlement indexer, and reconciliation workers  *)
(* that lease the quote's job.  A trigger on settlement_events keeps the   *)
(* job's desired state; the hedge order, the PnL record and the quote's    *)
(* pointers to both are projections of it.  Every statement on PostgreSQL  *)
(* is one action; a read whose outcome the next statement compares and     *)
(* sets is part of that statement.                                         *)
(***************************************************************************)
EXTENDS Naturals, FiniteSets

CONSTANTS
    Events,         \* settlements of the quote, on one branch or another
    Gateways,
    Workers,        \* reconciliation workers
    None,
    Deployments,    \* bound: the processes that run together
    MaxReorgs,      \* bound: settlements a reorg takes off the chain
    MaxFaults       \* bound: errors, crashes and leases that run out mid-way

ASSUME PostTradeAssumption ==
    /\ None \notin Events \cup Workers \cup Gateways
    /\ {"quote", "pnl"} \cap Events = {}
    /\ IsFiniteSet(Events)
    /\ Deployments \subseteq SUBSET (Gateways \cup Workers)
    /\ {MaxReorgs, MaxFaults} \subseteq Nat

VARIABLES
    up,             \* the processes that run; each gateway serves one request
    chain,          \* the settlement on the node's branch, or None
    reorgs,
    rows,           \* settlement_events
    job,            \* post_trade_reconciliation_jobs; no row at revision 0
    quote,          \* quotes: the status and the pointers
    pnl,            \* pnl_records: the settlement the quote's record is of
    hedge,          \* hedge_orders
    overdue,        \* a step has found the quote's deadline passed
    reservation,    \* quote_submit_reservations
    gw,             \* what each gateway is doing; overran is history: its
                    \* reservation's lease ran out while it was at work
    wk,             \* what each worker is doing
    faults,
    late            \* history: rows (a hedge order by its settlement) last
                    \* written by a worker that had lost the job, or by a
                    \* gateway for a settlement removed

settlement == <<up, chain, reorgs, rows>>
projections == <<quote, pnl, hedge, late>>
vars == <<up, chain, reorgs, rows, job, quote, pnl, hedge, overdue, reservation,
          gw, wk, faults, late>>

MaybeEvents == Events \cup {None}

Statuses == {"signed", "submitted", "settled", "expired", "failed"}

\* "sent": leased by a hedge worker, submitted or terminal, so that it stays.  A
\* hedge worker takes an order at any time: which came first is chosen when a
\* deletion or a failure meets it.
HedgeStates == {"none", "queued", "sent", "failed"}

GatewaySteps == {"idle", "reserve", "evidence", "apply", "hedge", "pnl",
                 "submitted", "settled", "release", "done"}

WorkerSteps == {"idle", "list", "clear", "hedges", "create", "record", "restore",
                "erase", "forget", "mark", "retry"}

Gws == [at : GatewaySteps, event : MaybeEvents, hedged : BOOLEAN, valued : BOOLEAN,
        overran : BOOLEAN]

Wks == [at : WorkerSteps, desired : MaybeEvents, revision : Nat,
        removed : SUBSET Events, todo : SUBSET Events]

NoRequest == [at |-> "idle", event |-> None, hedged |-> FALSE, valued |-> FALSE,
              overran |-> FALSE]

Served == [NoRequest EXCEPT !.at = "done"]

NoJob == [at |-> "idle", desired |-> None, revision |-> 0, removed |-> {}, todo |-> {}]

Unsettled(status) ==
    [status |-> status, event |-> None, hedge |-> None, pnl |-> FALSE]

TypeOK ==
    /\ up \in Deployments
    /\ chain \in MaybeEvents
    /\ reorgs \in 0 .. MaxReorgs
    /\ rows \in [Events -> {"absent", "canonical", "removed"}]
    /\ job \in [desired : MaybeEvents, revision : Nat, processed : Nat,
                owner : Workers \cup {None}, expired : BOOLEAN]
    /\ job.processed <= job.revision
    /\ quote \in [status : Statuses, event : MaybeEvents, hedge : MaybeEvents,
                  pnl : BOOLEAN]
    /\ pnl \in MaybeEvents
    /\ hedge \in [Events -> HedgeStates]
    /\ overdue \in BOOLEAN
    /\ reservation \in [owner : Gateways \cup {None}, expired : BOOLEAN]
    /\ gw \in [Gateways -> Gws]
    /\ wk \in [Workers -> Wks]
    /\ faults \in 0 .. MaxFaults
    /\ late \subseteq {"quote", "pnl"} \cup Events

Init ==
    /\ up \in Deployments
    /\ chain = None
    /\ reorgs = 0
    /\ rows = [e \in Events |-> "absent"]
    /\ job = [desired |-> None, revision |-> 0, processed |-> 0, owner |-> None,
              expired |-> FALSE]
    /\ quote = Unsettled("signed")
    /\ pnl = None
    /\ hedge = [e \in Events |-> "none"]
    /\ overdue = FALSE
    /\ reservation = [owner |-> None, expired |-> FALSE]
    /\ gw = [g \in Gateways |-> NoRequest]
    /\ wk = [w \in Workers |-> NoJob]
    /\ faults = 0
    /\ late = {}

Fault == faults < MaxFaults /\ faults' = faults + 1

-----------------------------------------------------------------------------
(* The chain, the indexer and the clock.                                   *)

Settle(e) ==
    /\ chain = None
    /\ chain' = e
    /\ UNCHANGED <<up, reorgs, rows, job, projections, overdue, reservation, gw, wk,
                   faults>>

Reorg ==
    /\ chain # None
    /\ reorgs < MaxReorgs
    /\ chain' = None
    /\ reorgs' = reorgs + 1
    /\ UNCHANGED <<up, rows, job, projections, overdue, reservation, gw, wk, faults>>

Canonical(r) == {e \in Events : r[e] = "canonical"}

\* Faulty variant of Enqueue: a removal takes back the revision of its event.
EnqueueUndone ==
    LET desired == IF Canonical(rows') = {} THEN None
                   ELSE CHOOSE e \in Canonical(rows') : TRUE
    IN  job' = IF job.revision # 0 /\ job.desired = desired THEN job
               ELSE [job EXCEPT !.desired = desired,
                                !.revision = IF desired = None THEN @ - 1 ELSE @ + 1]

\* The trigger on settlement_events, in the transaction that changes a row: the
\* job wants the canonical row, and a change starts a new revision.  The lease
\* of a worker at the old one stays.
Enqueue ==
    LET desired == IF Canonical(rows') = {} THEN None
                   ELSE CHOOSE e \in Canonical(rows') : TRUE
    IN  job' = IF job.revision # 0 /\ job.desired = desired THEN job
               ELSE [job EXCEPT !.desired = desired, !.revision = @ + 1]

\* applySettlementEvent and removeSettlementEvent by the indexer.
IndexEvent(e) ==
    /\ chain = e
    /\ rows[e] # "canonical" /\ Canonical(rows) = {}
    /\ rows' = [rows EXCEPT ![e] = "canonical"]
    /\ Enqueue
    /\ UNCHANGED <<up, chain, reorgs, projections, overdue, reservation, gw, wk, faults>>

RemoveEvent(e) ==
    /\ chain # e
    /\ rows[e] = "canonical"
    /\ rows' = [rows EXCEPT ![e] = "removed"]
    /\ Enqueue
    /\ UNCHANGED <<up, chain, reorgs, projections, overdue, reservation, gw, wk, faults>>

\* getQuoteStatus marks an overdue quote.
MarkExpired ==
    /\ quote.status = "signed"
    /\ overdue' = TRUE
    /\ quote' = [quote EXCEPT !.status = "expired"]
    /\ UNCHANGED <<settlement, job, pnl, hedge, late, reservation, gw, wk, faults>>

-----------------------------------------------------------------------------
(* Writes on the projections, by gateways and workers alike.               *)

\* A write is late when its writer lost the job, or its settlement the chain;
\* the worker that owns the job makes good for it.
Written(row, isLate, repairs) ==
    late' = IF isLate THEN late \cup {row} ELSE IF repairs THEN late \ {row} ELSE late

\* createHedgeIntent: inserts, or finds the row it would insert.
QueueHedge(e, isLate, repairs) ==
    IF hedge[e] = "none"
    THEN hedge' = [hedge EXCEPT ![e] = "queued"] /\ Written(e, isLate, repairs)
    ELSE UNCHANGED <<hedge, late>>

\* recordSettlement: one record per quote; one of another settlement is an error.
PnlConflicts(e) == pnl \notin {None, e}

RecordPnl(e, isLate, repairs) ==
    IF pnl = None THEN pnl' = e /\ Written("pnl", isLate, repairs)
    ELSE UNCHANGED <<pnl, late>>

\* assertQuoteStatusMetadataDoesNotConflict, and the foreign keys.
CanPoint(e, hedged, valued) ==
    /\ quote.event \in {None, e}
    /\ hedged => quote.hedge \in {None, e} /\ hedge[e] # "none"
    /\ valued => pnl # None

Pointed(status, e, hedged, valued) ==
    [status |-> status, event |-> e,
     hedge |-> IF hedged THEN e ELSE quote.hedge, pnl |-> quote.pnl \/ valued]

-----------------------------------------------------------------------------
(* A gateway serves POST /submit.                                          *)

Gone(g) == gw[g].event = None \/ rows[gw[g].event] # "canonical"

ToStep(g, s) == gw' = [gw EXCEPT ![g].at = s]

\* requireSubmittableSignedQuote; with a txHash an expired quote passes.  The
\* transaction is a settlement, or (None) one that reverted.
Begin(g, e) ==
    /\ g \in up /\ gw[g].at = "idle"
    /\ quote.status \in {"signed", "expired"}
    /\ gw' = [gw EXCEPT ![g] = [NoRequest EXCEPT !.at = "reserve", !.event = e]]
    /\ UNCHANGED <<settlement, job, projections, overdue, reservation, wk, faults>>

\* acquireSubmitReservation; QUOTE_ALREADY_USED while another request holds it.
Reserve(g) ==
    /\ gw[g].at = "reserve"
    /\ IF reservation.owner = None \/ reservation.expired
       THEN reservation' = [owner |-> g, expired |-> FALSE] /\ ToStep(g, "evidence")
       ELSE gw' = [gw EXCEPT ![g] = Served] /\ UNCHANGED reservation
    /\ UNCHANGED <<settlement, job, projections, overdue, wk, faults>>

\* The receipt provider finds the confirmed settlement.
SeeEvidence(g) ==
    /\ gw[g].at = "evidence"
    /\ gw[g].event # None /\ chain = gw[g].event
    /\ ToStep(g, "apply")
    /\ UNCHANGED <<settlement, job, projections, overdue, reservation, wk, faults>>

\* The receipt times out, or answers something a retry may change.
NoEvidence(g) ==
    /\ gw[g].at = "evidence"
    /\ gw[g].event # None /\ chain # gw[g].event
    /\ ToStep(g, "release")
    /\ UNCHANGED <<settlement, job, projections, overdue, reservation, wk, faults>>

\* SETTLEMENT_TX_REVERTED: markQuoteFailed, whose errors are swallowed.
SeeRevert(g) ==
    /\ gw[g].at = "evidence"
    /\ gw[g].event = None
    /\ quote' = [quote EXCEPT !.status = IF @ = "signed" THEN "failed" ELSE @]
    /\ ToStep(g, "release")
    /\ UNCHANGED <<settlement, job, pnl, hedge, late, overdue, reservation, wk,
                   faults>>

\* applySettlementEvent, with the trigger.  A duplicate skips hedge and PnL.
ApplyEvent(g) ==
    LET e == gw[g].event
    IN  /\ gw[g].at = "apply"
        /\ IF rows[e] = "canonical" THEN ToStep(g, "submitted") /\ UNCHANGED <<rows, job>>
           ELSE IF Canonical(rows) # {} THEN ToStep(g, "release") /\ UNCHANGED <<rows, job>>
           ELSE /\ rows' = [rows EXCEPT ![e] = "canonical"]
                /\ Enqueue
                /\ ToStep(g, "hedge")
        /\ UNCHANGED <<up, chain, reorgs, projections, overdue, reservation, wk, faults>>

CreateHedge(g) ==
    /\ gw[g].at = "hedge"
    /\ QueueHedge(gw[g].event, Gone(g), FALSE)
    /\ gw' = [gw EXCEPT ![g].at = "pnl", ![g].hedged = TRUE]
    /\ UNCHANGED <<settlement, job, quote, pnl, overdue, reservation, wk, faults>>

\* createHedgeIntent or its answer fails; recordHedgeFailure leaves a failed
\* order, or fails too (or was never reached, as no order could be planned).
FailHedge(g) ==
    LET e == gw[g].event
    IN  /\ gw[g].at = "hedge"
        /\ Fault
        /\ \/ UNCHANGED <<hedge, late>>
           \/ /\ \E s \in {"failed"} \cup (IF hedge[e] = "none" THEN {"queued"} ELSE {}) :
                     hedge' = [hedge EXCEPT ![e] = s]
              /\ Written(e, Gone(g), FALSE)
        /\ ToStep(g, "pnl")
        /\ UNCHANGED <<settlement, job, quote, pnl, overdue, reservation, wk>>

\* recordPnlSettlementBestEffort.
RecordTrade(g) ==
    LET e == gw[g].event
    IN  /\ gw[g].at = "pnl"
        /\ RecordPnl(e, Gone(g), FALSE)
        /\ gw' = [gw EXCEPT ![g].at = "submitted", ![g].valued = ~PnlConflicts(e)]
        /\ UNCHANGED <<settlement, job, quote, hedge, overdue, reservation, wk, faults>>

\* The record or its answer fails; the request goes on without a pnlId.
FailTrade(g) ==
    /\ gw[g].at = "pnl"
    /\ Fault
    /\ RecordPnl(gw[g].event, Gone(g), FALSE) \/ UNCHANGED <<pnl, late>>
    /\ ToStep(g, "submitted")
    /\ UNCHANGED <<settlement, job, quote, hedge, overdue, reservation, wk>>

\* markPostSettlementQuoteStatus, twice best effort.
MarkStatus(g, status, from, next) ==
    LET r == gw[g]
    IN  /\ r.at = status
        /\ IF quote.status \in from /\ CanPoint(r.event, r.hedged, r.valued)
           THEN /\ quote' = Pointed(status, r.event, r.hedged, r.valued)
                /\ Written("quote", Gone(g), FALSE)
           ELSE UNCHANGED <<quote, late>>
        /\ ToStep(g, next)
        /\ UNCHANGED <<settlement, job, pnl, hedge, overdue, reservation, wk, faults>>

MarkSubmitted(g) == MarkStatus(g, "submitted", {"signed"}, "settled")

MarkSettled(g) == MarkStatus(g, "settled", {"signed", "submitted", "settled"}, "release")

\* The first mark fails, and the second is tried.
FailMark(g) ==
    /\ gw[g].at = "submitted"
    /\ Fault
    /\ ToStep(g, "settled")
    /\ UNCHANGED <<settlement, job, projections, overdue, reservation, wk>>

\* Faulty variant of Release: deletes the quote's reservation, whose ever it is.
ReleaseAny(g) ==
    /\ gw[g].at = "release"
    /\ reservation' = [owner |-> None, expired |-> FALSE]
    /\ gw' = [gw EXCEPT ![g] = Served]
    /\ UNCHANGED <<settlement, job, projections, overdue, wk, faults>>

\* DELETE ... WHERE owner_token = $2.
Release(g) ==
    /\ gw[g].at = "release"
    /\ reservation' = IF reservation.owner = g THEN [owner |-> None, expired |-> FALSE]
                      ELSE reservation
    /\ gw' = [gw EXCEPT ![g] = Served]
    /\ UNCHANGED <<settlement, job, projections, overdue, wk, faults>>

\* The gateway crashes, or every statement left of the request fails.
GatewayDies(g) ==
    /\ gw[g].at \notin {"idle", "done"}
    /\ Fault
    /\ gw' = [gw EXCEPT ![g] = Served]
    /\ UNCHANGED <<settlement, job, projections, overdue, reservation, wk>>

\* Past its reservation, and not answered yet.
Busy(g) == gw[g].at \notin {"idle", "reserve", "done"}

\* The reservation's lease runs out, of a gateway that is gone or (a fault) of
\* one at work, which does not notice.
ReservationExpires ==
    /\ reservation.owner # None /\ ~reservation.expired
    /\ reservation' = [reservation EXCEPT !.expired = TRUE]
    /\ IF Busy(reservation.owner)
       THEN Fault /\ gw' = [gw EXCEPT ![reservation.owner].overran = TRUE]
       ELSE UNCHANGED <<faults, gw>>
    /\ UNCHANGED <<settlement, job, projections, overdue, wk>>

Submit(g) ==
    \/ Reserve(g) \/ SeeEvidence(g) \/ NoEvidence(g) \/ SeeRevert(g)
    \/ ApplyEvent(g) \/ CreateHedge(g) \/ RecordTrade(g)
    \/ MarkSubmitted(g) \/ MarkSettled(g) \/ Release(g)

-----------------------------------------------------------------------------
(* A reconciliation worker.                                                *)

Lost(w) == job.owner # w

GoOn(w, s) == wk' = [wk EXCEPT ![w].at = s]

Again(w) == wk' = [wk EXCEPT ![w] = [NoJob EXCEPT !.at = "retry"]]

\* Faulty variant of Claim: a lease that ran out still counts.
ClaimFree(w) ==
    /\ w \in up /\ wk[w].at = "idle"
    /\ job.processed < job.revision
    /\ job.owner = None
    /\ job' = [job EXCEPT !.owner = w, !.expired = FALSE]
    /\ wk' = [wk EXCEPT ![w] = [NoJob EXCEPT !.at = "list", !.desired = job.desired,
                                             !.revision = job.revision]]
    /\ UNCHANGED <<settlement, projections, overdue, reservation, gw, faults>>

\* claimNext.
Claim(w) ==
    /\ w \in up /\ wk[w].at = "idle"
    /\ job.processed < job.revision
    /\ job.owner = None \/ job.expired
    /\ job' = [job EXCEPT !.owner = w, !.expired = FALSE]
    /\ wk' = [wk EXCEPT ![w] = [NoJob EXCEPT !.at = "list", !.desired = job.desired,
                                             !.revision = job.revision]]
    /\ UNCHANGED <<settlement, projections, overdue, reservation, gw, faults>>

\* listSettlementEvents and desiredSettlement: an error when the canonical row
\* is no longer the one the job wanted (RECONCILIATION_STATE_CHANGED).
List(w) ==
    LET removed == {e \in Events : rows[e] = "removed"}
        desired == wk[w].desired
    IN  /\ wk[w].at = "list"
        /\ IF Canonical(rows) = (IF desired = None THEN {} ELSE {desired})
           THEN IF removed = {}
                THEN GoOn(w, IF desired = None THEN "mark" ELSE "create")
                ELSE wk' = [wk EXCEPT ![w].at = "clear", ![w].removed = removed,
                                      ![w].todo = removed]
           ELSE Again(w)
        /\ UNCHANGED <<settlement, job, projections, overdue, reservation, gw, faults>>

\* A worker at one row of a loop over the removed settlements.
At(w, e, s) == wk[w].at = s /\ e \in wk[w].todo

\* After the last row, the next loop, or the statements that follow.
Did(w, e, next) ==
    LET r == wk[w]
    IN  IF r.todo # {e} THEN wk' = [wk EXCEPT ![w].todo = r.todo \ {e}]
        ELSE IF next \in {"hedges", "erase"}
        THEN wk' = [wk EXCEPT ![w].at = next, ![w].todo = r.removed]
        ELSE wk' = [wk EXCEPT ![w].at = next, ![w].todo = {}, ![w].removed = {}]

\* Faulty variant of ClearQuote: the pointers to the hedge and the PnL stay.
ClearStatus(w, e) ==
    /\ At(w, e, "clear")
    /\ Did(w, e, IF wk[w].desired = None THEN "erase" ELSE "hedges")
    /\ IF quote.event = e /\ quote.status \in {"submitted", "settled"}
       THEN /\ quote' = [quote EXCEPT !.status = "signed", !.event = None]
            /\ Written("quote", Lost(w), TRUE)
       ELSE UNCHANGED <<quote, late>>
    /\ UNCHANGED <<settlement, job, pnl, hedge, overdue, reservation, gw, faults>>

\* reconcileRemovedSettlementToQuote: clearSettlementStatus.
ClearQuote(w, e) ==
    /\ At(w, e, "clear")
    /\ Did(w, e, IF wk[w].desired = None THEN "erase" ELSE "hedges")
    /\ IF quote.event = e /\ quote.status \in {"submitted", "settled"}
       THEN /\ overdue' \in {overdue, TRUE}
            /\ quote' = Unsettled(IF overdue' THEN "expired" ELSE "signed")
            /\ Written("quote", Lost(w), TRUE)
       ELSE UNCHANGED <<overdue, quote, late>>
    /\ UNCHANGED <<settlement, job, pnl, hedge, reservation, gw, faults>>

\* removeHedgeIntentBySettlementEvent: deletes an order still queued, which the
\* quote's foreign key may refuse; one a hedge worker has taken stays.
DropHedge(w, e) ==
    /\ \/ At(w, e, "hedges") /\ wk[w].desired # None
       \/ At(w, e, "erase")
    /\ \/ hedge[e] = "queued" /\ quote.hedge = e /\ Again(w) /\ UNCHANGED <<hedge, late>>
       \/ /\ IF hedge[e] = "queued"
             THEN /\ \E s \in {"sent"} \cup (IF quote.hedge = e THEN {} ELSE {"none"}) :
                        hedge' = [hedge EXCEPT ![e] = s]
                  /\ Written(e, Lost(w), TRUE)
             ELSE UNCHANGED <<hedge, late>>
          /\ IF wk[w].at = "hedges" THEN Did(w, e, "create")
             ELSE wk' = [wk EXCEPT ![w].at = "forget", ![w].todo = @ \ {e}]
    /\ UNCHANGED <<settlement, job, quote, pnl, overdue, reservation, gw, faults>>

\* removePnlRecord: the quote's record, whatever settlement it is of.
ForgetPnl(w) ==
    /\ wk[w].at = "forget"
    /\ IF quote.pnl THEN Again(w) /\ UNCHANGED <<pnl, late>>
       ELSE /\ IF pnl = None THEN UNCHANGED <<pnl, late>>
               ELSE pnl' = None /\ Written("pnl", Lost(w), TRUE)
            /\ GoOn(w, IF wk[w].todo = {} THEN "mark" ELSE "erase")
    /\ UNCHANGED <<settlement, job, quote, hedge, overdue, reservation, gw, faults>>

\* reconcileSettlementEventToHedge.
CreateMissing(w) ==
    /\ wk[w].at = "create"
    /\ QueueHedge(wk[w].desired, Lost(w), TRUE)
    /\ GoOn(w, "record")
    /\ UNCHANGED <<settlement, job, quote, pnl, overdue, reservation, gw, faults>>

\* reconcileSettlementEventToPnl.
RecordMissing(w) ==
    /\ wk[w].at = "record"
    /\ RecordPnl(wk[w].desired, Lost(w), TRUE)
    /\ IF PnlConflicts(wk[w].desired) THEN Again(w) ELSE GoOn(w, "restore")
    /\ UNCHANGED <<settlement, job, quote, hedge, overdue, reservation, gw, faults>>

\* reconcileSettlementEventToQuote: restoreSettlementStatus, unless
\* isAlreadyReconciled.
RestoreQuote(w) ==
    LET e == wk[w].desired
        hedged == hedge[e] # "none"
        restored == Pointed("settled", e, hedged, pnl # None)
    IN  /\ wk[w].at = "restore"
        /\ IF quote = restored THEN GoOn(w, "mark") /\ UNCHANGED <<quote, late>>
           ELSE IF quote.status # "failed" /\ CanPoint(e, hedged, pnl # None)
           THEN quote' = restored /\ Written("quote", Lost(w), TRUE) /\ GoOn(w, "mark")
           ELSE Again(w) /\ UNCHANGED <<quote, late>>
        /\ UNCHANGED <<settlement, job, pnl, hedge, overdue, reservation, gw, faults>>

Unleased == [job EXCEPT !.owner = None, !.expired = FALSE]

\* Faulty variant of Mark: a pass counts for whatever revision there is now.
MarkNewest(w) ==
    /\ wk[w].at = "mark"
    /\ job' = IF Lost(w) THEN job ELSE [Unleased EXCEPT !.processed = job.revision]
    /\ wk' = [wk EXCEPT ![w] = NoJob]
    /\ UNCHANGED <<settlement, projections, overdue, reservation, gw, faults>>

\* markProcessed: by the owner, even after its lease has run out; a newer
\* revision stays to be done.
Mark(w) ==
    /\ wk[w].at = "mark"
    /\ job' = IF Lost(w) THEN job
              ELSE IF job.revision = wk[w].revision
              THEN [Unleased EXCEPT !.processed = job.revision]
              ELSE Unleased
    /\ wk' = [wk EXCEPT ![w] = NoJob]
    /\ UNCHANGED <<settlement, projections, overdue, reservation, gw, faults>>

\* releaseForRetry.
Retry(w) ==
    /\ wk[w].at = "retry"
    /\ job' = IF Lost(w) THEN job ELSE Unleased
    /\ wk' = [wk EXCEPT ![w] = NoJob]
    /\ UNCHANGED <<settlement, projections, overdue, reservation, gw, faults>>

\* A statement fails; reports of errors become a retry.
StepFails(w) ==
    /\ wk[w].at \notin {"idle", "retry"}
    /\ Fault
    /\ Again(w)
    /\ UNCHANGED <<settlement, job, projections, overdue, reservation, gw>>

\* The process dies, or the release fails too; the lease stays.
WorkerDies(w) ==
    /\ wk[w].at # "idle"
    /\ Fault
    /\ wk' = [wk EXCEPT ![w] = NoJob]
    /\ UNCHANGED <<settlement, job, projections, overdue, reservation, gw>>

\* The lease runs out, of a worker that is gone or (a fault) of one at work.
LeaseExpires ==
    /\ job.owner # None /\ ~job.expired
    /\ IF wk[job.owner].at = "idle" THEN UNCHANGED faults ELSE Fault
    /\ job' = [job EXCEPT !.expired = TRUE]
    /\ UNCHANGED <<settlement, projections, overdue, reservation, gw, wk>>

Reconcile(w) ==
    \/ Claim(w) \/ List(w)
    \/ \E e \in Events : ClearQuote(w, e) \/ DropHedge(w, e)
    \/ ForgetPnl(w) \/ CreateMissing(w) \/ RecordMissing(w) \/ RestoreQuote(w)
    \/ Mark(w) \/ Retry(w)

Index == \E e \in Events : IndexEvent(e) \/ RemoveEvent(e)

Next ==
    \/ \E e \in Events : Settle(e)
    \/ Reorg \/ Index \/ MarkExpired
    \/ \E g \in Gateways :
          \/ \E e \in MaybeEvents : Begin(g, e)
          \/ Submit(g) \/ FailHedge(g) \/ FailTrade(g) \/ FailMark(g) \/ GatewayDies(g)
    \/ ReservationExpires
    \/ \E w \in Workers : Reconcile(w) \/ StepFails(w) \/ WorkerDies(w)
    \/ LeaseExpires

Spec == Init /\ [][Next]_vars

\* Workers poll and go on, leases end, and the indexer follows the chain.  Nobody
\* has to settle, to submit, to finish a request, or to fail.
FairSpec ==
    /\ Spec
    /\ \A w \in Workers : WF_vars(Reconcile(w))
    /\ WF_vars(LeaseExpires)
    /\ WF_vars(Index)

-----------------------------------------------------------------------------
(* Properties.                                                             *)

\* Every row but the excepted ones is as the job wants it: the quote, its PnL
\* record and a hedge order are those of the desired settlement, and nothing is
\* left of a removed one.
Reconciled(excepted) ==
    /\ "quote" \in excepted
       \/ (job.desired = None /\ quote.event = None /\ quote.hedge = None /\ ~quote.pnl)
       \/ (job.desired # None /\ quote.event = job.desired /\ quote.status = "settled")
    /\ "pnl" \in excepted \/ pnl = job.desired
    /\ \A e \in Events \ excepted : hedge[e] # IF e = job.desired THEN "none" ELSE "queued"

Processed == job.revision # 0 /\ job.processed = job.revision

\* What a job marked processed stands for, whichever worker got it there after
\* whatever failures: its rows are reconciled, except those last written late.
ProcessedIsProjected == Processed => Reconciled(late)

\* The same without the exception, "an old revision cannot overwrite the new
\* canonical state" (docs/diagrams/submit-sequence.md).  The code does not keep
\* it: a worker that has lost the job still writes the rows it was repairing.
NothingStale == Processed => Reconciled({})

\* Two gateways are never past the reservation of one quote at once: whoever is
\* at work holds it, except a gateway whose own lease has run out at work.  Its
\* late release does not free the reservation of the next.
OneSubmitter == \A g \in Gateways : Busy(g) => reservation.owner = g \/ gw[g].overran

\* A quote never points at the hedge order of one settlement and at another
\* settlement, whatever gateways and workers interleave.
PointersAgree ==
    /\ quote.hedge # None => quote.hedge = quote.event /\ hedge[quote.hedge] # "none"
    /\ quote.pnl => pnl # None
    /\ quote.status \in {"submitted", "settled"} <=> quote.event # None

\* The job comes to rest with the rows of settlement_events as the chain has
\* them, and with the quote, its PnL record and its hedge orders reconciled, except
\* a row last written late: a settlement that stays is projected, and one that a
\* reorg removed is taken back.  It may not while the PnL record of an older
\* settlement is in the way, or if the quote failed before it settled.
AtRest == job.revision = job.processed /\ Canonical(rows) = {chain} \ {None}

Blocked == \/ up \cap Workers = {}
           \/ chain # None /\ pnl \notin {None, chain}
           \/ quote.status = "failed"

Settles == <>[](Blocked \/ (AtRest /\ (Processed => Reconciled(late))))

\* The same without the exception, "durable desired revision ... converges"
\* (docs/diagrams/submit-sequence.md).  The code does not keep it: what a slow
\* gateway writes after the removal was processed starts no revision.
Converges == <>[](Blocked \/ (AtRest /\ (Processed => Reconciled({}))))
===============================================================================
