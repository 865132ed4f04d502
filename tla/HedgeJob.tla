------------------------------- MODULE HedgeJob -------------------------------
(***************************************************************************)
(* The hedge of a settlement: its row in hedge_orders, the workers that    *)
(* lease it, the one limit order they place for it at the venue under a    *)
(* deterministic client id, and the inventory position that settlements    *)
(* and fills move.  Meanwhile settlement events are removed by reorgs and  *)
(* come back, reconciliation creates and removes intents, and a gateway    *)
(* whose createHedgeIntent failed records a failure.  Every database       *)
(* statement or transaction is one action, and so is every venue request.  *)
(***************************************************************************)
EXTENDS Integers, FiniteSets, FiniteSetsExt

CONSTANTS
    Jobs,         \* settlement events; each has one hedge row, of the same id
    Workers,
    None,
    Amount,       \* the quantity of an order, in steps of the route
    MaxReorgs,    \* bound: settlement events removed
    MaxFaults     \* bound: crashes of workers, and leases that run out under
                  \* a worker that is only slow

ASSUME HedgeAssumption ==
    /\ IsFiniteSet(Jobs)
    /\ None \notin Workers
    /\ Amount \in Nat \ {0}
    /\ MaxReorgs \in Nat
    /\ MaxFaults \in Nat

VARIABLES
    event,      \* the settlement event: canonical again is "restored"
    job,        \* the rows of hedge_orders
    inventory,  \* inventory_positions, the token hedged
    order,      \* the order at the venue
    wire,       \* orders whose POST timed out and may still arrive
    aged,       \* orders past execution_max_order_age_ms
    wk,         \* what each worker is doing
    gateway,    \* the call a gateway makes for the event it applied
    reorgs,
    faults,
    posts       \* history: POSTs ever sent for a job

vars == <<event, job, inventory, order, wire, aged, wk, gateway, reorgs,
          faults, posts>>

Rows == [status : {"absent", "queued", "filled", "failed"},
         submitted : BOOLEAN,   \* submission_attempted_at
         cancel : BOOLEAN,      \* cancel_requested_at
         owner : Workers \cup {None},
         expired : BOOLEAN,     \* the owner's lease has run out
         filled : 0 .. Amount,
         error : {"none", "intent", "worker"}]

Absent == [status |-> "absent", submitted |-> FALSE, cancel |-> FALSE,
           owner |-> None, expired |-> FALSE, filled |-> 0, error |-> "none"]

Queued == [Absent EXCEPT !.status = "queued"]

Orders == [state : {"none", "open", "filled", "closed"}, done : 0 .. Amount]

Answers == [state : {"none", "pending", "filled", "failed"}, done : 0 .. Amount]

NoAnswer == [state |-> "none", done |-> 0]

Steps == {"idle", "prepare", "query", "observe", "overdue", "cancel",
          "authorize", "submit", "apply", "retry", "fail"}

\* runOnce: its step, the claimed job, and the snapshot the claim returned.
Runs == [at : Steps, job : Jobs \cup {None}, seen : BOOLEAN, got : Answers]

Idle == [at |-> "idle", job |-> None, seen |-> FALSE, got |-> NoAnswer]

TypeOK ==
    /\ event \in [Jobs -> {"none", "canonical", "removed", "restored"}]
    /\ job \in [Jobs -> Rows]
    /\ inventory \in Int
    /\ order \in [Jobs -> Orders]
    /\ wire \subseteq Jobs
    /\ aged \subseteq Jobs
    /\ wk \in [Workers -> Runs]
    /\ \A w \in Workers : wk[w].at # "idle" => wk[w].job \in Jobs
    /\ gateway \in [Jobs -> {"idle", "create", "record"}]
    /\ reorgs \in 0 .. MaxReorgs
    /\ faults \in 0 .. MaxFaults
    /\ posts \in [Jobs -> Nat]

Init ==
    /\ event = [e \in Jobs |-> "none"]
    /\ job = [e \in Jobs |-> Absent]
    /\ inventory = 0
    /\ order = [e \in Jobs |-> [state |-> "none", done |-> 0]]
    /\ wire = {}
    /\ aged = {}
    /\ wk = [w \in Workers |-> Idle]
    /\ gateway = [e \in Jobs |-> "idle"]
    /\ reorgs = 0
    /\ faults = 0
    /\ posts = [e \in Jobs |-> 0]

Canonical(e) == event[e] \in {"canonical", "restored"}

\* WHERE status = 'queued' AND lease_owner = $2: the lease's time plays no part.
Leased(w) == job[wk[w].job].status = "queued" /\ job[wk[w].job].owner = w

Goto(w, s) == wk' = [wk EXCEPT ![w].at = s]

EndRun(w) == wk' = [wk EXCEPT ![w] = Idle]

\* canonicalInventoryProjectionSql: canonical settlements, and every fill.
Share(settled, rows) ==
    [e \in Jobs |-> (IF settled[e] \in {"canonical", "restored"} THEN Amount ELSE 0)
                    - rows[e].filled]

Projection(settled, rows) ==
    MapThenSumSet(LAMBDA e : Share(settled, rows)[e], Jobs)

-----------------------------------------------------------------------------
(* Settlement events, and the calls their changes lead to.                 *)

\* applySettlementEvent of a new event, by the indexer or by a gateway that
\* goes on to call createHedgeIntent.
Settle(e) ==
    /\ event[e] = "none"
    /\ event' = [event EXCEPT ![e] = "canonical"]
    /\ inventory' = inventory + Amount
    /\ \E next \in {"idle", "create"} : gateway' = [gateway EXCEPT ![e] = next]
    /\ UNCHANGED <<job, order, wire, aged, wk, reorgs, faults, posts>>

RemoveSettlement(e) ==
    /\ Canonical(e)
    /\ reorgs < MaxReorgs
    /\ reorgs' = reorgs + 1
    /\ event' = [event EXCEPT ![e] = "removed"]
    /\ inventory' = Projection(event', job)
    /\ UNCHANGED <<job, order, wire, aged, wk, gateway, faults, posts>>

\* applySettlementEvent of an event it holds as removed.
Reactivate(e) ==
    /\ event[e] = "removed"
    /\ event' = [event EXCEPT ![e] = "restored"]
    /\ inventory' = Projection(event', job)
    /\ \E next \in {gateway[e], "create"} : gateway' = [gateway EXCEPT ![e] = next]
    /\ UNCHANGED <<job, order, wire, aged, wk, reorgs, faults, posts>>

\* The start of a process that holds the settlement store.
Initialize ==
    /\ inventory' = Projection(event, job)
    /\ UNCHANGED <<event, job, order, wire, aged, wk, gateway, reorgs, faults, posts>>

\* createHedgeIntent: INSERT ... ON CONFLICT DO NOTHING.
Insert(e) ==
    job' = IF job[e].status = "absent" THEN [job EXCEPT ![e] = Queued] ELSE job

\* A gateway takes only a queued row for an answer, and its call may fail
\* before or after the statement, or with the gateway.
CreateIntent(e) ==
    /\ gateway[e] = "create"
    /\ \/ /\ Insert(e)
          /\ gateway' = [gateway EXCEPT ![e] =
                 IF job'[e].status = "queued" THEN "idle" ELSE "record"]
       \/ /\ Insert(e) \/ UNCHANGED job
          /\ \E next \in {"idle", "record"} : gateway' = [gateway EXCEPT ![e] = next]
    /\ UNCHANGED <<event, inventory, order, wire, aged, wk, reorgs, faults, posts>>

\* recordHedgeFailure.  A leased row keeps its status: failing it breaks the
\* constraint on leases, and the gateway ignores the error.
RecordFailure(e) ==
    /\ gateway[e] = "record"
    /\ gateway' = [gateway EXCEPT ![e] = "idle"]
    /\ \/ /\ job[e].status \in {"absent", "queued", "failed"}
          /\ job[e].owner = None
          /\ job' = [job EXCEPT ![e].status = "failed", ![e].error = "intent"]
       \/ UNCHANGED job
    /\ UNCHANGED <<event, inventory, order, wire, aged, wk, reorgs, faults, posts>>

\* Reconciliation works on the events as it read them: what it holds for
\* canonical may be removed by now, and the other way round.
ReconcileCanonical(e) ==
    /\ event[e] # "none"
    /\ Insert(e)
    /\ UNCHANGED <<event, inventory, order, wire, aged, wk, gateway, reorgs, faults, posts>>

\* Faulty variant: the row goes although its order may be at the venue.
ReconcileRemovedSubmitted(e) ==
    /\ event[e] \in {"removed", "restored"}
    /\ job[e].status = "queued" /\ job[e].filled = 0 /\ job[e].owner = None
    /\ job' = [job EXCEPT ![e] = Absent]
    /\ UNCHANGED <<event, inventory, order, wire, aged, wk, gateway, reorgs, faults, posts>>

\* removeHedgeIntentBySettlementEvent.
ReconcileRemoved(e) ==
    /\ event[e] \in {"removed", "restored"}
    /\ job[e].status = "queued" /\ ~job[e].submitted
    /\ job[e].filled = 0 /\ job[e].owner = None
    /\ job' = [job EXCEPT ![e] = Absent]
    /\ UNCHANGED <<event, inventory, order, wire, aged, wk, gateway, reorgs, faults, posts>>

-----------------------------------------------------------------------------
(* runOnce of a worker.                                                    *)

\* Faulty variant: only jobs of canonical settlements are claimed.
ClaimCanonical(w, e) ==
    /\ wk[w].at = "idle"
    /\ job[e].status = "queued" /\ Canonical(e)
    /\ job[e].owner = None \/ job[e].expired
    /\ job' = [job EXCEPT ![e].owner = w, ![e].expired = FALSE]
    /\ wk' = [wk EXCEPT ![w] = [Idle EXCEPT !.job = e, !.seen = job[e].submitted,
                 !.at = IF job[e].submitted THEN "query" ELSE "prepare"]]
    /\ UNCHANGED <<event, inventory, order, wire, aged, gateway, reorgs, faults, posts>>

\* claimNext.
Claim(w, e) ==
    /\ wk[w].at = "idle"
    /\ job[e].status = "queued"
    /\ Canonical(e) \/ job[e].submitted
    /\ job[e].owner = None \/ job[e].expired
    /\ job' = [job EXCEPT ![e].owner = w, ![e].expired = FALSE]
    /\ wk' = [wk EXCEPT ![w] = [Idle EXCEPT !.job = e, !.seen = job[e].submitted,
                 !.at = IF job[e].submitted THEN "query" ELSE "prepare"]]
    /\ UNCHANGED <<event, inventory, order, wire, aged, gateway, reorgs, faults, posts>>

\* routeForJob, validateLimitOrder and prepareRoute.
Prepare(w) ==
    /\ wk[w].at = "prepare"
    /\ \/ Leased(w) /\ Goto(w, "query")
       \/ Goto(w, "retry")
       \/ Goto(w, "fail")
    /\ UNCHANGED <<event, job, inventory, order, wire, aged, gateway, reorgs, faults, posts>>

\* How the venue reports the order o.
Answer(o) == [done |-> o.done,
              state |-> CASE o.state = "none" -> "none"
                          [] o.state = "open" -> "pending"
                          [] o.state = "filled" -> "filled"
                          [] o.state = "closed" -> "failed"]

\* queryOrder, answered.  An order that is missing after an authorized
\* submission may still be on its way: the job waits, and never submits again.
QueryAnswered(w) ==
    /\ wk[w].at = "query"
    /\ LET got == Answer(order[wk[w].job]) IN
       wk' = [wk EXCEPT ![w].got = got, ![w].at =
                 IF got.state # "none" THEN "observe"
                 ELSE IF wk[w].seen THEN "retry" ELSE "authorize"]
    /\ UNCHANGED <<event, job, inventory, order, wire, aged, gateway, reorgs, faults, posts>>

\* A request the venue refuses for good fails the job, unless the claim
\* returned it as submitted.
QueryFailed(w) ==
    /\ wk[w].at = "query"
    /\ Goto(w, "retry") \/ (~wk[w].seen /\ Goto(w, "fail"))
    /\ UNCHANGED <<event, job, inventory, order, wire, aged, gateway, reorgs, faults, posts>>

\* recordExternalOrderObserved.
Observe(w) ==
    /\ wk[w].at = "observe"
    /\ IF Leased(w)
       THEN /\ job' = [job EXCEPT ![wk[w].job].submitted = TRUE]
            /\ Goto(w, IF wk[w].got.state = "pending" THEN "overdue" ELSE "apply")
       ELSE UNCHANGED job /\ Goto(w, "retry")
    /\ UNCHANGED <<event, inventory, order, wire, aged, gateway, reorgs, faults, posts>>

\* authorizeCancelIfDue: no row updated is "not due".
AuthorizeCancel(w) ==
    /\ wk[w].at = "overdue"
    /\ IF Leased(w) /\ job[wk[w].job].submitted
          /\ (job[wk[w].job].cancel \/ wk[w].job \in aged)
       THEN job' = [job EXCEPT ![wk[w].job].cancel = TRUE] /\ Goto(w, "cancel")
       ELSE UNCHANGED job /\ Goto(w, "apply")
    /\ UNCHANGED <<event, inventory, order, wire, aged, gateway, reorgs, faults, posts>>

\* cancelOrder, reaching the venue: a fill may have come before it.  A worker
\* that cancels has claimed the row as submitted, so that any error is retried.
CancelReached(w) ==
    /\ wk[w].at = "cancel"
    /\ IF order[wk[w].job].state = "open"
       THEN /\ order' = [order EXCEPT ![wk[w].job].state = "closed"]
            /\ \/ wk' = [wk EXCEPT ![w].at = "apply", ![w].got =
                             [state |-> "failed", done |-> order[wk[w].job].done]]
               \/ Goto(w, "retry")
       ELSE UNCHANGED order /\ Goto(w, "retry")
    /\ UNCHANGED <<event, job, inventory, wire, aged, gateway, reorgs, faults, posts>>

CancelLost(w) ==
    /\ wk[w].at = "cancel"
    /\ Goto(w, "retry")
    /\ UNCHANGED <<event, job, inventory, order, wire, aged, gateway, reorgs, faults, posts>>

\* Faulty variant: any worker that claimed the job may submit.
AuthorizeAnyOwner(w) ==
    /\ wk[w].at = "authorize"
    /\ IF ~Canonical(wk[w].job) \/ job[wk[w].job].status = "absent"
       THEN UNCHANGED job /\ Goto(w, "fail")
       ELSE IF job[wk[w].job].status = "queued" /\ ~job[wk[w].job].cancel
       THEN /\ job' = [job EXCEPT ![wk[w].job].submitted = TRUE]
            /\ Goto(w, "submit") \/ Goto(w, "retry")
       ELSE UNCHANGED job /\ Goto(w, "retry")
    /\ UNCHANGED <<event, inventory, order, wire, aged, gateway, reorgs, faults, posts>>

\* authorizeSubmission, whose COMMIT may be answered or not.
Authorize(w) ==
    /\ wk[w].at = "authorize"
    /\ IF ~Canonical(wk[w].job) \/ job[wk[w].job].status = "absent"
       THEN UNCHANGED job /\ Goto(w, "fail")
       ELSE IF Leased(w) /\ ~job[wk[w].job].cancel
       THEN /\ job' = [job EXCEPT ![wk[w].job].submitted = TRUE]
            /\ Goto(w, "submit") \/ Goto(w, "retry")
       ELSE UNCHANGED job /\ Goto(w, "retry")
    /\ UNCHANGED <<event, inventory, order, wire, aged, gateway, reorgs, faults, posts>>

\* An order of which n has traded, perhaps at once when the venue took it.
Traded(n) == [state |-> IF n = Amount THEN "filled" ELSE "open", done |-> n]

\* Faulty variant: a POST without an answer counts as rejected.
SubmitTimeoutFails(w) ==
    /\ wk[w].at = "submit"
    /\ posts' = [posts EXCEPT ![wk[w].job] = @ + 1]
    /\ \/ /\ order[wk[w].job].state = "none"
          /\ \E n \in 0 .. Amount :
                /\ order' = [order EXCEPT ![wk[w].job] = Traded(n)]
                /\ wk' = [wk EXCEPT ![w].at = "apply", ![w].got = Answer(Traded(n))]
          /\ UNCHANGED wire
       \/ wire' = wire \cup {wk[w].job} /\ UNCHANGED order /\ Goto(w, "fail")
       \/ UNCHANGED <<order, wire>> /\ Goto(w, "fail")
    /\ UNCHANGED <<event, job, inventory, aged, gateway, reorgs, faults>>

\* submitLimitOrder: accepted, without an answer in time, or rejected for good.
Submit(w) ==
    /\ wk[w].at = "submit"
    /\ posts' = [posts EXCEPT ![wk[w].job] = @ + 1]
    /\ \/ /\ order[wk[w].job].state = "none"
          /\ \E n \in 0 .. Amount :
                /\ order' = [order EXCEPT ![wk[w].job] = Traded(n)]
                /\ wk' = [wk EXCEPT ![w].at = "apply", ![w].got = Answer(Traded(n))]
          /\ UNCHANGED wire
       \/ wire' = wire \cup {wk[w].job} /\ UNCHANGED order /\ Goto(w, "retry")
       \/ UNCHANGED <<order, wire>> /\ Goto(w, "fail")
    /\ UNCHANGED <<event, job, inventory, aged, gateway, reorgs, faults>>

\* Faulty variant: the cumulative quantity is added to the one on record.
RecordAdds(w, status, error) ==
    LET e == wk[w].job IN
    /\ job' = [job EXCEPT ![e] = [job[e] EXCEPT !.status = status, !.error = error,
                   !.submitted = TRUE, !.filled = @ + wk[w].got.done,
                   !.owner = IF status = "queued" THEN w ELSE None,
                   !.expired = status = "queued" /\ job[e].expired]]
    /\ inventory' = inventory - wk[w].got.done

\* Faulty variant: the whole cumulative quantity moves the position again.
RecordWhole(w, status, error) ==
    LET e == wk[w].job IN
    /\ job' = [job EXCEPT ![e] = [job[e] EXCEPT !.status = status, !.error = error,
                   !.submitted = TRUE, !.filled = wk[w].got.done,
                   !.owner = IF status = "queued" THEN w ELSE None,
                   !.expired = status = "queued" /\ job[e].expired]]
    /\ inventory' = inventory - wk[w].got.done

\* The transaction of recordExecutionProgress and completeTerminal.
Record(w, status, error) ==
    LET e == wk[w].job IN
    /\ job' = [job EXCEPT ![e] = [job[e] EXCEPT !.status = status, !.error = error,
                   !.submitted = TRUE, !.filled = wk[w].got.done,
                   !.owner = IF status = "queued" THEN w ELSE None,
                   !.expired = status = "queued" /\ job[e].expired]]
    /\ inventory' = inventory - (wk[w].got.done - job[e].filled)

\* applyOrderResult on what the venue answered.
Apply(w) ==
    /\ wk[w].at = "apply"
    /\ LET got == wk[w].got  old == job[wk[w].job].filled IN
       \/ /\ got.state = "pending" /\ got.done = 0
          /\ Goto(w, "retry") /\ UNCHANGED <<job, inventory>>
       \/ /\ got.state # "pending" \/ got.done > 0
          /\ Leased(w) /\ got.done >= old
          /\ IF got.state = "pending"
             THEN Record(w, "queued", "none") /\ Goto(w, "retry")
             ELSE /\ Record(w, got.state, IF got.state = "failed" THEN "worker" ELSE "none")
                  /\ EndRun(w)
       \/ /\ got.state # "pending" \/ got.done > 0
          /\ ~(Leased(w) /\ got.done >= old)
          /\ Goto(w, "retry") /\ UNCHANGED <<job, inventory>>
    /\ UNCHANGED <<event, order, wire, aged, gateway, reorgs, faults, posts>>

\* handleJobError of a definitive error: completeFailed without evidence.
Fail(w) ==
    /\ wk[w].at = "fail"
    /\ job' = IF Leased(w)
              THEN [job EXCEPT ![wk[w].job] = [@ EXCEPT !.status = "failed",
                        !.error = "worker", !.owner = None, !.expired = FALSE]]
              ELSE job
    /\ EndRun(w)
    /\ UNCHANGED <<event, inventory, order, wire, aged, gateway, reorgs, faults, posts>>

\* scheduleRetry: releaseForRetry.
Retry(w) ==
    /\ wk[w].at = "retry"
    /\ job' = IF Leased(w)
              THEN [job EXCEPT ![wk[w].job].owner = None, ![wk[w].job].expired = FALSE]
              ELSE job
    /\ EndRun(w)
    /\ UNCHANGED <<event, inventory, order, wire, aged, gateway, reorgs, faults, posts>>

Fault == faults < MaxFaults /\ faults' = faults + 1

\* A worker crashes, or one of its statements fails and it schedules a retry.
Interrupt(w) ==
    /\ wk[w].at # "idle"
    /\ Fault
    /\ EndRun(w) \/ (wk[w].at \in {"observe", "overdue", "apply"} /\ Goto(w, "retry"))
    /\ UNCHANGED <<event, job, inventory, order, wire, aged, gateway, reorgs, posts>>

\* A lease exceeds what an iteration can take: it runs out when its worker
\* has crashed, or under a worker that stalls.
ExpireLease(e) ==
    /\ job[e].owner # None /\ ~job[e].expired
    /\ \/ wk[job[e].owner].job # e /\ UNCHANGED faults
       \/ wk[job[e].owner].job = e /\ Fault
    /\ job' = [job EXCEPT ![e].expired = TRUE]
    /\ UNCHANGED <<event, inventory, order, wire, aged, wk, gateway, reorgs, posts>>

-----------------------------------------------------------------------------
(* The venue.                                                              *)

\* A delayed POST arrives, or never does.
Arrive(e) ==
    /\ e \in wire
    /\ wire' = wire \ {e}
    /\ \/ /\ order[e].state = "none"
          /\ \E n \in 0 .. Amount : order' = [order EXCEPT ![e] = Traded(n)]
       \/ UNCHANGED order
    /\ UNCHANGED <<event, job, inventory, aged, wk, gateway, reorgs, faults, posts>>

\* The order trades, or ends at the venue without having filled.
Trade(e) ==
    /\ order[e].state = "open"
    /\ \/ order' = [order EXCEPT ![e] = Traded(@.done + 1)]
       \/ order' = [order EXCEPT ![e].state = "closed"]
    /\ UNCHANGED <<event, job, inventory, wire, aged, wk, gateway, reorgs, faults, posts>>

Age(e) ==
    /\ job[e].submitted /\ e \notin aged
    /\ aged' = aged \cup {e}
    /\ UNCHANGED <<event, job, inventory, order, wire, wk, gateway, reorgs, faults, posts>>

-----------------------------------------------------------------------------

Work(w) ==
    \/ Prepare(w) \/ QueryAnswered(w) \/ QueryFailed(w) \/ Observe(w)
    \/ AuthorizeCancel(w) \/ CancelReached(w) \/ CancelLost(w)
    \/ Authorize(w) \/ Submit(w) \/ Apply(w) \/ Fail(w) \/ Retry(w)

Next ==
    \/ Initialize
    \/ \E e \in Jobs :
          \/ Settle(e) \/ RemoveSettlement(e) \/ Reactivate(e)
          \/ CreateIntent(e) \/ RecordFailure(e)
          \/ ReconcileCanonical(e) \/ ReconcileRemoved(e)
          \/ ExpireLease(e) \/ Arrive(e) \/ Trade(e) \/ Age(e)
    \/ \E w \in Workers :
          \/ Work(w) \/ Interrupt(w)
          \/ \E e \in Jobs : Claim(w, e)

Spec == Init /\ [][Next]_vars

\* Workers poll, their steps end, and the database orders due jobs by their
\* time, so that none is passed over for ever; leases of crashed workers run
\* out, orders grow old, a POST on the wire arrives or is lost, and the venue
\* is not unreachable for ever.
Fairness ==
    /\ \A w \in Workers : /\ WF_vars(Work(w))
                          /\ SF_vars(QueryAnswered(w))
                          /\ SF_vars(CancelReached(w))
    /\ \A e \in Jobs : /\ SF_vars(\E w \in Workers : Claim(w, e))
                       /\ WF_vars(ExpireLease(e))
                       /\ WF_vars(Age(e))
                       /\ WF_vars(Arrive(e))

FairSpec == Spec /\ Fairness

-----------------------------------------------------------------------------
(* Properties.                                                             *)

\* At most one order is ever posted for a settlement: through leases that
\* run out, removed and recreated rows and reorgs, authorizeSubmission lets
\* one worker pass, once (hedge-worker.ts:121-134).
OneOrder == \A e \in Jobs : posts[e] <= 1

\* The position is what canonical settlements brought less what the recorded
\* fills sold, whether it was moved by deltas or rebuilt
\* (postgres-hedge-job.store.ts:337 and 540, postgres-inventory.service.ts:122).
InventoryExact == inventory = Projection(event, job)

\* A row never claims more than the venue executed, and a filled row is a
\* filled order (postgres-hedge-job.store.ts:439).
FillsAreReal ==
    \A e \in Jobs : /\ job[e].filled <= order[e].done
                    /\ job[e].status = "filled" =>
                          order[e].state = "filled" /\ job[e].filled = Amount

\* Nothing of e's order can trade any more, and every trade is recorded.
Settled(e) ==
    /\ order[e].state # "open"
    /\ e \notin wire
    /\ \A w \in Workers : ~(wk[w].at = "submit" /\ wk[w].job = e)
    /\ job[e].filled = order[e].done

\* A job that a worker failed has no order that lives on unwatched, nor a
\* fill that is not in the position (hedge-worker.ts:222).
FailedIsSettled ==
    \A e \in Jobs : job[e].status = "failed" /\ job[e].error = "worker" => Settled(e)

\* The same of every failed job: "keep queued", hedge-sequence.md:60.
FailedHasNoLiveOrder == \A e \in Jobs : job[e].status = "failed" => Settled(e)

\* Evidence of an order outlives reorgs and every other writer: a submitted
\* row stays, its fills never shrink, and a filled row stays as it is
\* (postgres-hedge.service.ts:130 and 175).
EvidenceKept ==
    [][\A e \in Jobs :
          /\ job[e].submitted => job'[e].submitted
          /\ job[e].filled <= job'[e].filled
          /\ job[e].status = "filled" => job'[e] = job[e]
          /\ job[e].status = "failed" => job'[e].status = "failed"]_vars

\* An order at the venue is in the end closed and recorded to the last trade,
\* even if the settlement was removed meanwhile (postgres-hedge-job.store.ts:116);
\* unless a gateway has failed the job.
OrdersAreSettled ==
    <>[](\A e \in Jobs : order[e].state # "none" =>
            /\ job[e].status \in {"filled", "failed"}
            /\ Settled(e) \/ job[e].error = "intent")
===============================================================================
