--------------------------- MODULE HedgeJob_proofs ---------------------------
(***************************************************************************)
(* Proofs about HedgeJob for any set of settlements and workers, any       *)
(* amount, and any number of reorgs, crashes and leases that run out.      *)
(***************************************************************************)
EXTENDS HedgeJob, SumTheorems, TLAPS

\* TypeOK without the position: it is a sum over all rows.
Shapes ==
    /\ event \in [Jobs -> {"none", "canonical", "removed", "restored"}]
    /\ job \in [Jobs -> Rows]
    /\ order \in [Jobs -> Orders]
    /\ wire \subseteq Jobs
    /\ aged \subseteq Jobs
    /\ wk \in [Workers -> Runs]
    /\ \A w \in Workers : wk[w].at # "idle" => wk[w].job \in Jobs
    /\ gateway \in [Jobs -> {"idle", "create", "record"}]
    /\ reorgs \in 0 .. MaxReorgs
    /\ faults \in 0 .. MaxFaults
    /\ posts \in [Jobs -> Nat]

Submitting(w, e) == wk[w].at = "submit" /\ wk[w].job = e

\* A row that has left the queue has no owner, and an order leaves its mark in
\* the row before it is posted.
RowInv(e) ==
    /\ job[e].status # "queued" => job[e].owner = None
    /\ job[e].status = "absent" => ~job[e].submitted
    /\ ~job[e].submitted => posts[e] = 0
    /\ job[e].filled <= order[e].done
    /\ job[e].status = "filled" => order[e].state = "filled" /\ job[e].filled = Amount
    /\ job[e].status = "failed" /\ job[e].error = "worker" => Settled(e)

OrderInv(e) ==
    /\ posts[e] <= 1
    /\ posts[e] = 0 => order[e].state = "none" /\ e \notin wire
    /\ e \in wire => order[e].state = "none"
    /\ order[e].state = "none" => order[e].done = 0
    /\ order[e].state = "open" => order[e].done < Amount
    /\ order[e].state = "filled" => order[e].done = Amount

\* What the venue answered is true of the order, and stays true of an order
\* that has ended.
GotTrue(w) ==
    LET got == wk[w].got  o == order[wk[w].job] IN
    /\ wk[w].at \in {"observe", "overdue", "cancel", "apply"} => got.state # "none"
    /\ wk[w].at # "idle" => got.done <= o.done
    /\ wk[w].at # "idle" /\ got.state = "filled" =>
           o.state = "filled" /\ got.done = o.done
    /\ wk[w].at # "idle" /\ got.state = "failed" =>
           o.state = "closed" /\ got.done = o.done

\* While a worker has the lease it claimed unsubmitted, nobody else submits.
LeaseInv(w) ==
    /\ wk[w].at \in {"prepare", "authorize"} => ~wk[w].seen
    /\ wk[w].at \in {"prepare", "query", "authorize"} /\ ~wk[w].seen /\ Leased(w) =>
           ~job[wk[w].job].submitted
    /\ wk[w].at = "submit" => job[wk[w].job].submitted /\ posts[wk[w].job] = 0
    /\ wk[w].at = "fail" /\ Leased(w) => Settled(wk[w].job)

OneSubmits ==
    \A e \in Jobs : \A v, w \in Workers : Submitting(v, e) /\ Submitting(w, e) => v = w

HedgeInv ==
    /\ Shapes
    /\ \A e \in Jobs : RowInv(e) /\ OrderInv(e)
    /\ \A w \in Workers : GotTrue(w) /\ LeaseInv(w)
    /\ OneSubmits
-----------------------------------------------------------------------------
\* Steps that touch neither rows nor orders nor workers.
LEMMA OutsideKeeps ==
    ASSUME HedgeInv, UNCHANGED <<job, order, wire, wk, posts>>,
           event' \in [Jobs -> {"none", "canonical", "removed", "restored"}],
           aged' \subseteq Jobs,
           gateway' \in [Jobs -> {"idle", "create", "record"}],
           reorgs' \in 0 .. MaxReorgs, faults' \in 0 .. MaxFaults
    PROVE  HedgeInv'
<1>1. Shapes'
  BY DEF HedgeInv, Shapes
<1>2. \A e \in Jobs : RowInv(e)' /\ OrderInv(e)'
  BY DEF HedgeInv, RowInv, OrderInv, Settled
<1>3. \A w \in Workers : GotTrue(w)' /\ LeaseInv(w)'
  BY DEF HedgeInv, GotTrue, LeaseInv, Leased, Settled
<1>4. OneSubmits'
  BY DEF HedgeInv, OneSubmits, Submitting
<1>5. QED
  BY <1>1, <1>2, <1>3, <1>4 DEF HedgeInv

\* Steps of others that write one row only, without touching what was sent.
LEMMA RowKeeps ==
    ASSUME HedgeInv, NEW e \in Jobs, NEW row \in Rows,
           job' = [job EXCEPT ![e] = row],
           UNCHANGED <<event, order, wire, aged, wk, reorgs, posts>>,
           gateway' \in [Jobs -> {"idle", "create", "record"}],
           faults' \in 0 .. MaxFaults,
           row.submitted = job[e].submitted,
           row.filled = job[e].filled,
           row.status = "filled" => job[e].status = "filled",
           row.status = "absent" => ~row.submitted,
           row.status # "queued" => row.owner = None,
           row.owner \in {None, job[e].owner},
           row.owner # None => row.status = job[e].status,
           row.status = "failed" /\ row.error = "worker" =>
               job[e].status = "failed" /\ job[e].error = "worker"
    PROVE  HedgeInv'
<1>1. Shapes'
  BY DEF HedgeInv, Shapes
<1>2. \A f \in Jobs \ {e} : job'[f] = job[f]
  BY DEF HedgeInv, Shapes
<1>3. job'[e] = row
  BY DEF HedgeInv, Shapes
<1>4. \A f \in Jobs : OrderInv(f)'
  BY DEF HedgeInv, OrderInv
<1>5. \A f \in Jobs \ {e} : RowInv(f)'
  BY <1>2 DEF HedgeInv, RowInv, Settled
<1>6. RowInv(e)'
  BY <1>3 DEF HedgeInv, Shapes, Rows, Orders, RowInv, Settled
<1>7. \A w \in Workers : GotTrue(w)'
  BY DEF HedgeInv, GotTrue
<1>8. ASSUME NEW w \in Workers
      PROVE  LeaseInv(w)'
  <2>1. /\ wk[w].at # "idle" => wk[w].job \in Jobs
        /\ LeaseInv(w) /\ wk'[w] = wk[w] /\ w # None
    BY HedgeAssumption DEF HedgeInv, HedgeAssumption, Shapes
  <2>2. CASE wk[w].job # e
    <3>1. \A f \in Jobs \ {e} : Settled(f) => Settled(f)'
      BY <1>2 DEF Settled
    <3>2. QED
      BY <1>2, <2>1, <2>2, <3>1 DEF LeaseInv, Leased
  <2>3. CASE wk[w].job = e
    <3>1. Leased(w)' => Leased(w)
      BY <1>3, <2>1, <2>3 DEF Leased
    <3>2. Settled(e) => Settled(e)'
      BY <1>3 DEF Settled
    <3>3. QED
      BY <1>3, <2>1, <2>3, <3>1, <3>2 DEF LeaseInv, Leased
  <2>4. QED
    BY <2>2, <2>3
<1>9. OneSubmits'
  BY DEF HedgeInv, OneSubmits, Submitting
<1>10. QED
  BY <1>1, <1>4, <1>5, <1>6, <1>7, <1>8, <1>9 DEF HedgeInv

\* Steps of a worker that write nothing but its place and what it was told.
LEMMA WorkerKeeps ==
    ASSUME HedgeInv, NEW w \in Workers, NEW run \in Runs,
           wk' = [wk EXCEPT ![w] = run],
           UNCHANGED <<event, job, order, wire, aged, gateway, reorgs, posts>>,
           faults' \in 0 .. MaxFaults,
           run.at # "idle" => run.job \in Jobs,
           run.at # "submit",
           GotTrue(w)', LeaseInv(w)'
    PROVE  HedgeInv'
<1>1. Shapes'
  BY DEF HedgeInv, Shapes
<1>2. wk'[w] = run /\ \A v \in Workers \ {w} : wk'[v] = wk[v]
  BY DEF HedgeInv, Shapes
<1>3. \A e \in Jobs : RowInv(e)' /\ OrderInv(e)'
  BY <1>2 DEF HedgeInv, RowInv, OrderInv, Settled
<1>4. \A v \in Workers \ {w} : GotTrue(v)'
  BY <1>2 DEF HedgeInv, GotTrue
<1>5. ASSUME NEW v \in Workers \ {w}
      PROVE  LeaseInv(v)'
  BY <1>2, <1>5 DEF HedgeInv, LeaseInv, Leased, Settled
<1>6. OneSubmits'
  BY <1>2 DEF HedgeInv, OneSubmits, Submitting
<1>7. QED
  BY <1>1, <1>3, <1>4, <1>5, <1>6 DEF HedgeInv

LEMMA IdleRun == Idle \in Runs /\ NoAnswer \in Answers
  BY HedgeAssumption DEF HedgeAssumption, Idle, NoAnswer, Runs, Answers, Steps

LEMMA IdleKeeps ==
    ASSUME HedgeInv, NEW w \in Workers, EndRun(w),
           UNCHANGED <<event, job, order, wire, aged, gateway, reorgs, posts>>,
           faults' \in 0 .. MaxFaults
    PROVE  HedgeInv'
<1>1. wk'[w] = Idle
  BY DEF EndRun, HedgeInv, Shapes
<1>2. GotTrue(w)' /\ LeaseInv(w)'
  BY <1>1 DEF Idle, NoAnswer, GotTrue, LeaseInv
<1>3. QED
  BY <1>2, IdleRun, WorkerKeeps DEF EndRun, Idle

\* A worker that has its lease claimed unsubmitted has nothing at the venue.
LEMMA UnsentIsSettled ==
    ASSUME HedgeInv, NEW e \in Jobs, ~job[e].submitted
    PROVE  Settled(e)
  BY DEF HedgeInv, Shapes, Rows, Orders, RowInv, OrderInv, LeaseInv, Settled

\* The step to the place s of a worker that was given nothing new.
LEMMA GotoKeeps ==
    ASSUME HedgeInv, NEW w \in Workers, wk[w].at # "idle", NEW s \in Steps, Goto(w, s),
           UNCHANGED <<event, job, order, wire, aged, gateway, reorgs, posts>>,
           faults' \in 0 .. MaxFaults,
           s # "submit",
           s \in {"prepare", "authorize"} => ~wk[w].seen,
           s \in {"prepare", "query", "authorize"} => wk[w].at \in {"prepare", "query", "authorize"},
           s = "fail" => wk[w].at \in {"prepare", "query", "authorize"} /\ ~wk[w].seen,
           s \in {"observe", "overdue", "cancel", "apply"} =>
               wk[w].at \in {"observe", "overdue", "cancel", "apply"}
    PROVE  HedgeInv'
<1> DEFINE run == [wk[w] EXCEPT !.at = s]
<1>1. run \in Runs /\ run.job = wk[w].job /\ run.job \in Jobs /\ run.at = s
      /\ run.got = wk[w].got /\ run.seen = wk[w].seen
  BY DEF HedgeInv, Shapes, Runs
<1>2. wk' = [wk EXCEPT ![w] = run] /\ wk'[w] = run
  BY DEF Goto, HedgeInv, Shapes
<1>3. GotTrue(w)'
  BY <1>1, <1>2 DEF HedgeInv, GotTrue
<1>4. s = "fail" /\ Leased(w) => Settled(wk[w].job)
  BY <1>1, UnsentIsSettled DEF HedgeInv, LeaseInv
<1>5. Settled(wk[w].job) => Settled(wk[w].job)'
  BY <1>1, <1>2 DEF Settled, HedgeInv, Shapes
<1>6. LeaseInv(w)'
  BY <1>1, <1>2, <1>4, <1>5 DEF HedgeInv, LeaseInv, Leased
<1>7. QED
  BY <1>1, <1>2, <1>3, <1>6, WorkerKeeps

LEMMA PrepareKeeps ==
    ASSUME HedgeInv, NEW w \in Workers, Prepare(w)
    PROVE  HedgeInv'
<1>1. ~wk[w].seen /\ faults' \in 0 .. MaxFaults
  BY DEF HedgeInv, Shapes, LeaseInv, Prepare
<1>2. QED
  BY <1>1, GotoKeeps DEF Prepare, Steps

LEMMA AnswerFacts ==
    ASSUME NEW o \in Orders
    PROVE  /\ Answer(o) \in Answers
           /\ Answer(o).done = o.done
           /\ Answer(o).state = "filled" => o.state = "filled"
           /\ Answer(o).state = "failed" => o.state = "closed"
  BY DEF Answer, Answers, Orders

\* The step of a worker in its query that was told got of its order.
LEMMA ToldKeeps ==
    ASSUME HedgeInv, NEW w \in Workers, wk[w].at = "query",
           NEW got \in Answers, NEW s \in {"observe", "retry", "authorize"},
           wk' = [wk EXCEPT ![w].got = got, ![w].at = s],
           UNCHANGED <<event, job, order, wire, aged, gateway, reorgs, faults, posts>>,
           got.done = order[wk[w].job].done,
           got.state = "filled" => order[wk[w].job].state = "filled",
           got.state = "failed" => order[wk[w].job].state = "closed",
           s = "observe" => got.state # "none",
           s = "authorize" => ~wk[w].seen
    PROVE  HedgeInv'
<1> DEFINE run == [wk[w] EXCEPT !.got = got, !.at = s]
<1>1. /\ run \in Runs /\ run.job = wk[w].job /\ run.job \in Jobs
      /\ run.seen = wk[w].seen /\ run.got = got /\ run.at = s
  BY DEF HedgeInv, Shapes, Runs, Steps
<1>2. wk' = [wk EXCEPT ![w] = run] /\ wk'[w] = run
  BY DEF HedgeInv, Shapes
<1>3. GotTrue(w)'
  <2>1. order[wk[w].job] \in Orders
    BY <1>1 DEF HedgeInv, Shapes
  <2> HIDE DEF run
  <2>2. QED
    BY <1>1, <1>2, <2>1 DEF GotTrue, Orders
<1>4. LeaseInv(w)'
  <2> HIDE DEF run
  <2>1. QED
    BY <1>1, <1>2 DEF HedgeInv, LeaseInv, Leased
<1>5. faults' \in 0 .. MaxFaults
  BY DEF HedgeInv, Shapes
<1> HIDE DEF run
<1>6. QED
  BY <1>1, <1>2, <1>3, <1>4, <1>5, WorkerKeeps

LEMMA QueryKeeps ==
    ASSUME HedgeInv, NEW w \in Workers, QueryAnswered(w) \/ QueryFailed(w)
    PROVE  HedgeInv'
<1>1. faults' \in 0 .. MaxFaults /\ wk[w].job \in Jobs
  BY DEF HedgeInv, Shapes, QueryAnswered, QueryFailed
<1>2. CASE QueryFailed(w)
  BY <1>1, <1>2, GotoKeeps DEF QueryFailed, Steps
<1>3. CASE QueryAnswered(w)
  <2>1. order[wk[w].job] \in Orders
    BY <1>1 DEF HedgeInv, Shapes
  <2>2. PICK got \in Answers : got = Answer(order[wk[w].job])
    BY <2>1, AnswerFacts
  <2>3. PICK s \in {"observe", "retry", "authorize"} :
            /\ wk' = [wk EXCEPT ![w].got = got, ![w].at = s]
            /\ s = "observe" => got.state # "none"
            /\ s = "authorize" => ~wk[w].seen
    <3> DEFINE s == IF got.state # "none" THEN "observe"
                    ELSE IF wk[w].seen THEN "retry" ELSE "authorize"
    <3>1. wk' = [wk EXCEPT ![w].got = got, ![w].at = s]
      BY <1>3, <2>2, Zenon DEF QueryAnswered
    <3>2. QED
      BY <3>1
  <2>4. /\ wk[w].at = "query"
        /\ UNCHANGED <<event, job, order, wire, aged, gateway, reorgs, faults, posts>>
    BY <1>3, Zenon DEF QueryAnswered
  <2>5. /\ got.done = order[wk[w].job].done
        /\ got.state = "filled" => order[wk[w].job].state = "filled"
        /\ got.state = "failed" => order[wk[w].job].state = "closed"
    BY <2>1, <2>2, AnswerFacts
  <2>6. QED
    BY <2>3, <2>4, <2>5, ToldKeeps
<1>4. QED
  BY <1>2, <1>3

LEMMA CancelLostKeeps ==
    ASSUME HedgeInv, NEW w \in Workers, CancelLost(w)
    PROVE  HedgeInv'
<1>1. faults' \in 0 .. MaxFaults
  BY DEF HedgeInv, Shapes, CancelLost
<1>2. QED
  BY <1>1, GotoKeeps DEF CancelLost, Steps

LEMMA InterruptKeeps ==
    ASSUME HedgeInv, NEW w \in Workers, Interrupt(w)
    PROVE  HedgeInv'
<1>1. faults' \in 0 .. MaxFaults
  BY HedgeAssumption DEF HedgeAssumption, HedgeInv, Shapes, Interrupt, Fault
<1>2. QED
  BY <1>1, GotoKeeps, IdleKeeps DEF Interrupt, Steps

-----------------------------------------------------------------------------
\* A worker writes the row it has the lease of and goes on, or ends.
LEMMA LeasedKeeps ==
    ASSUME HedgeInv, NEW w \in Workers, wk[w].at \notin {"idle", "submit"}, Leased(w),
           NEW e \in Jobs, e = wk[w].job,
           NEW row \in Rows, job' = [job EXCEPT ![e] = row],
           NEW run \in Runs, wk' = [wk EXCEPT ![w] = run],
           UNCHANGED <<event, order, wire, aged, gateway, reorgs, faults, posts>>,
           job[e].submitted => row.submitted,
           RowInv(e)',
           run.at # "idle" => run.job \in Jobs,
           run.at # "submit",
           row.owner \in {None, w},
           GotTrue(w)', LeaseInv(w)'
    PROVE  HedgeInv'
<1>1. Shapes'
  BY DEF HedgeInv, Shapes
<1>2. /\ wk'[w] = run /\ \A v \in Workers \ {w} : wk'[v] = wk[v]
      /\ job'[e] = row /\ \A f \in Jobs \ {e} : job'[f] = job[f]
  BY <1>1 DEF HedgeInv, Shapes
<1>3. \A f \in Jobs : OrderInv(f)'
  BY DEF HedgeInv, OrderInv
<1>4. \A f \in Jobs \ {e} : RowInv(f)'
  BY <1>2 DEF HedgeInv, RowInv, Settled
<1>5. \A v \in Workers \ {w} : GotTrue(v)'
  BY <1>2 DEF HedgeInv, GotTrue
<1>6. ASSUME NEW v \in Workers \ {w}
      PROVE  LeaseInv(v)'
  <2>1. wk[v].job = e => ~Leased(v) /\ ~Leased(v)'
    BY <1>1, <1>2, HedgeAssumption DEF HedgeAssumption, Leased
  <2>2. wk[v].job # e /\ wk[v].at # "idle" => wk[v].job \in Jobs \ {e}
    BY DEF HedgeInv, Shapes
  <2>3. Settled(wk[v].job) /\ wk[v].job \in Jobs \ {e} => Settled(wk[v].job)'
    BY <1>2 DEF Settled
  <2>4. QED
    BY <1>1, <1>2, <2>1, <2>2, <2>3 DEF HedgeInv, LeaseInv, Leased
<1>7. OneSubmits'
  BY <1>2 DEF HedgeInv, OneSubmits, Submitting
<1>8. QED
  BY <1>1, <1>3, <1>4, <1>5, <1>6, <1>7 DEF HedgeInv

LEMMA RetryKeeps ==
    ASSUME HedgeInv, NEW w \in Workers, Retry(w)
    PROVE  HedgeInv'
<1>0. PICK e \in Jobs : e = wk[w].job
  BY DEF HedgeInv, Shapes, Retry
<1> DEFINE row == [job[e] EXCEPT !.owner = None, !.expired = FALSE]
<1>1. faults' \in 0 .. MaxFaults /\ job[e] \in Rows
  BY DEF HedgeInv, Shapes, Retry
<1>2. CASE ~Leased(w)
  BY <1>1, <1>2, IdleKeeps DEF Retry
<1>3. CASE Leased(w)
  <2>1. /\ row \in Rows /\ row.submitted = job[e].submitted /\ row.owner = None
        /\ row.filled = job[e].filled /\ row.status = job[e].status
    BY <1>1 DEF Rows
  <2>2. job' = [job EXCEPT ![e] = row] /\ job'[e] = row /\ wk' = [wk EXCEPT ![w] = Idle]
        /\ wk'[w] = Idle
    BY <1>0, <1>3 DEF Retry, EndRun, HedgeInv, Shapes
  <2> HIDE DEF row
  <2>3. RowInv(e)'
    BY <1>0, <1>1, <1>3, <2>1, <2>2 DEF Leased, HedgeInv, RowInv, Retry
  <2>4. GotTrue(w)' /\ LeaseInv(w)'
    BY <2>2 DEF Idle, NoAnswer, GotTrue, LeaseInv
  <2>5. /\ wk[w].at \notin {"idle", "submit"}
        /\ UNCHANGED <<event, order, wire, aged, gateway, reorgs, faults, posts>>
        /\ Idle \in Runs /\ Idle.at = "idle"
    BY IdleRun DEF Retry, Idle
  <2>6. QED
    BY <1>0, <1>3, <2>1, <2>2, <2>3, <2>4, <2>5, LeasedKeeps
<1>4. QED
  BY <1>2, <1>3

LEMMA FailKeeps ==
    ASSUME HedgeInv, NEW w \in Workers, Fail(w)
    PROVE  HedgeInv'
<1>0. PICK e \in Jobs : e = wk[w].job
  BY DEF HedgeInv, Shapes, Fail
<1> DEFINE row == [job[e] EXCEPT !.status = "failed", !.error = "worker",
                                 !.owner = None, !.expired = FALSE]
<1>1. faults' \in 0 .. MaxFaults /\ job[e] \in Rows
  BY DEF HedgeInv, Shapes, Fail
<1>2. CASE ~Leased(w)
  BY <1>1, <1>2, IdleKeeps DEF Fail
<1>3. CASE Leased(w)
  <2>1. /\ row \in Rows /\ row.submitted = job[e].submitted /\ row.owner = None
        /\ row.filled = job[e].filled /\ row.status = "failed"
    BY <1>1 DEF Rows
  <2>2. job' = [job EXCEPT ![e] = row] /\ job'[e] = row /\ wk' = [wk EXCEPT ![w] = Idle]
        /\ wk'[w] = Idle /\ \A v \in Workers \ {w} : wk'[v] = wk[v]
    BY <1>0, <1>3 DEF Fail, EndRun, HedgeInv, Shapes
  <2> HIDE DEF row
  <2>3. Settled(e)
    BY <1>0, <1>3 DEF Fail, HedgeInv, LeaseInv
  <2>4. Settled(e)'
    BY <2>1, <2>2, <2>3 DEF Fail, Settled, Idle
  <2>5. RowInv(e)'
    BY <1>0, <1>1, <1>3, <2>1, <2>2, <2>4 DEF Leased, HedgeInv, RowInv, Fail
  <2>6. GotTrue(w)' /\ LeaseInv(w)'
    BY <2>2 DEF Idle, NoAnswer, GotTrue, LeaseInv
  <2>7. /\ wk[w].at \notin {"idle", "submit"}
        /\ UNCHANGED <<event, order, wire, aged, gateway, reorgs, faults, posts>>
        /\ Idle \in Runs /\ Idle.at = "idle"
    BY IdleRun DEF Fail, Idle
  <2>8. QED
    BY <1>0, <1>3, <2>1, <2>2, <2>5, <2>6, <2>7, LeasedKeeps
<1>4. QED
  BY <1>2, <1>3

\* A worker with the lease leaves a mark in its row and goes on to s.
LEMMA MarkKeeps ==
    ASSUME HedgeInv, NEW w \in Workers, Leased(w), NEW e \in Jobs, e = wk[w].job,
           NEW row \in Rows, job' = [job EXCEPT ![e] = row],
           row.status = "queued", row.owner = w, row.filled = job[e].filled,
           row.submitted,
           NEW s \in {"overdue", "cancel", "apply", "retry"}, Goto(w, s),
           wk[w].at \in {"observe", "overdue"} \/ (wk[w].at = "authorize" /\ s = "retry"),
           UNCHANGED <<event, order, wire, aged, gateway, reorgs, faults, posts>>
    PROVE  HedgeInv'
<1> DEFINE run == [wk[w] EXCEPT !.at = s]
<1>1. /\ run \in Runs /\ run.job = e /\ run.seen = wk[w].seen
      /\ run.got = wk[w].got /\ run.at = s
  BY DEF HedgeInv, Shapes, Runs, Steps
<1>2. wk' = [wk EXCEPT ![w] = run] /\ wk'[w] = run /\ job'[e] = row
  BY DEF Goto, HedgeInv, Shapes
<1> HIDE DEF run
<1>3. RowInv(e)'
  BY <1>2 DEF HedgeInv, RowInv
<1>4. GotTrue(w)'
  BY <1>1, <1>2 DEF HedgeInv, GotTrue
<1>5. LeaseInv(w)'
  BY <1>1, <1>2 DEF LeaseInv
<1>6. QED
  BY <1>1, <1>2, <1>3, <1>4, <1>5, LeasedKeeps

LEMMA ObserveKeeps ==
    ASSUME HedgeInv, NEW w \in Workers, Observe(w)
    PROVE  HedgeInv'
<1>1. PICK e \in Jobs : e = wk[w].job
  BY DEF HedgeInv, Shapes, Observe
<1>2. faults' \in 0 .. MaxFaults
  BY DEF HedgeInv, Shapes, Observe
<1>3. CASE ~Leased(w)
  BY <1>2, <1>3, GotoKeeps DEF Observe, Steps
<1>4. CASE Leased(w)
  <2> DEFINE row == [job[e] EXCEPT !.submitted = TRUE]
  <2>0. job[e] \in Rows /\ job[e].status = "queued" /\ job[e].owner = w
    BY <1>1, <1>4 DEF Leased, HedgeInv, Shapes
  <2>1. /\ row \in Rows /\ row.submitted /\ row.owner = w
        /\ row.filled = job[e].filled /\ row.status = "queued"
    BY <2>0 DEF Rows
  <2>2. job' = [job EXCEPT ![e] = row]
    BY <1>1, <1>4 DEF Observe, HedgeInv, Shapes
  <2> HIDE DEF row
  <2>3. /\ Goto(w, "overdue") \/ Goto(w, "apply")
        /\ wk[w].at = "observe"
        /\ UNCHANGED <<event, order, wire, aged, gateway, reorgs, faults, posts>>
    BY <1>4 DEF Observe
  <2>4. QED
    BY <1>1, <1>4, <2>1, <2>2, <2>3, MarkKeeps
<1>5. QED
  BY <1>3, <1>4

LEMMA AuthorizeCancelKeeps ==
    ASSUME HedgeInv, NEW w \in Workers, AuthorizeCancel(w)
    PROVE  HedgeInv'
<1>1. PICK e \in Jobs : e = wk[w].job
  BY DEF HedgeInv, Shapes, AuthorizeCancel
<1>2. faults' \in 0 .. MaxFaults
  BY DEF HedgeInv, Shapes, AuthorizeCancel
<1> DEFINE due == Leased(w) /\ job[e].submitted /\ (job[e].cancel \/ e \in aged)
<1>3. CASE ~due
  <2>1. UNCHANGED job /\ Goto(w, "apply")
    BY <1>1, <1>3 DEF AuthorizeCancel
  <2>2. QED
    BY <1>2, <2>1, GotoKeeps DEF AuthorizeCancel, Steps
<1>4. CASE due
  <2> DEFINE row == [job[e] EXCEPT !.cancel = TRUE]
  <2>0. job[e] \in Rows /\ job[e].submitted /\ job[e].owner = w /\ job[e].status = "queued"
    BY <1>1, <1>4 DEF Leased, HedgeInv, Shapes
  <2>1. /\ row \in Rows /\ row.submitted /\ row.owner = w
        /\ row.filled = job[e].filled /\ row.status = "queued"
    BY <2>0 DEF Rows
  <2>2. job' = [job EXCEPT ![e] = row] /\ Goto(w, "cancel")
    BY <1>1, <1>4 DEF AuthorizeCancel, HedgeInv, Shapes
  <2> HIDE DEF row
  <2>3. /\ wk[w].at = "overdue"
        /\ UNCHANGED <<event, order, wire, aged, gateway, reorgs, faults, posts>>
    BY DEF AuthorizeCancel
  <2>4. QED
    BY <1>1, <1>4, <2>1, <2>2, <2>3, MarkKeeps
<1>5. QED
  BY <1>3, <1>4

LEMMA ClaimKeeps ==
    ASSUME HedgeInv, NEW w \in Workers, NEW e \in Jobs, Claim(w, e)
    PROVE  HedgeInv'
<1> DEFINE row == [job[e] EXCEPT !.owner = w, !.expired = FALSE]
           run == [Idle EXCEPT !.job = e, !.seen = job[e].submitted,
                       !.at = IF job[e].submitted THEN "query" ELSE "prepare"]
<1>1. /\ row \in Rows /\ row.submitted = job[e].submitted /\ row.owner = w
      /\ row.filled = job[e].filled /\ row.status = "queued"
  BY DEF Rows, HedgeInv, Shapes, Claim
<1>2. /\ run \in Runs /\ run.job = e /\ run.seen = job[e].submitted
      /\ run.got = NoAnswer
      /\ run.at = "query" \/ (run.at = "prepare" /\ ~run.seen)
  BY IdleRun DEF Idle, Runs, Steps, Rows, HedgeInv, Shapes
<1>3. /\ job' = [job EXCEPT ![e] = row] /\ job'[e] = row
      /\ \A f \in Jobs \ {e} : job'[f] = job[f]
  BY DEF Claim, HedgeInv, Shapes
<1>4. /\ wk' = [wk EXCEPT ![w] = run] /\ wk'[w] = run
      /\ \A v \in Workers \ {w} : wk'[v] = wk[v]
  BY DEF Claim, HedgeInv, Shapes
<1>5. UNCHANGED <<event, order, wire, aged, gateway, reorgs, faults, posts>>
  BY DEF Claim
<1> HIDE DEF row, run
<1>6. Shapes'
  BY <1>1, <1>2, <1>3, <1>4, <1>5 DEF HedgeInv, Shapes
<1>7. \A f \in Jobs : OrderInv(f)'
  BY <1>5 DEF HedgeInv, OrderInv
<1>8. \A f \in Jobs \ {e} : RowInv(f)'
  BY <1>2, <1>3, <1>4, <1>5 DEF HedgeInv, RowInv, Settled
<1>9. RowInv(e)'
  BY <1>1, <1>3, <1>5 DEF HedgeInv, RowInv, Settled
<1>10. \A v \in Workers : GotTrue(v)'
  <2>1. GotTrue(w)'
    BY <1>2, <1>4, <1>5 DEF GotTrue, NoAnswer, HedgeInv, Shapes, Orders
  <2>2. \A v \in Workers \ {w} : GotTrue(v)'
    BY <1>4, <1>5 DEF HedgeInv, GotTrue
  <2>3. QED
    BY <2>1, <2>2
<1>11. LeaseInv(w)'
  BY <1>1, <1>2, <1>3, <1>4 DEF LeaseInv, Leased
<1>12. ASSUME NEW v \in Workers \ {w}
       PROVE  LeaseInv(v)'
  <2>1. CASE wk[v].job = e
    BY <1>1, <1>3, <1>4, <1>5, <2>1 DEF HedgeInv, LeaseInv, Leased
  <2>2. CASE wk[v].job # e
    <3>1. wk[v].at # "idle" => wk[v].job \in Jobs \ {e}
      BY <2>2 DEF HedgeInv, Shapes
    <3>2. Settled(wk[v].job) /\ wk[v].job \in Jobs \ {e} => Settled(wk[v].job)'
      BY <1>2, <1>3, <1>4, <1>5 DEF Settled
    <3>3. QED
      BY <1>3, <1>4, <1>5, <3>1, <3>2 DEF HedgeInv, LeaseInv, Leased
  <2>3. QED
    BY <2>1, <2>2
<1>13. OneSubmits'
  BY <1>2, <1>4 DEF HedgeInv, OneSubmits, Submitting
<1>14. QED
  BY <1>6, <1>7, <1>8, <1>9, <1>10, <1>11, <1>12, <1>13 DEF HedgeInv

\* A worker that may submit is the only one, and the first for its job.
LEMMA SubmissionKeeps ==
    ASSUME HedgeInv, NEW w \in Workers, wk[w].at = "authorize", Leased(w),
           NEW e \in Jobs, e = wk[w].job,
           NEW row \in Rows, job' = [job EXCEPT ![e] = row],
           row.status = "queued", row.owner = w, row.filled = job[e].filled,
           row.submitted, Goto(w, "submit"),
           UNCHANGED <<event, order, wire, aged, gateway, reorgs, faults, posts>>
    PROVE  HedgeInv'
<1> DEFINE run == [wk[w] EXCEPT !.at = "submit"]
<1>1. /\ run \in Runs /\ run.job = e /\ run.got = wk[w].got /\ run.at = "submit"
  BY DEF HedgeInv, Shapes, Runs, Steps
<1>2. /\ wk' = [wk EXCEPT ![w] = run] /\ wk'[w] = run
      /\ \A v \in Workers \ {w} : wk'[v] = wk[v]
  BY DEF Goto, HedgeInv, Shapes
<1>3. job'[e] = row /\ \A f \in Jobs \ {e} : job'[f] = job[f]
  BY DEF HedgeInv, Shapes
<1> HIDE DEF run
<1>4. ~job[e].submitted /\ posts[e] = 0
  BY DEF HedgeInv, LeaseInv, RowInv
<1>5. \A v \in Workers : ~Submitting(v, e)
  BY <1>4 DEF HedgeInv, LeaseInv, Submitting
<1>6. Shapes'
  BY <1>1, <1>2 DEF HedgeInv, Shapes
<1>7. \A f \in Jobs : OrderInv(f)'
  BY DEF HedgeInv, OrderInv
<1>8. \A f \in Jobs \ {e} : RowInv(f)'
  BY <1>1, <1>2, <1>3 DEF HedgeInv, RowInv, Settled
<1>9. RowInv(e)'
  BY <1>3 DEF HedgeInv, RowInv
<1>10. \A v \in Workers : GotTrue(v)'
  <2>1. GotTrue(w)'
    BY <1>1, <1>2 DEF HedgeInv, GotTrue
  <2>2. \A v \in Workers \ {w} : GotTrue(v)'
    BY <1>2 DEF HedgeInv, GotTrue
  <2>3. QED
    BY <2>1, <2>2
<1>11. LeaseInv(w)'
  BY <1>1, <1>2, <1>3, <1>4 DEF LeaseInv
<1>12. ASSUME NEW v \in Workers \ {w}
       PROVE  LeaseInv(v)'
  <2>1. CASE wk[v].job = e
    BY <1>2, <1>3, <1>5, <2>1 DEF HedgeInv, LeaseInv, Leased, Submitting
  <2>2. CASE wk[v].job # e
    <3>1. wk[v].at # "idle" => wk[v].job \in Jobs \ {e}
      BY <2>2 DEF HedgeInv, Shapes
    <3>2. Settled(wk[v].job) /\ wk[v].job \in Jobs \ {e} => Settled(wk[v].job)'
      BY <1>1, <1>2, <1>3 DEF Settled
    <3>3. QED
      BY <1>2, <1>3, <3>1, <3>2 DEF HedgeInv, LeaseInv, Leased
  <2>3. QED
    BY <2>1, <2>2
<1>13. OneSubmits'
  BY <1>1, <1>2, <1>5 DEF HedgeInv, OneSubmits, Submitting
<1>14. QED
  BY <1>6, <1>7, <1>8, <1>9, <1>10, <1>11, <1>12, <1>13 DEF HedgeInv

LEMMA AuthorizeKeeps ==
    ASSUME HedgeInv, NEW w \in Workers, Authorize(w)
    PROVE  HedgeInv'
<1>1. PICK e \in Jobs : e = wk[w].job
  BY DEF HedgeInv, Shapes, Authorize
<1>2. /\ wk[w].at = "authorize" /\ ~wk[w].seen /\ faults' \in 0 .. MaxFaults
      /\ UNCHANGED <<event, order, wire, aged, gateway, reorgs, faults, posts>>
  BY DEF HedgeInv, Shapes, LeaseInv, Authorize
<1> DEFINE row == [job[e] EXCEPT !.submitted = TRUE]
<1>3. \/ UNCHANGED job /\ (Goto(w, "fail") \/ Goto(w, "retry"))
      \/ /\ Leased(w) /\ job' = [job EXCEPT ![e] = row]
         /\ Goto(w, "submit") \/ Goto(w, "retry")
  BY <1>1 DEF Authorize, HedgeInv, Shapes
<1>4. CASE UNCHANGED job /\ (Goto(w, "fail") \/ Goto(w, "retry"))
  BY <1>2, <1>4, GotoKeeps DEF Steps
<1>5. CASE /\ Leased(w) /\ job' = [job EXCEPT ![e] = row]
           /\ Goto(w, "submit") \/ Goto(w, "retry")
  <2>1. job[e] \in Rows /\ job[e].owner = w /\ job[e].status = "queued"
    BY <1>1, <1>5 DEF Leased, HedgeInv, Shapes
  <2>2. /\ row \in Rows /\ row.submitted /\ row.owner = w
        /\ row.filled = job[e].filled /\ row.status = "queued"
    BY <2>1 DEF Rows
  <2> HIDE DEF row
  <2>3. QED
    BY <1>1, <1>2, <1>5, <2>2, MarkKeeps, SubmissionKeeps
<1>6. QED
  BY <1>3, <1>4, <1>5

LEMMA ApplyKeeps ==
    ASSUME HedgeInv, NEW w \in Workers, Apply(w)
    PROVE  HedgeInv'
<1>1. PICK e \in Jobs : e = wk[w].job
  BY DEF HedgeInv, Shapes, Apply
<1>2. /\ wk[w].at = "apply" /\ faults' \in 0 .. MaxFaults
      /\ UNCHANGED <<event, order, wire, aged, gateway, reorgs, faults, posts>>
  BY DEF HedgeInv, Shapes, Apply
<1> DEFINE got == wk[w].got
<1>3. /\ got \in Answers /\ got.state # "none" /\ got.done <= order[e].done
      /\ got.state = "filled" => order[e].state = "filled" /\ got.done = Amount
      /\ got.state = "failed" => order[e].state = "closed" /\ got.done = order[e].done
  BY <1>1, <1>2 DEF HedgeInv, Shapes, Runs, GotTrue, OrderInv
<1>4. \/ UNCHANGED job /\ Goto(w, "retry")
      \/ /\ Leased(w)
         /\ \/ got.state = "pending" /\ Record(w, "queued", "none") /\ Goto(w, "retry")
            \/ /\ got.state # "pending" /\ EndRun(w)
               /\ Record(w, got.state, IF got.state = "failed" THEN "worker" ELSE "none")
  BY Zenon DEF Apply
<1>5. CASE UNCHANGED job /\ Goto(w, "retry")
  BY <1>2, <1>5, GotoKeeps DEF Steps
<1>6. ASSUME Leased(w), NEW status \in {"queued", "filled", "failed"},
             NEW error \in {"none", "worker"}, Record(w, status, error),
             status = "queued" => got.state = "pending" /\ Goto(w, "retry"),
             status # "queued" => got.state = status /\ EndRun(w)
      PROVE  HedgeInv'
  <2> DEFINE run == IF status = "queued" THEN [wk[w] EXCEPT !.at = "retry"] ELSE Idle
  <2>1. job[e] \in Rows /\ job[e].owner = w /\ job[e].status = "queued"
    BY <1>1, <1>6 DEF Leased, HedgeInv, Shapes
  <2>2. PICK row \in Rows :
            /\ job' = [job EXCEPT ![e] = row]
            /\ row.submitted /\ row.filled = got.done
            /\ row.status = status /\ row.error = error
            /\ row.owner = IF status = "queued" THEN w ELSE None
    <3> DEFINE j == wk[w].job
               row == [job[j] EXCEPT !.status = status, !.error = error, !.submitted = TRUE,
                         !.filled = wk[w].got.done,
                         !.owner = IF status = "queued" THEN w ELSE None,
                         !.expired = status = "queued" /\ job[j].expired]
    <3>0. job[j] \in Rows /\ job[j].owner = w
      BY <1>1, <2>1
    <3>1. job' = [job EXCEPT ![j] = row]
      BY <1>6, <3>0 DEF Record, Rows
    <3>3. /\ row \in Rows /\ row.submitted /\ row.filled = got.done
          /\ row.status = status /\ row.error = error
          /\ row.owner = IF status = "queued" THEN w ELSE None
      BY <1>3, <3>0 DEF Rows, Answers
    <3> HIDE DEF row
    <3>4. QED
      BY <1>1, <3>1, <3>3
  <2>3. job'[e] = row
    BY <2>2 DEF HedgeInv, Shapes
  <2>4. /\ run \in Runs /\ run.at \in {"retry", "idle"}
        /\ run.at = "retry" => run.job = e /\ run.got = got
    BY <1>1, IdleRun DEF HedgeInv, Shapes, Runs, Steps, Idle
  <2>5. /\ wk' = [wk EXCEPT ![w] = run] /\ wk'[w] = run
        /\ \A v \in Workers \ {w} : wk'[v] = wk[v]
    BY <1>6 DEF Goto, EndRun, HedgeInv, Shapes
  <2> HIDE DEF run
  <2>6. order[e].state # "none" => Settled(e)' \/ order[e].state = "open" \/ row.filled # order[e].done
    BY <1>2, <2>3, <2>4, <2>5 DEF HedgeInv, LeaseInv, OrderInv, Settled
  <2>7. RowInv(e)'
    BY <1>2, <1>3, <1>6, <2>2, <2>3, <2>6 DEF RowInv
  <2>8. GotTrue(w)'
    BY <1>1, <1>2, <1>3, <2>4, <2>5 DEF HedgeInv, GotTrue
  <2>9. LeaseInv(w)'
    BY <2>4, <2>5 DEF LeaseInv
  <2>10. QED
    BY <1>1, <1>2, <1>6, <2>2, <2>3, <2>4, <2>5, <2>7, <2>8, <2>9, LeasedKeeps
<1>7. QED
  BY <1>3, <1>4, <1>5, <1>6 DEF Answers

-----------------------------------------------------------------------------
\* The order of e moves on, by the venue or by a request that w ends with.
LEMMA OrderKeeps ==
    ASSUME HedgeInv, NEW e \in Jobs, ~Settled(e), job[e].submitted,
           order[e].state \in {"none", "open"},
           NEW o \in Orders, order' = [order EXCEPT ![e] = o], o.done >= order[e].done,
           NEW W \in SUBSET Jobs, wire' = W, W \ {e} = wire \ {e},
           posts' \in [Jobs -> Nat], \A f \in Jobs \ {e} : posts'[f] = posts[f],
           wk' \in [Workers -> Runs],
           \A v \in Workers :
               \/ wk'[v] = wk[v] /\ (Submitting(v, e) => posts'[e] = posts[e])
               \/ /\ wk'[v].at \notin {"idle", "submit"} /\ wk'[v].job = wk[v].job
                  /\ wk[v].job \in Jobs /\ GotTrue(v)' /\ LeaseInv(v)',
           OrderInv(e)',
           UNCHANGED <<event, job, aged, gateway, reorgs, faults>>
    PROVE  HedgeInv'
<1>1. Shapes'
  BY DEF HedgeInv, Shapes
<1>2. order'[e] = o /\ \A f \in Jobs \ {e} : order'[f] = order[f]
  BY DEF HedgeInv, Shapes
<1>3. \A f \in Jobs \ {e} : OrderInv(f)'
  BY <1>2 DEF HedgeInv, OrderInv
<1>4. \A v \in Workers, f \in Jobs : Submitting(v, f)' => Submitting(v, f) /\ wk'[v] = wk[v]
  BY DEF Submitting
<1>5. \A f \in Jobs \ {e} : Settled(f) => Settled(f)'
  BY <1>2, <1>4 DEF Settled, Submitting
<1>6. \A f \in Jobs \ {e} : RowInv(f)'
  BY <1>2, <1>5 DEF HedgeInv, RowInv
<1>7. RowInv(e)'
  <2>1. job[e].filled \in Int /\ order[e].done \in Int /\ o.done \in Int
    BY HedgeAssumption DEF HedgeAssumption, HedgeInv, Shapes, Rows, Orders
  <2>2. QED
    BY <1>2, <2>1 DEF HedgeInv, RowInv
<1>8. ASSUME NEW v \in Workers, wk'[v] = wk[v], Submitting(v, e) => posts'[e] = posts[e]
      PROVE  GotTrue(v)' /\ LeaseInv(v)'
  <2>1. CASE wk[v].job = e
    <3>1. GotTrue(v)'
      <4>1. wk[v].got.done \in Int /\ order[e].done \in Int /\ o.done \in Int
        BY HedgeAssumption DEF HedgeAssumption, HedgeInv, Shapes, Runs, Answers, Orders
      <4>2. QED
        BY <1>2, <1>8, <2>1, <4>1 DEF HedgeInv, GotTrue
    <3>2. LeaseInv(v)'
      BY <1>8, <2>1 DEF HedgeInv, LeaseInv, Leased, Submitting
    <3>3. QED
      BY <3>1, <3>2
  <2>2. CASE wk[v].job # e
    <3>1. wk[v].at # "idle" => wk[v].job \in Jobs \ {e}
      BY <2>2 DEF HedgeInv, Shapes
    <3>2. Settled(wk[v].job) /\ wk[v].job \in Jobs \ {e} => Settled(wk[v].job)'
      BY <1>5, <1>8
    <3>3. QED
      BY <1>2, <1>8, <3>1, <3>2 DEF HedgeInv, GotTrue, LeaseInv, Leased
  <2>3. QED
    BY <2>1, <2>2
<1>9. OneSubmits'
  BY <1>4 DEF HedgeInv, OneSubmits
<1>10. QED
  BY <1>1, <1>3, <1>6, <1>7, <1>8, <1>9 DEF HedgeInv

LEMMA TradedFacts ==
    ASSUME NEW n \in 0 .. Amount
    PROVE  /\ Traded(n) \in Orders
           /\ Traded(n).done = n
           /\ Traded(n).state = "open" => n < Amount
           /\ Traded(n).state = "filled" => n = Amount
           /\ Traded(n).state \in {"open", "filled"}
  BY HedgeAssumption DEF HedgeAssumption, Traded, Orders

LEMMA SentIsSubmitted ==
    ASSUME HedgeInv, NEW e \in Jobs, posts[e] # 0
    PROVE  job[e].submitted
  BY DEF HedgeInv, RowInv

LEMMA ArriveKeeps ==
    ASSUME HedgeInv, NEW e \in Jobs, Arrive(e)
    PROVE  HedgeInv'
<1>1. /\ posts[e] # 0 /\ job[e].submitted /\ ~Settled(e)
      /\ order[e].state = "none" /\ order[e].done = 0 /\ order[e] \in Orders
      /\ wire' = wire \ {e} /\ wire' \subseteq Jobs
      /\ UNCHANGED <<event, job, aged, wk, gateway, reorgs, faults, posts>>
  BY SentIsSubmitted DEF Arrive, HedgeInv, Shapes, OrderInv, Settled
<1>2. posts[e] \in Nat /\ posts[e] <= 1
  BY DEF HedgeInv, Shapes, OrderInv
<1>3. PICK o \in Orders : /\ order' = [order EXCEPT ![e] = o]
                          /\ o = order[e] \/ \E n \in 0 .. Amount : o = Traded(n)
  <2>1. CASE UNCHANGED order
    BY <1>1, <2>1 DEF HedgeInv, Shapes
  <2>2. ASSUME NEW n \in 0 .. Amount, order' = [order EXCEPT ![e] = Traded(n)]
        PROVE  \E o \in Orders : order' = [order EXCEPT ![e] = o] /\ o = Traded(n)
    BY <2>2, TradedFacts
  <2>3. QED
    BY <2>1, <2>2 DEF Arrive
<1>4. order'[e] = o
  BY <1>3 DEF HedgeInv, Shapes
<1>5. o.done >= order[e].done
  BY <1>1, HedgeAssumption DEF HedgeAssumption, Orders
<1>6. OrderInv(e)'
  BY <1>1, <1>2, <1>3, <1>4, TradedFacts DEF OrderInv
<1>7. QED
  BY <1>1, <1>3, <1>5, <1>6, OrderKeeps DEF HedgeInv, Shapes

LEMMA TradeKeeps ==
    ASSUME HedgeInv, NEW e \in Jobs, Trade(e)
    PROVE  HedgeInv'
<1>1. /\ posts[e] # 0 /\ job[e].submitted /\ ~Settled(e) /\ e \notin wire
      /\ order[e].state = "open" /\ order[e] \in Orders /\ order[e].done < Amount
      /\ wire' = wire /\ wire' \subseteq Jobs
      /\ UNCHANGED <<event, job, aged, wk, gateway, reorgs, faults, posts>>
  BY SentIsSubmitted DEF Trade, HedgeInv, Shapes, OrderInv, Settled
<1>2. posts[e] \in Nat /\ posts[e] <= 1
  BY DEF HedgeInv, Shapes, OrderInv
<1> DEFINE n == order[e].done + 1
           closed == [order[e] EXCEPT !.state = "closed"]
<1>3. n \in 0 .. Amount /\ order[e].done \in Nat
  BY <1>1, HedgeAssumption DEF HedgeAssumption, Orders
<1>4. closed \in Orders /\ closed.state = "closed" /\ closed.done = order[e].done
  BY <1>1 DEF Orders
<1>5. PICK o \in Orders : /\ order' = [order EXCEPT ![e] = o]
                          /\ o = closed \/ o = Traded(n)
  <2>1. order' = [order EXCEPT ![e] = Traded(n)] \/ order' = [order EXCEPT ![e] = closed]
    BY DEF Trade, HedgeInv, Shapes
  <2> HIDE DEF n, closed
  <2>2. QED
    BY <1>3, <1>4, <2>1, TradedFacts
<1>6. order'[e] = o
  BY <1>5 DEF HedgeInv, Shapes
<1>7. o.done >= order[e].done
  <2> HIDE DEF closed
  <2>1. QED
    BY <1>3, <1>4, <1>5, TradedFacts
<1>8. OrderInv(e)'
  <2> HIDE DEF closed
  <2>1. QED
    BY <1>1, <1>2, <1>3, <1>4, <1>5, <1>6, TradedFacts DEF OrderInv
<1>9. QED
  BY <1>1, <1>5, <1>7, <1>8, OrderKeeps DEF HedgeInv, Shapes

\* The answer to a cancel, or no answer.
LEMMA CancelReachedKeeps ==
    ASSUME HedgeInv, NEW w \in Workers, CancelReached(w)
    PROVE  HedgeInv'
<1>1. PICK e \in Jobs : e = wk[w].job
  BY DEF HedgeInv, Shapes, CancelReached
<1>2. /\ wk[w].at = "cancel" /\ faults' \in 0 .. MaxFaults
      /\ UNCHANGED <<event, job, wire, aged, gateway, reorgs, faults, posts>>
  BY DEF HedgeInv, Shapes, CancelReached
<1>3. CASE order[e].state # "open"
  BY <1>1, <1>2, <1>3, GotoKeeps DEF CancelReached, Steps
<1>4. CASE order[e].state = "open"
  <2> DEFINE o == [order[e] EXCEPT !.state = "closed"]
             got == [state |-> "failed", done |-> order[e].done]
  <2>1. /\ posts[e] # 0 /\ job[e].submitted /\ ~Settled(e) /\ e \notin wire
        /\ order[e] \in Orders /\ wire' = wire /\ wire' \subseteq Jobs
        /\ posts[e] \in Nat /\ posts[e] <= 1 /\ order[e].done \in Nat
    BY <1>2, <1>4, SentIsSubmitted, HedgeAssumption
       DEF HedgeAssumption, HedgeInv, Shapes, Orders, OrderInv, Settled
  <2>2. /\ o \in Orders /\ o.state = "closed" /\ o.done = order[e].done
        /\ got \in Answers /\ got.state = "failed" /\ got.done = order[e].done
    BY <2>1 DEF Orders, Answers
  <2>3. order' = [order EXCEPT ![e] = o] /\ order'[e] = o
    BY <1>1, <1>4 DEF CancelReached, HedgeInv, Shapes
  <2>4. PICK run \in Runs :
            /\ wk' = [wk EXCEPT ![w] = run]
            /\ run.job = e
            /\ \/ run.at = "apply" /\ run.got = got
               \/ run.at = "retry" /\ run.got = wk[w].got
    <3>1. \/ wk' = [wk EXCEPT ![w].at = "apply", ![w].got = got]
          \/ wk' = [wk EXCEPT ![w].at = "retry"]
      BY <1>1, <1>4 DEF CancelReached, Goto
    <3> HIDE DEF got
    <3> DEFINE told == [wk[w] EXCEPT !.at = "apply", !.got = got]
               untold == [wk[w] EXCEPT !.at = "retry"]
    <3>2. wk[w] \in Runs /\ got \in Answers
      BY <2>2 DEF HedgeInv, Shapes
    <3>3. told \in Runs /\ told.at = "apply" /\ told.got = got /\ told.job = wk[w].job
      BY <3>2 DEF Runs, Steps
    <3>4. /\ untold \in Runs /\ untold.at = "retry"
          /\ untold.got = wk[w].got /\ untold.job = wk[w].job
      BY <3>2 DEF Runs, Steps
    <3>5. wk' = [wk EXCEPT ![w] = told] \/ wk' = [wk EXCEPT ![w] = untold]
      BY <3>1
    <3> HIDE DEF told, untold
    <3>6. QED
      BY <1>1, <3>3, <3>4, <3>5
  <2>5. /\ wk'[w] = run /\ wk' \in [Workers -> Runs]
        /\ \A v \in Workers \ {w} : wk'[v] = wk[v]
    BY <2>4 DEF HedgeInv, Shapes
  <2> HIDE DEF o, got
  <2>6. GotTrue(w)'
    <3>1. wk[w].got.done <= order[e].done /\ wk[w].got.state \notin {"filled", "failed"}
      BY <1>1, <1>2, <1>4 DEF HedgeInv, GotTrue
    <3>2. CASE run.at = "apply"
      BY <2>1, <2>2, <2>3, <2>4, <2>5, <3>2 DEF GotTrue
    <3>3. CASE run.at = "retry"
      BY <2>2, <2>3, <2>4, <2>5, <3>1, <3>3 DEF GotTrue
    <3>4. QED
      BY <2>4, <3>2, <3>3
  <2>7. LeaseInv(w)'
    BY <2>4, <2>5 DEF LeaseInv
  <2>8. OrderInv(e)'
    BY <1>2, <2>1, <2>2, <2>3 DEF OrderInv
  <2>9. posts' \in [Jobs -> Nat] /\ o.done >= order[e].done
    BY <1>2, <2>1, <2>2 DEF HedgeInv, Shapes
  <2>10. \A v \in Workers :
             \/ wk'[v] = wk[v] /\ (Submitting(v, e) => posts'[e] = posts[e])
             \/ /\ wk'[v].at \notin {"idle", "submit"} /\ wk'[v].job = wk[v].job
                /\ wk[v].job \in Jobs /\ GotTrue(v)' /\ LeaseInv(v)'
    BY <1>1, <1>2, <2>4, <2>5, <2>6, <2>7
  <2>11. QED
    BY <1>2, <1>4, <2>1, <2>2, <2>3, <2>5, <2>8, <2>9, <2>10, OrderKeeps
<1>5. QED
  BY <1>3, <1>4

LEMMA SubmitKeeps ==
    ASSUME HedgeInv, NEW w \in Workers, Submit(w)
    PROVE  HedgeInv'
<1>1. PICK e \in Jobs : e = wk[w].job
  BY DEF HedgeInv, Shapes, Submit
<1>2. /\ wk[w].at = "submit"
      /\ UNCHANGED <<event, job, aged, gateway, reorgs, faults>>
      /\ posts' = [posts EXCEPT ![e] = @ + 1]
  BY <1>1 DEF Submit
<1>3. /\ job[e].submitted /\ posts[e] = 0 /\ e \notin wire
      /\ order[e].state = "none" /\ order[e].done = 0 /\ order[e] \in Orders
      /\ Submitting(w, e) /\ ~Settled(e)
  BY <1>1, <1>2 DEF HedgeInv, Shapes, LeaseInv, OrderInv, Submitting, Settled
<1>4. posts' \in [Jobs -> Nat] /\ posts'[e] = 1 /\ \A f \in Jobs \ {e} : posts'[f] = posts[f]
  BY <1>2, <1>3 DEF HedgeInv, Shapes
<1>5. \A v \in Workers \ {w} : ~Submitting(v, e)
  BY <1>3 DEF HedgeInv, OneSubmits
<1>6. wk[w].got.done <= 0 /\ wk[w].got.done \in Nat /\ wk[w].got.state \notin {"filled", "failed"}
  BY <1>1, <1>2, <1>3, HedgeAssumption
     DEF HedgeAssumption, HedgeInv, Shapes, Runs, Answers, GotTrue
<1>7. ASSUME NEW o \in Orders, order' = [order EXCEPT ![e] = o],
             NEW got \in Answers, NEW s \in {"apply", "retry", "fail"},
             wk' = [wk EXCEPT ![w].at = s, ![w].got = got],
             o.done >= 0, got.done <= o.done,
             got.state = "filled" => o.state = "filled" /\ got.done = o.done,
             got.state = "failed" => o.state = "closed" /\ got.done = o.done,
             s = "apply" => got.state # "none",
             wire' \subseteq Jobs, wire' \ {e} = wire \ {e},
             o.state = "none" => o.done = 0,
             o.state = "open" => o.done < Amount,
             o.state = "filled" => o.done = Amount,
             e \in wire' => o.state = "none",
             s = "fail" => o = order[e] /\ wire' = wire
      PROVE  HedgeInv'
  <2> DEFINE run == [wk[w] EXCEPT !.at = s, !.got = got]
  <2>0. /\ wk \in [Workers -> Runs] /\ s \in Steps
        /\ wk[w] \in Runs /\ wk' = [wk EXCEPT ![w] = run]
    <3>1. wk' = [wk EXCEPT ![w].at = s, ![w].got = got]
      BY <1>7
    <3>2. wk \in [Workers -> Runs] /\ wk[w] \in Runs
      BY DEF HedgeInv, Shapes
    <3>3. wk' = [wk EXCEPT ![w] = run]
      BY <3>1
    <3>4. QED
      BY <1>7, <3>2, <3>3 DEF Steps
  <2>1. run \in Runs /\ run.job = e /\ run.at = s /\ run.got = got
    BY <1>1, <1>7, <2>0 DEF Runs
  <2> HIDE DEF run
  <2>2. /\ wk'[w] = run /\ wk' \in [Workers -> Runs] /\ order'[e] = o
        /\ \A v \in Workers \ {w} : wk'[v] = wk[v]
    <3>1. order \in [Jobs -> Orders] /\ order' = [order EXCEPT ![e] = o]
      BY <1>7 DEF HedgeInv, Shapes
    <3>2. order'[e] = o
      BY <3>1
    <3>3. QED
      BY <2>0, <2>1, <3>2
  <2>3. GotTrue(w)'
    BY <1>7, <2>1, <2>2 DEF GotTrue
  <2>4. OrderInv(e)'
    BY <1>4, <1>7, <2>2 DEF OrderInv
  <2>5. s = "fail" => Settled(e)'
    <3>1. s = "fail" => order'[e] = order[e] /\ e \notin wire'
      BY <1>3, <1>7, <2>2
    <3>2. \A v \in Workers : ~(wk'[v].at = "submit" /\ wk'[v].job = e)
      BY <1>5, <1>7, <2>1, <2>2 DEF Submitting
    <3>3. job[e].filled = 0
      BY <1>3, HedgeAssumption DEF HedgeAssumption, HedgeInv, Shapes, Rows, RowInv
    <3>4. QED
      BY <1>2, <1>3, <3>1, <3>2, <3>3 DEF Settled
  <2>6. LeaseInv(w)'
    BY <1>7, <2>1, <2>2, <2>5 DEF LeaseInv
  <2>7. \A v \in Workers :
            \/ wk'[v] = wk[v] /\ (Submitting(v, e) => posts'[e] = posts[e])
            \/ /\ wk'[v].at \notin {"idle", "submit"} /\ wk'[v].job = wk[v].job
               /\ wk[v].job \in Jobs /\ GotTrue(v)' /\ LeaseInv(v)'
    BY <1>1, <1>5, <1>7, <2>1, <2>2, <2>3, <2>6
  <2>8. order[e].state \in {"none", "open"} /\ o.done >= order[e].done
    BY <1>3, <1>7
  <2>9. QED
    BY <1>2, <1>3, <1>4, <1>7, <2>2, <2>4, <2>7, <2>8, OrderKeeps
<1>8. ASSUME NEW n \in 0 .. Amount, order' = [order EXCEPT ![e] = Traded(n)], UNCHANGED wire,
             wk' = [wk EXCEPT ![w].at = "apply", ![w].got = Answer(Traded(n))]
      PROVE  HedgeInv'
  <2>1. PICK o \in Orders : o = Traded(n)
    BY TradedFacts
  <2>2. PICK got \in Answers : got = Answer(o)
    BY AnswerFacts
  <2>3. /\ got.done = o.done /\ got.state # "none"
        /\ got.state = "filled" => o.state = "filled"
        /\ got.state = "failed" => o.state = "closed"
    BY <2>1, <2>2, AnswerFacts, TradedFacts DEF Answer
  <2>4. /\ o.done \in Nat /\ o.state # "none"
        /\ o.state = "open" => o.done < Amount
        /\ o.state = "filled" => o.done = Amount
    BY <2>1, TradedFacts, HedgeAssumption DEF HedgeAssumption
  <2>5. order' = [order EXCEPT ![e] = o] /\ wk' = [wk EXCEPT ![w].at = "apply", ![w].got = got]
    BY <1>8, <2>1, <2>2, Zenon
  <2>6. wire' \subseteq Jobs /\ wire' = wire
    BY <1>8 DEF HedgeInv, Shapes
  <2>7. /\ o.done >= 0 /\ got.done <= o.done
        /\ got.state = "filled" => o.state = "filled" /\ got.done = o.done
        /\ got.state = "failed" => o.state = "closed" /\ got.done = o.done
        /\ e \notin wire' /\ wire' \ {e} = wire \ {e}
    BY <1>3, <2>3, <2>4, <2>6
  <2>8. QED
    BY <1>7, <2>3, <2>4, <2>5, <2>6, <2>7
<1>9. ASSUME NEW s \in {"retry", "fail"}, Goto(w, s), UNCHANGED order,
             \/ s = "retry" /\ wire' = wire \cup {e}
             \/ s = "fail" /\ UNCHANGED wire
      PROVE  HedgeInv'
  <2>1. wk[w].got \in Answers /\ wk' = [wk EXCEPT ![w].at = s, ![w].got = wk[w].got]
    BY <1>9 DEF HedgeInv, Shapes, Runs, Goto
  <2>2. order' = [order EXCEPT ![e] = order[e]] /\ wire' \subseteq Jobs
    BY <1>9 DEF HedgeInv, Shapes
  <2>3. PICK got \in Answers : got = wk[w].got
    BY <2>1
  <2>4. PICK o \in Orders : o = order[e]
    BY <1>3
  <2>5. wire' \ {e} = wire \ {e} /\ (s = "fail" => wire' = wire)
    BY <1>9
  <2>6. wk' = [wk EXCEPT ![w].at = s, ![w].got = got] /\ order' = [order EXCEPT ![e] = o]
    BY <2>1, <2>2, <2>3, <2>4
  <2>7. /\ o.done = 0 /\ o.state = "none" /\ got.done <= 0
        /\ got.state \notin {"filled", "failed"}
    BY <1>3, <1>6, <2>3, <2>4
  <2>8. o.done >= 0 /\ got.done <= o.done /\ wire' \subseteq Jobs
    BY <2>2, <2>7
  <2>9. QED
    BY <1>7, <1>9, <2>4, <2>5, <2>6, <2>7, <2>8
<1>10. \/ \E n \in 0 .. Amount :
              /\ order' = [order EXCEPT ![e] = Traded(n)] /\ UNCHANGED wire
              /\ wk' = [wk EXCEPT ![w].at = "apply", ![w].got = Answer(Traded(n))]
       \/ wire' = wire \cup {e} /\ UNCHANGED order /\ Goto(w, "retry")
       \/ UNCHANGED <<order, wire>> /\ Goto(w, "fail")
  BY <1>1, Zenon DEF Submit
<1>11. QED
  BY <1>8, <1>9, <1>10

-----------------------------------------------------------------------------
(* What gateways, reconciliation and time do to a row.                     *)

LEMMA AbsentIsUnsent ==
    ASSUME HedgeInv, NEW e \in Jobs, ~job[e].submitted
    PROVE  job[e] \in Rows /\ job[e].filled = 0
  BY HedgeAssumption
     DEF HedgeAssumption, HedgeInv, Shapes, Rows, Orders, RowInv, OrderInv

LEMMA QueuedRow ==
    /\ Queued \in Rows /\ Queued.status = "queued" /\ ~Queued.submitted
    /\ Queued.owner = None /\ Queued.filled = 0
    /\ Absent \in Rows /\ Absent.status = "absent" /\ ~Absent.submitted
    /\ Absent.owner = None /\ Absent.filled = 0
<1>1. /\ Absent \in Rows /\ Absent.status = "absent" /\ ~Absent.submitted
      /\ Absent.owner = None /\ Absent.filled = 0
  BY HedgeAssumption DEF HedgeAssumption, Absent, Rows
<1>2. QED
  BY <1>1 DEF Queued, Rows

LEMMA InsertKeeps ==
    ASSUME HedgeInv, NEW e \in Jobs, Insert(e),
           UNCHANGED <<event, order, wire, aged, wk, reorgs, faults, posts>>,
           gateway' \in [Jobs -> {"idle", "create", "record"}]
    PROVE  HedgeInv'
<1>1. faults' \in 0 .. MaxFaults /\ event' \in [Jobs -> {"none", "canonical", "removed", "restored"}]
      /\ aged' \subseteq Jobs /\ reorgs' \in 0 .. MaxReorgs
  BY DEF HedgeInv, Shapes
<1>2. CASE job[e].status # "absent"
  BY <1>1, <1>2, OutsideKeeps DEF Insert
<1>3. CASE job[e].status = "absent"
  <2>1. ~job[e].submitted
    BY <1>3 DEF HedgeInv, RowInv
  <2>2. job[e].filled = 0 /\ job[e].submitted = Queued.submitted
    BY <2>1, AbsentIsUnsent, QueuedRow DEF Rows, HedgeInv, Shapes, Queued, Absent
  <2>3. job' = [job EXCEPT ![e] = Queued]
    BY <1>3 DEF Insert
  <2>4. PICK row \in Rows : row = Queued
    BY QueuedRow
  <2>5. /\ row.submitted = job[e].submitted /\ row.filled = job[e].filled
        /\ row.status = "queued" /\ row.owner = None
    BY <2>2, <2>4, QueuedRow
  <2>6. job' = [job EXCEPT ![e] = row]
    BY <2>3, <2>4
  <2>7. QED
    BY <1>1, <2>5, <2>6, RowKeeps
<1>4. QED
  BY <1>2, <1>3

LEMMA CreateIntentKeeps ==
    ASSUME HedgeInv, NEW e \in Jobs, CreateIntent(e)
    PROVE  HedgeInv'
<1>1. gateway' \in [Jobs -> {"idle", "create", "record"}]
  BY DEF CreateIntent, HedgeInv, Shapes
<1>2. /\ faults' \in 0 .. MaxFaults /\ reorgs' \in 0 .. MaxReorgs
      /\ event' \in [Jobs -> {"none", "canonical", "removed", "restored"}]
      /\ aged' \subseteq Jobs
      /\ UNCHANGED <<event, order, wire, aged, wk, reorgs, faults, posts>>
      /\ Insert(e) \/ UNCHANGED job
  BY DEF CreateIntent, HedgeInv, Shapes
<1>3. QED
  BY <1>1, <1>2, InsertKeeps, OutsideKeeps

LEMMA RecordFailureKeeps ==
    ASSUME HedgeInv, NEW e \in Jobs, RecordFailure(e)
    PROVE  HedgeInv'
<1>1. /\ gateway' \in [Jobs -> {"idle", "create", "record"}]
      /\ faults' \in 0 .. MaxFaults /\ reorgs' \in 0 .. MaxReorgs
      /\ event' \in [Jobs -> {"none", "canonical", "removed", "restored"}]
      /\ aged' \subseteq Jobs
      /\ UNCHANGED <<event, order, wire, aged, wk, reorgs, faults, posts>>
  BY DEF RecordFailure, HedgeInv, Shapes
<1>2. CASE UNCHANGED job
  BY <1>1, <1>2, OutsideKeeps
<1> DEFINE row == [job[e] EXCEPT !.status = "failed", !.error = "intent"]
<1>3. ASSUME job[e].status \in {"absent", "queued", "failed"}, job[e].owner = None,
             job' = [job EXCEPT ![e].status = "failed", ![e].error = "intent"]
      PROVE  HedgeInv'
  <2>1. job[e] \in Rows /\ job \in [Jobs -> Rows] /\ job[e].filled \in Int
    BY HedgeAssumption DEF HedgeAssumption, HedgeInv, Shapes, Rows
  <2>2. /\ row \in Rows /\ row.status = "failed" /\ row.error = "intent"
        /\ row.submitted = job[e].submitted /\ row.owner = None
        /\ row.filled = job[e].filled
    BY <1>3, <2>1 DEF Rows
  <2>3. job' = [job EXCEPT ![e] = row]
    BY <1>3, <2>1
  <2> HIDE DEF row
  <2>4. QED
    BY <1>1, <2>2, <2>3, RowKeeps
<1>4. QED
  BY <1>2, <1>3 DEF RecordFailure

LEMMA ReconcileKeeps ==
    ASSUME HedgeInv, NEW e \in Jobs, ReconcileCanonical(e) \/ ReconcileRemoved(e)
    PROVE  HedgeInv'
<1>1. /\ gateway' \in [Jobs -> {"idle", "create", "record"}]
      /\ faults' \in 0 .. MaxFaults
      /\ UNCHANGED <<event, order, wire, aged, wk, reorgs, faults, posts>>
  BY DEF ReconcileCanonical, ReconcileRemoved, HedgeInv, Shapes
<1>2. CASE ReconcileCanonical(e)
  BY <1>1, <1>2, InsertKeeps DEF ReconcileCanonical
<1>3. CASE ReconcileRemoved(e)
  <2>1. /\ job' = [job EXCEPT ![e] = Absent] /\ job[e].filled = 0
        /\ job[e].submitted = Absent.submitted
    BY <1>3 DEF ReconcileRemoved, HedgeInv, Shapes, Rows, Absent
  <2>2. PICK row \in Rows : row = Absent
    BY QueuedRow
  <2>3. /\ row.submitted = job[e].submitted /\ row.filled = job[e].filled
        /\ ~row.submitted
        /\ row.status = "absent" /\ row.owner = None
        /\ job' = [job EXCEPT ![e] = row]
    BY <2>1, <2>2, QueuedRow
  <2>4. QED
    BY <1>1, <2>3, RowKeeps
<1>4. QED
  BY <1>2, <1>3

LEMMA ExpireLeaseKeeps ==
    ASSUME HedgeInv, NEW e \in Jobs, ExpireLease(e)
    PROVE  HedgeInv'
<1>1. /\ gateway' \in [Jobs -> {"idle", "create", "record"}]
      /\ faults' \in 0 .. MaxFaults
      /\ UNCHANGED <<event, order, wire, aged, wk, reorgs, posts>>
  BY HedgeAssumption DEF HedgeAssumption, ExpireLease, Fault, HedgeInv, Shapes
<1> DEFINE row == [job[e] EXCEPT !.expired = TRUE]
<1>2. job[e] \in Rows /\ job \in [Jobs -> Rows] /\ job[e].filled \in Int
  BY HedgeAssumption DEF HedgeAssumption, HedgeInv, Shapes, Rows
<1>3. /\ row \in Rows /\ row.status = job[e].status /\ row.error = job[e].error
      /\ row.submitted = job[e].submitted /\ row.owner = job[e].owner
      /\ row.filled = job[e].filled
  BY <1>2 DEF Rows
<1>4. job' = [job EXCEPT ![e] = row]
  BY <1>2 DEF ExpireLease
<1>5. /\ job[e].status # "queued" => job[e].owner = None
      /\ job[e].status = "absent" => ~job[e].submitted
  BY DEF HedgeInv, RowInv
<1> HIDE DEF row
<1>6. /\ row.status = "absent" => ~row.submitted
      /\ row.status # "queued" => row.owner = None
      /\ row.owner \in {None, job[e].owner}
  BY <1>3, <1>5
<1>7. QED
  BY <1>1, <1>3, <1>4, <1>6, RowKeeps

\* Settlement events, the start of a process, and time.
LEMMA EnvironmentKeeps ==
    ASSUME HedgeInv,
           \/ Initialize
           \/ \E e \in Jobs : Settle(e) \/ RemoveSettlement(e) \/ Reactivate(e) \/ Age(e)
           \/ UNCHANGED vars
    PROVE  HedgeInv'
<1>1. UNCHANGED <<job, order, wire, wk, posts>>
  BY DEF Initialize, Settle, RemoveSettlement, Reactivate, Age, vars
<1>2. /\ event' \in [Jobs -> {"none", "canonical", "removed", "restored"}]
      /\ aged' \subseteq Jobs
      /\ gateway' \in [Jobs -> {"idle", "create", "record"}]
      /\ reorgs' \in 0 .. MaxReorgs /\ faults' \in 0 .. MaxFaults
  BY HedgeAssumption
     DEF HedgeAssumption, HedgeInv, Shapes, Initialize, Settle, RemoveSettlement, Reactivate,
         Age, vars
<1>3. QED
  BY <1>1, <1>2, OutsideKeeps
-----------------------------------------------------------------------------
LEMMA InitEstablishes == Init => HedgeInv
<1> SUFFICES ASSUME Init
             PROVE  HedgeInv
  OBVIOUS
<1>1. Shapes
  <2>1. job \in [Jobs -> Rows]
    BY QueuedRow DEF Init
  <2>2. wk \in [Workers -> Runs] /\ \A w \in Workers : wk[w].at = "idle"
    BY IdleRun DEF Init, Idle
  <2>3. order \in [Jobs -> Orders]
    BY HedgeAssumption DEF HedgeAssumption, Init, Orders
  <2>4. /\ event \in [Jobs -> {"none", "canonical", "removed", "restored"}]
        /\ wire \subseteq Jobs /\ aged \subseteq Jobs
        /\ gateway \in [Jobs -> {"idle", "create", "record"}]
        /\ reorgs \in 0 .. MaxReorgs /\ faults \in 0 .. MaxFaults
        /\ posts \in [Jobs -> Nat]
    BY HedgeAssumption DEF HedgeAssumption, Init
  <2>5. QED
    BY <2>1, <2>2, <2>3, <2>4 DEF Shapes
<1>2. \A e \in Jobs : RowInv(e) /\ OrderInv(e)
  BY QueuedRow, HedgeAssumption DEF HedgeAssumption, Init, RowInv, OrderInv, Absent
<1>3. \A w \in Workers : GotTrue(w) /\ LeaseInv(w)
  BY DEF Init, Idle, NoAnswer, GotTrue, LeaseInv
<1>4. OneSubmits
  BY DEF Init, Idle, OneSubmits, Submitting
<1>5. QED
  BY <1>1, <1>2, <1>3, <1>4 DEF HedgeInv

LEMMA WorkKeeps ==
    ASSUME HedgeInv, NEW w \in Workers, Work(w)
    PROVE  HedgeInv'
  BY PrepareKeeps, QueryKeeps, ObserveKeeps, AuthorizeCancelKeeps, CancelReachedKeeps,
     CancelLostKeeps, AuthorizeKeeps, SubmitKeeps, ApplyKeeps, FailKeeps, RetryKeeps
     DEF Work

LEMMA NextKeeps == HedgeInv /\ [Next]_vars => HedgeInv'
<1> SUFFICES ASSUME HedgeInv, [Next]_vars
             PROVE  HedgeInv'
  OBVIOUS
<1>1. ASSUME NEW w \in Workers,
             Work(w) \/ Interrupt(w) \/ \E e \in Jobs : Claim(w, e)
      PROVE  HedgeInv'
  BY <1>1, WorkKeeps, InterruptKeeps, ClaimKeeps
<1>2. ASSUME NEW e \in Jobs,
             \/ CreateIntent(e) \/ RecordFailure(e)
             \/ ReconcileCanonical(e) \/ ReconcileRemoved(e)
             \/ ExpireLease(e) \/ Arrive(e) \/ Trade(e)
      PROVE  HedgeInv'
  BY <1>2, CreateIntentKeeps, RecordFailureKeeps, ReconcileKeeps, ExpireLeaseKeeps,
     ArriveKeeps, TradeKeeps
<1>3. CASE \/ Initialize
           \/ \E e \in Jobs : Settle(e) \/ RemoveSettlement(e) \/ Reactivate(e) \/ Age(e)
           \/ UNCHANGED vars
  BY <1>3, EnvironmentKeeps
<1>4. QED
  BY <1>1, <1>2, <1>3 DEF Next

LEMMA HedgeInvariant == Spec => []HedgeInv
  BY InitEstablishes, NextKeeps, PTL DEF Spec

(***************************************************************************)
(* However many workers stall, crash and take over each other's leases, at *)
(* most one POST is ever sent for a settlement (authorizeSubmission).      *)
(***************************************************************************)
THEOREM OneOrderPosted == Spec => []OneOrder
<1>1. HedgeInv => OneOrder
  BY DEF HedgeInv, OrderInv, OneOrder
<1>2. QED
  BY <1>1, HedgeInvariant, PTL

(***************************************************************************)
(* Recorded fills never exceed what the venue executed, and a filled row   *)
(* is a filled order (applyOrderResult, completeTerminal).                 *)
(***************************************************************************)
THEOREM FillsRecordedAreReal == Spec => []FillsAreReal
<1>1. HedgeInv => FillsAreReal
  BY DEF HedgeInv, RowInv, FillsAreReal
<1>2. QED
  BY <1>1, HedgeInvariant, PTL

(***************************************************************************)
(* A job that a worker failed has no order that may still trade, and no    *)
(* fill that was not recorded (handleJobError, completeFailed).            *)
(***************************************************************************)
THEOREM WorkersFailOnlySettled == Spec => []FailedIsSettled
<1>1. HedgeInv => FailedIsSettled
  BY DEF HedgeInv, RowInv, FailedIsSettled
<1>2. QED
  BY <1>1, HedgeInvariant, PTL

-----------------------------------------------------------------------------
(* What a step may never do to a row.                                      *)

RowKept(e) ==
    /\ job[e].submitted => job'[e].submitted
    /\ job[e].filled <= job'[e].filled
    /\ job[e].status = "filled" => job'[e] = job[e]
    /\ job[e].status = "failed" => job'[e].status = "failed"

RowsKept == \A e \in Jobs : RowKept(e)

LEMMA SameRowsKept ==
    ASSUME HedgeInv, UNCHANGED job
    PROVE  RowsKept
<1>1. \A e \in Jobs : job[e].filled \in Int
  BY HedgeAssumption DEF HedgeAssumption, HedgeInv, Shapes, Rows
<1>2. QED
  BY <1>1 DEF RowsKept, RowKept

LEMMA OneRowKept ==
    ASSUME HedgeInv, NEW e \in Jobs, NEW row, job' = [job EXCEPT ![e] = row],
           job[e].submitted => row.submitted,
           job[e].filled <= row.filled,
           job[e].status # "filled",
           job[e].status = "failed" => row.status = "failed"
    PROVE  RowsKept
<1>1. /\ \A f \in Jobs : job[f].filled \in Int
      /\ job'[e] = row /\ \A f \in Jobs \ {e} : job'[f] = job[f]
  BY HedgeAssumption DEF HedgeAssumption, HedgeInv, Shapes, Rows
<1>2. QED
  BY <1>1 DEF RowsKept, RowKept

\* Gateways and reconciliation.
LEMMA IntentsKept ==
    ASSUME HedgeInv, NEW e \in Jobs,
           \/ CreateIntent(e) \/ RecordFailure(e)
           \/ ReconcileCanonical(e) \/ ReconcileRemoved(e)
    PROVE  RowsKept
<1>1. job[e] \in Rows /\ job \in [Jobs -> Rows] /\ job[e].filled \in Int
  BY HedgeAssumption DEF HedgeAssumption, HedgeInv, Shapes, Rows
<1>2. CASE UNCHANGED job
  BY <1>2, SameRowsKept
<1>3. CASE job[e].status = "absent" /\ job' = [job EXCEPT ![e] = Queued]
  <2>1. ~job[e].submitted
    BY <1>3 DEF HedgeInv, RowInv
  <2>2. job[e].filled <= Queued.filled
    BY <2>1, AbsentIsUnsent, QueuedRow
  <2>3. QED
    BY <1>3, <2>1, <2>2, OneRowKept
<1>4. CASE RecordFailure(e) /\ job' # job
  <2> DEFINE row == [job[e] EXCEPT !.status = "failed", !.error = "intent"]
  <2>1. job[e].status # "filled" /\ job' = [job EXCEPT ![e] = row]
    BY <1>1, <1>4 DEF RecordFailure
  <2>2. row.submitted = job[e].submitted /\ row.filled = job[e].filled /\ row.status = "failed"
    BY <1>1 DEF Rows
  <2> HIDE DEF row
  <2>3. job[e].filled <= row.filled
    BY <1>1, <2>2
  <2>4. QED
    BY <2>1, <2>2, <2>3, OneRowKept
<1>5. CASE ReconcileRemoved(e)
  <2>1. /\ job' = [job EXCEPT ![e] = Absent] /\ job[e].filled = 0
        /\ job[e].status = "queued" /\ ~job[e].submitted
    BY <1>5 DEF ReconcileRemoved
  <2>2. job[e].filled <= Absent.filled
    BY <2>1, QueuedRow
  <2>3. QED
    BY <2>1, <2>2, OneRowKept
<1>6. QED
  BY <1>2, <1>3, <1>4, <1>5 DEF CreateIntent, ReconcileCanonical, Insert

\* A queued row of which marks, the owner, the lease or the status change.
LEMMA MarksKept ==
    ASSUME HedgeInv, NEW e \in Jobs, job[e].status = "queued",
           \A f \in Jobs \ {e} : job'[f] = job[f],
           job[e].submitted => job'[e].submitted,
           job'[e].filled = job[e].filled
    PROVE  RowsKept
<1>1. \A f \in Jobs : job[f].filled \in Int
  BY HedgeAssumption DEF HedgeAssumption, HedgeInv, Shapes, Rows
<1>2. QED
  BY <1>1 DEF RowsKept, RowKept

\* Claims, and leases that run out.
LEMMA LeasesKept ==
    ASSUME HedgeInv, NEW e \in Jobs, ExpireLease(e) \/ \E w \in Workers : Claim(w, e)
    PROVE  RowsKept
<1>1. job[e] \in Rows /\ job \in [Jobs -> Rows] /\ job[e].status = "queued"
  BY DEF HedgeInv, Shapes, RowInv, ExpireLease, Claim
<1>2. CASE ExpireLease(e)
  <2>1. /\ \A f \in Jobs \ {e} : job'[f] = job[f]
        /\ job'[e].submitted = job[e].submitted /\ job'[e].filled = job[e].filled
    BY <1>1, <1>2 DEF ExpireLease, Rows
  <2>2. QED
    BY <1>1, <2>1, MarksKept
<1>3. ASSUME NEW w \in Workers, Claim(w, e)
      PROVE  RowsKept
  <2>1. /\ \A f \in Jobs \ {e} : job'[f] = job[f]
        /\ job'[e].submitted = job[e].submitted /\ job'[e].filled = job[e].filled
    BY <1>1, <1>3 DEF Claim, Rows
  <2>2. QED
    BY <1>1, <2>1, MarksKept
<1>4. QED
  BY <1>2, <1>3

\* A step of a worker writes the row it has the lease of.
LEMMA WorkKept ==
    ASSUME HedgeInv, NEW w \in Workers, Work(w)
    PROVE  RowsKept
<1>1. CASE UNCHANGED job
  BY <1>1, SameRowsKept
<1>2. PICK e \in Jobs : e = wk[w].job
  BY DEF HedgeInv, Shapes, Work, Prepare, QueryAnswered, QueryFailed, Observe, AuthorizeCancel,
         CancelReached, CancelLost, Authorize, Submit, Apply, Fail, Retry
<1>3. job[e] \in Rows /\ job \in [Jobs -> Rows]
  BY DEF HedgeInv, Shapes
<1>4. CASE (Observe(w) \/ AuthorizeCancel(w) \/ Authorize(w)) /\ job' # job
  <2>1. /\ Leased(w)
        /\ \/ job' = [job EXCEPT ![e].submitted = TRUE]
           \/ job' = [job EXCEPT ![e].cancel = TRUE]
    BY <1>2, <1>4 DEF Observe, AuthorizeCancel, Authorize
  <2>2. /\ job[e].status = "queued" /\ \A f \in Jobs \ {e} : job'[f] = job[f]
        /\ job[e].submitted => job'[e].submitted
        /\ job'[e].filled = job[e].filled
    BY <1>2, <1>3, <2>1 DEF Leased, Rows
  <2>3. QED
    BY <2>2, MarksKept
<1>5. CASE (Fail(w) \/ Retry(w)) /\ job' # job
  <2>1. /\ Leased(w)
        /\ \/ job' = [job EXCEPT ![e] = [job[e] EXCEPT !.status = "failed",
                         !.error = "worker", !.owner = None, !.expired = FALSE]]
           \/ job' = [job EXCEPT ![e].owner = None, ![e].expired = FALSE]
    BY <1>2, <1>3, <1>5 DEF Fail, Retry
  <2>2. /\ job[e].status = "queued" /\ \A f \in Jobs \ {e} : job'[f] = job[f]
        /\ job'[e].submitted = job[e].submitted /\ job'[e].filled = job[e].filled
    <3>1. CASE job' = [job EXCEPT ![e] = [job[e] EXCEPT !.status = "failed",
                          !.error = "worker", !.owner = None, !.expired = FALSE]]
      <4> DEFINE row == [job[e] EXCEPT !.status = "failed", !.error = "worker",
                           !.owner = None, !.expired = FALSE]
      <4>1. row.submitted = job[e].submitted /\ row.filled = job[e].filled
        BY <1>3 DEF Rows
      <4>2. job' = [job EXCEPT ![e] = row]
        BY <3>1
      <4> HIDE DEF row
      <4>3. QED
        BY <1>2, <1>3, <2>1, <4>1, <4>2 DEF Leased
    <3>2. CASE job' = [job EXCEPT ![e].owner = None, ![e].expired = FALSE]
      BY <1>2, <1>3, <2>1, <3>2 DEF Leased, Rows
    <3>3. QED
      BY <2>1, <3>1, <3>2
  <2>3. QED
    BY <2>2, MarksKept
<1>6. CASE Apply(w) /\ job' # job
  <2>1. PICK status, error :
            /\ Leased(w) /\ wk[w].got.done >= job[wk[w].job].filled
            /\ Record(w, status, error)
    BY <1>6, Zenon DEF Apply
  <2>2. PICK row :
            /\ job' = [job EXCEPT ![e] = row]
            /\ row.submitted /\ row.filled = wk[w].got.done
    <3> DEFINE row == [job[e] EXCEPT !.status = status, !.error = error, !.submitted = TRUE,
                         !.filled = wk[w].got.done,
                         !.owner = IF status = "queued" THEN w ELSE None,
                         !.expired = status = "queued" /\ job[e].expired]
    <3>1. job' = [job EXCEPT ![e] = row]
      BY <1>2, <2>1 DEF Record
    <3>2. row.submitted /\ row.filled = wk[w].got.done
      BY <1>3 DEF Rows
    <3> HIDE DEF row
    <3>3. QED
      BY <3>1, <3>2
  <2>3. job[e].filled \in Int /\ wk[w].got.done \in Int
    BY <1>3, HedgeAssumption DEF HedgeAssumption, HedgeInv, Shapes, Rows, Runs, Answers
  <2>4. job[e].filled <= row.filled /\ job[e].status = "queued"
    BY <1>2, <2>1, <2>2, <2>3 DEF Leased
  <2>5. QED
    BY <2>2, <2>4, OneRowKept
<1>7. QED
  BY <1>1, <1>4, <1>5, <1>6
     DEF Work, Prepare, QueryAnswered, QueryFailed, CancelReached, CancelLost, Submit

LEMMA StepKeepsRows == HedgeInv /\ [Next]_vars => RowsKept
<1> SUFFICES ASSUME HedgeInv, [Next]_vars
             PROVE  RowsKept
  OBVIOUS
<1>1. ASSUME NEW e \in Jobs,
             \/ CreateIntent(e) \/ RecordFailure(e)
             \/ ReconcileCanonical(e) \/ ReconcileRemoved(e)
             \/ ExpireLease(e) \/ \E w \in Workers : Claim(w, e)
      PROVE  RowsKept
  BY <1>1, IntentsKept, LeasesKept
<1>2. ASSUME NEW w \in Workers, Work(w)
      PROVE  RowsKept
  BY <1>2, WorkKept
<1>3. CASE \/ Initialize \/ UNCHANGED vars
           \/ \E e \in Jobs : \/ Settle(e) \/ RemoveSettlement(e) \/ Reactivate(e)
                              \/ Arrive(e) \/ Trade(e) \/ Age(e)
           \/ \E w \in Workers : Interrupt(w)
  <2>1. UNCHANGED job
    BY <1>3 DEF Initialize, Settle, RemoveSettlement, Reactivate, Arrive, Trade, Age,
                Interrupt, vars
  <2>2. QED
    BY <2>1, SameRowsKept
<1>4. QED
  BY <1>1, <1>2, <1>3 DEF Next

(***************************************************************************)
(* The evidence of an order outlives every other writer: no step unmarks a *)
(* submitted row, lowers its fills, or changes a filled row, and a failed  *)
(* row stays failed (recordFailure, removeHedgeIntentBySettlementEvent).   *)
(***************************************************************************)
THEOREM EvidenceIsKept == Spec => EvidenceKept
<1>1. HedgeInv /\ [Next]_vars =>
          [\A e \in Jobs :
              /\ job[e].submitted => job'[e].submitted
              /\ job[e].filled <= job'[e].filled
              /\ job[e].status = "filled" => job'[e] = job[e]
              /\ job[e].status = "failed" => job'[e].status = "failed"]_vars
  BY StepKeepsRows DEF RowsKept, RowKept
<1>2. QED
  BY <1>1, HedgeInvariant, PTL DEF Spec, EvidenceKept

-----------------------------------------------------------------------------
(* The position.                                                           *)

\* The projection is a sum of one share for each settlement.
LEMMA ProjectionIsSum ==
    ASSUME NEW settled, NEW rows \in [Jobs -> Rows]
    PROVE  /\ Share(settled, rows) \in [Jobs -> Int]
           /\ Projection(settled, rows) = Sum(Share(settled, rows), Jobs)
           /\ Projection(settled, rows) \in Int
<1>1. PICK f : f = Share(settled, rows)
  OBVIOUS
<1>2. Share(settled, rows) \in [Jobs -> Int]
  <2>1. \A e \in Jobs : rows[e].filled \in Int
    BY HedgeAssumption DEF HedgeAssumption, Rows
  <2>2. QED
    BY <2>1, HedgeAssumption DEF HedgeAssumption, Share
<1>3. Projection(settled, rows) = Sum(Share(settled, rows), Jobs)
  BY Zenon DEF Projection, Sum
<1>4. Sum(f, Jobs) \in Int
  BY <1>1, <1>2, HedgeAssumption, SumType DEF HedgeAssumption
<1>5. QED
  BY <1>1, <1>2, <1>3, <1>4

\* A step moves the position by as much as the share of the one settlement it
\* is about.
LEMMA MovedByShare ==
    ASSUME HedgeInv, InventoryExact, NEW e \in Jobs,
           job' \in [Jobs -> Rows],
           \A f \in Jobs \ {e} : event'[f] = event[f] /\ job'[f].filled = job[f].filled,
           inventory' = inventory + (Share(event', job')[e] - Share(event, job)[e])
    PROVE  InventoryExact'
<1>1. job \in [Jobs -> Rows] /\ IsFiniteSet(Jobs)
  BY HedgeAssumption DEF HedgeAssumption, HedgeInv, Shapes
<1>2. PICK old \in [Jobs -> Int] : old = Share(event, job)
  BY <1>1, ProjectionIsSum
<1>3. PICK new \in [Jobs -> Int] : new = Share(event', job')
  BY ProjectionIsSum
<1>4. \A f \in Jobs \ {e} : old[f] = new[f]
  BY <1>2, <1>3 DEF Share
<1>5. Sum(new, Jobs) = Sum(old, Jobs) + (new[e] - old[e])
  BY <1>1, <1>4, SumUpdate
<1>6. inventory = Sum(old, Jobs)
  <2>1. Projection(event, job) = Sum(Share(event, job), Jobs)
    BY <1>1, ProjectionIsSum
  <2>2. QED
    BY <1>2, <2>1 DEF InventoryExact
<1>7. Projection(event', job') = Sum(new, Jobs)
  <2>1. Projection(event', job') = Sum(Share(event', job'), Jobs)
    BY ProjectionIsSum
  <2>2. QED
    BY <1>3, <2>1
<1>8. inventory' = Projection(event', job')
  BY <1>2, <1>3, <1>5, <1>6, <1>7
<1>9. QED
  BY <1>8 DEF InventoryExact

\* Steps that change neither an event nor a recorded fill.
FillsSame == \A e \in Jobs : job'[e].filled = job[e].filled

LEMMA SameFillsKeep ==
    ASSUME InventoryExact, FillsSame, UNCHANGED <<event, inventory>>
    PROVE  InventoryExact'
<1>1. Share(event, job) = Share(event', job')
  BY DEF FillsSame, Share
<1>2. \A settled, rows : Projection(settled, rows) = Sum(Share(settled, rows), Jobs)
  BY Zenon DEF Projection, Sum
<1>3. Projection(event, job) = Projection(event', job')
  BY <1>1, <1>2, Zenon
<1>4. QED
  BY <1>3 DEF InventoryExact

LEMMA OneFillSame ==
    ASSUME HedgeInv, NEW e \in Jobs, NEW row, job' = [job EXCEPT ![e] = row],
           row.filled = job[e].filled
    PROVE  FillsSame
  BY DEF HedgeInv, Shapes, FillsSame

LEMMA IntentsFillNothing ==
    ASSUME HedgeInv, NEW e \in Jobs,
           \/ CreateIntent(e) \/ RecordFailure(e)
           \/ ReconcileCanonical(e) \/ ReconcileRemoved(e)
    PROVE  FillsSame
<1>1. job[e] \in Rows /\ job \in [Jobs -> Rows]
  BY DEF HedgeInv, Shapes
<1>2. CASE UNCHANGED job
  BY <1>2 DEF FillsSame
<1>3. CASE job[e].status = "absent" /\ job' = [job EXCEPT ![e] = Queued]
  <2>1. ~job[e].submitted
    BY <1>3 DEF HedgeInv, RowInv
  <2>2. Queued.filled = job[e].filled
    BY <2>1, AbsentIsUnsent, QueuedRow
  <2>3. QED
    BY <1>3, <2>2, OneFillSame
<1>4. CASE RecordFailure(e) /\ job' # job
  <2> DEFINE row == [job[e] EXCEPT !.status = "failed", !.error = "intent"]
  <2>1. job' = [job EXCEPT ![e] = row]
    BY <1>1, <1>4 DEF RecordFailure
  <2>2. row.filled = job[e].filled
    BY <1>1 DEF Rows
  <2> HIDE DEF row
  <2>3. QED
    BY <2>1, <2>2, OneFillSame
<1>5. CASE ReconcileRemoved(e)
  <2>1. job' = [job EXCEPT ![e] = Absent] /\ job[e].filled = 0
    BY <1>5 DEF ReconcileRemoved
  <2>2. Absent.filled = job[e].filled
    BY <2>1, QueuedRow
  <2>3. QED
    BY <2>1, <2>2, OneFillSame
<1>6. QED
  BY <1>2, <1>3, <1>4, <1>5 DEF CreateIntent, ReconcileCanonical, Insert

LEMMA LeasesFillNothing ==
    ASSUME HedgeInv, NEW e \in Jobs, ExpireLease(e) \/ \E w \in Workers : Claim(w, e)
    PROVE  FillsSame
<1>1. job[e] \in Rows /\ job \in [Jobs -> Rows]
  BY DEF HedgeInv, Shapes
<1>2. CASE ExpireLease(e)
  BY <1>1, <1>2 DEF ExpireLease, Rows, FillsSame
<1>3. ASSUME NEW w \in Workers, Claim(w, e)
      PROVE  FillsSame
  BY <1>1, <1>3 DEF Claim, Rows, FillsSame
<1>4. QED
  BY <1>2, <1>3

\* Of the steps of a worker, only the one that applies an answer records fills.
LEMMA WorkFillsNothing ==
    ASSUME HedgeInv, NEW w \in Workers, Work(w), ~ Apply(w)
    PROVE  FillsSame
<1>1. CASE UNCHANGED job
  BY <1>1 DEF FillsSame
<1>2. PICK e \in Jobs : e = wk[w].job
  BY DEF HedgeInv, Shapes, Work, Prepare, QueryAnswered, QueryFailed, Observe, AuthorizeCancel,
         CancelReached, CancelLost, Authorize, Submit, Apply, Fail, Retry
<1>3. job[e] \in Rows /\ job \in [Jobs -> Rows]
  BY DEF HedgeInv, Shapes
<1>4. CASE (Observe(w) \/ AuthorizeCancel(w) \/ Authorize(w)) /\ job' # job
  <2>1. \/ job' = [job EXCEPT ![e].submitted = TRUE]
        \/ job' = [job EXCEPT ![e].cancel = TRUE]
    BY <1>2, <1>4 DEF Observe, AuthorizeCancel, Authorize
  <2>2. QED
    BY <1>3, <2>1 DEF Rows, FillsSame
<1>5. CASE Retry(w) /\ job' # job
  <2>1. job' = [job EXCEPT ![e].owner = None, ![e].expired = FALSE]
    BY <1>2, <1>5 DEF Retry
  <2>2. QED
    BY <1>3, <2>1 DEF Rows, FillsSame
<1>6. CASE Fail(w) /\ job' # job
  <2> DEFINE row == [job[e] EXCEPT !.status = "failed", !.error = "worker",
                       !.owner = None, !.expired = FALSE]
  <2>1. job' = [job EXCEPT ![e] = row]
    BY <1>2, <1>3, <1>6 DEF Fail
  <2>2. row.filled = job[e].filled
    BY <1>3 DEF Rows
  <2> HIDE DEF row
  <2>3. QED
    BY <2>1, <2>2, OneFillSame
<1>7. QED
  BY <1>1, <1>4, <1>5, <1>6
     DEF Work, Prepare, QueryAnswered, QueryFailed, CancelReached, CancelLost, Submit

LEMMA ApplyMoves ==
    ASSUME HedgeInv, InventoryExact, HedgeInv', NEW w \in Workers, Apply(w)
    PROVE  InventoryExact'
<1>1. UNCHANGED event
  BY DEF Apply
<1>2. CASE UNCHANGED <<job, inventory>>
  BY <1>1, <1>2, SameFillsKeep DEF FillsSame
<1>3. PICK e \in Jobs : e = wk[w].job
  BY DEF HedgeInv, Shapes, Apply
<1>4. ASSUME NEW status, NEW error, Record(w, status, error)
      PROVE  InventoryExact'
  <2>1. job \in [Jobs -> Rows] /\ job' \in [Jobs -> Rows] /\ wk[w] \in Runs
    BY DEF HedgeInv, Shapes
  <2>2. PICK row :
            /\ job' = [job EXCEPT ![e] = row]
            /\ row.filled = wk[w].got.done
    <3> DEFINE row == [job[e] EXCEPT !.status = status, !.error = error, !.submitted = TRUE,
                         !.filled = wk[w].got.done,
                         !.owner = IF status = "queued" THEN w ELSE None,
                         !.expired = status = "queued" /\ job[e].expired]
    <3>1. job' = [job EXCEPT ![e] = row]
      BY <1>3, <1>4 DEF Record
    <3>2. row.filled = wk[w].got.done
      BY <2>1 DEF Rows
    <3> HIDE DEF row
    <3>3. QED
      BY <3>1, <3>2
  <2>3. PICK n \in Int : n = wk[w].got.done
    BY <2>1, HedgeAssumption DEF HedgeAssumption, Runs, Answers
  <2>4. /\ job'[e].filled = n
        /\ \A f \in Jobs \ {e} : event'[f] = event[f] /\ job'[f].filled = job[f].filled
    BY <1>1, <2>1, <2>2, <2>3
  <2>5. inventory' = inventory - (n - job[e].filled)
    BY <1>3, <1>4, <2>3 DEF Record
  <2>6. inventory \in Int /\ job[e].filled \in Int
    BY <2>1, ProjectionIsSum, HedgeAssumption DEF HedgeAssumption, InventoryExact, Rows
  <2>7. PICK a \in Int : /\ Share(event, job)[e] = a - job[e].filled
                         /\ Share(event', job')[e] = a - n
    BY <1>1, <2>4, HedgeAssumption DEF HedgeAssumption, Share
  <2>8. inventory' = inventory + (Share(event', job')[e] - Share(event, job)[e])
    BY <2>3, <2>5, <2>6, <2>7
  <2>9. QED
    BY <2>1, <2>4, <2>8, MovedByShare
<1>5. QED
  BY <1>2, <1>4, Zenon DEF Apply

LEMMA SettleMoves ==
    ASSUME HedgeInv, InventoryExact, NEW e \in Jobs, Settle(e)
    PROVE  InventoryExact'
<1>1. /\ event[e] = "none" /\ event' = [event EXCEPT ![e] = "canonical"]
      /\ inventory' = inventory + Amount /\ UNCHANGED job
  BY DEF Settle
<1>2. /\ event \in [Jobs -> {"none", "canonical", "removed", "restored"}]
      /\ job \in [Jobs -> Rows]
  BY DEF HedgeInv, Shapes
<1>3. inventory \in Int /\ job[e].filled \in Int /\ Amount \in Int
  BY <1>2, ProjectionIsSum, HedgeAssumption DEF HedgeAssumption, InventoryExact, Rows
<1>4. /\ event'[e] = "canonical"
      /\ \A f \in Jobs \ {e} : event'[f] = event[f] /\ job'[f].filled = job[f].filled
  BY <1>1, <1>2
<1>5. /\ Share(event, job)[e] = 0 - job[e].filled
      /\ Share(event', job')[e] = Amount - job[e].filled
  BY <1>1, <1>4 DEF Share
<1>6. inventory' = inventory + (Share(event', job')[e] - Share(event, job)[e])
  BY <1>1, <1>3, <1>5
<1>7. job' \in [Jobs -> Rows]
  BY <1>1, <1>2
<1>8. QED
  BY <1>4, <1>6, <1>7, MovedByShare

LEMMA NextMoves == HedgeInv /\ HedgeInv' /\ InventoryExact /\ [Next]_vars => InventoryExact'
<1> SUFFICES ASSUME HedgeInv, HedgeInv', InventoryExact, [Next]_vars
             PROVE  InventoryExact'
  OBVIOUS
<1>1. CASE Initialize \/ \E e \in Jobs : RemoveSettlement(e) \/ Reactivate(e)
  <2>1. inventory' = Projection(event', job) /\ job' = job
    BY <1>1 DEF Initialize, RemoveSettlement, Reactivate
  <2>2. QED
    BY <2>1 DEF InventoryExact
<1>2. ASSUME NEW e \in Jobs, Settle(e)
      PROVE  InventoryExact'
  BY <1>2, SettleMoves
<1>3. ASSUME NEW e \in Jobs,
             \/ CreateIntent(e) \/ RecordFailure(e)
             \/ ReconcileCanonical(e) \/ ReconcileRemoved(e)
             \/ ExpireLease(e) \/ \E w \in Workers : Claim(w, e)
      PROVE  InventoryExact'
  <2>1. FillsSame
    BY <1>3, IntentsFillNothing, LeasesFillNothing
  <2>2. UNCHANGED <<event, inventory>>
    BY <1>3 DEF CreateIntent, RecordFailure, ReconcileCanonical, ReconcileRemoved,
                ExpireLease, Claim
  <2>3. QED
    BY <2>1, <2>2, SameFillsKeep
<1>4. ASSUME NEW w \in Workers, Work(w)
      PROVE  InventoryExact'
  <2>1. CASE Apply(w)
    BY <2>1, ApplyMoves
  <2>2. CASE ~ Apply(w)
    <3>1. FillsSame
      BY <1>4, <2>2, WorkFillsNothing
    <3>2. UNCHANGED <<event, inventory>>
      BY <1>4, <2>2 DEF Work, Prepare, QueryAnswered, QueryFailed, Observe, AuthorizeCancel,
                        CancelReached, CancelLost, Authorize, Submit, Fail, Retry
    <3>3. QED
      BY <3>1, <3>2, SameFillsKeep
  <2>3. QED
    BY <2>1, <2>2
<1>5. CASE \/ UNCHANGED vars
           \/ \E e \in Jobs : Arrive(e) \/ Trade(e) \/ Age(e)
           \/ \E w \in Workers : Interrupt(w)
  <2>1. UNCHANGED <<event, job, inventory>>
    BY <1>5 DEF Arrive, Trade, Age, Interrupt, vars
  <2>2. QED
    BY <2>1, SameFillsKeep DEF FillsSame
<1>6. QED
  BY <1>1, <1>2, <1>3, <1>4, <1>5 DEF Next

LEMMA InitBalances == Init => InventoryExact
<1> SUFFICES ASSUME Init
             PROVE  InventoryExact
  OBVIOUS
<1>1. HedgeInv /\ job \in [Jobs -> Rows]
  BY InitEstablishes DEF HedgeInv, Shapes
<1>2. PICK f \in [Jobs -> Int] : f = Share(event, job)
  BY <1>1, ProjectionIsSum
<1>3. \A e \in Jobs : f[e] = 0
  BY <1>2, QueuedRow DEF Init, Share
<1>4. Sum(f, Jobs) = 0
  BY <1>3, SumZero, HedgeAssumption DEF HedgeAssumption
<1>5. Projection(event, job) = Sum(f, Jobs)
  BY <1>1, <1>2, ProjectionIsSum
<1>6. QED
  BY <1>4, <1>5 DEF Init, InventoryExact

(***************************************************************************)
(* The position moved by the deltas of settlements and of cumulative fills *)
(* is the one that a reorg or a restart rebuilds from the rows, at every   *)
(* moment (recordExecution, canonicalInventoryProjectionSql).              *)
(***************************************************************************)
THEOREM PositionIsExact == Spec => []InventoryExact
  BY InitBalances, NextMoves, HedgeInvariant, PTL DEF Spec

(***************************************************************************)
(* Every variable keeps its type; the position stays an integer because it *)
(* is a sum over finitely many settlements.                                *)
(***************************************************************************)
THEOREM HedgeTypes == Spec => []TypeOK
<1>1. HedgeInv /\ InventoryExact => TypeOK
  <2> SUFFICES ASSUME HedgeInv, InventoryExact
               PROVE  TypeOK
    OBVIOUS
  <2>1. job \in [Jobs -> Rows]
    BY DEF HedgeInv, Shapes
  <2>2. inventory \in Int
    BY <2>1, ProjectionIsSum DEF InventoryExact
  <2>3. QED
    BY <2>2 DEF HedgeInv, Shapes, TypeOK
<1>2. QED
  BY <1>1, HedgeInvariant, PositionIsExact, PTL
===============================================================================
