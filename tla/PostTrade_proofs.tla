--------------------------- MODULE PostTrade_proofs ---------------------------
(***************************************************************************)
(* Proofs about PostTrade for any settlements, gateways and workers.  The  *)
(* invariant follows the worker that owns the job at its newest revision:  *)
(* the rows of settlement_events do not change before the next revision,   *)
(* so that what its passes have taken back and restored stays so, but for  *)
(* writes that come late.  Whoever else writes is Mild: it writes what the *)
(* job wants, or late.  A worker that kept the job past a new revision may *)
(* write anything; then the job is not processed, and whoever takes the    *)
(* new revision starts over.                                               *)
(***************************************************************************)
EXTENDS PostTrade, TLAPS

Removed == {e \in Events : rows[e] = "removed"}

Known(e) == rows[e] # "absent"

\* At most one settlement is canonical, and the job wants it.  A job is leased
\* for a revision that is not processed.
JobTrue ==
    /\ \A e \in Events : rows[e] = "canonical" <=> e = job.desired
    /\ job.owner # None => job.processed < job.revision

\* A quote that points at nothing has no PnL, and whatever is projected is of a
\* settlement that was stored.
ProjectedTrue ==
    /\ quote.pnl => quote.event # None
    /\ quote.event # None => Known(quote.event)
    /\ pnl # None => Known(pnl)
    /\ \A e \in Events : hedge[e] # "none" => Known(e)

\* A gateway at work holds the reservation, unless its lease ran out.  One that
\* writes projections has stored its settlement.
GatewayTrue(g) ==
    /\ Busy(g) => gw[g].overran \/ (reservation.owner = g /\ ~reservation.expired)
    /\ gw[g].at \in {"apply", "hedge", "pnl", "submitted", "settled"} => gw[g].event # None
    /\ gw[g].at \in {"hedge", "pnl", "submitted", "settled"} => Known(gw[g].event)

WorkerTrue(r) ==
    /\ r.revision <= job.revision
    /\ r.desired # None => Known(r.desired)
    /\ r.at \in {"create", "record", "restore"} => r.desired # None

\* Nothing but a late write leaves a row of a removed settlement behind.
QuoteFree == "quote" \notin late => quote.event \in {None, job.desired}

HedgeFree(removed) == \A e \in removed : e \notin late => hedge[e] # "queued"

HedgeThere == job.desired \notin late => hedge[job.desired] # "none"

PnlThere == "pnl" \notin late => pnl = job.desired

QuoteThere == "quote" \notin late => quote.event = job.desired /\ quote.status = "settled"

\* Every row is the one the job wants, but for late writes.
Projected ==
    /\ HedgeFree(Events \ {job.desired})
    /\ PnlThere
    /\ IF job.desired = None THEN QuoteFree ELSE QuoteThere /\ HedgeThere

\* What the worker that owns the job, at its current revision, has done so far.
OwnerTrue(r) ==
    /\ r.desired = job.desired
    /\ r.at \in {"clear", "hedges", "erase", "forget"} =>
           r.removed = Removed /\ r.todo \subseteq Removed
    /\ r.at \in {"hedges", "create", "record", "restore"} => job.desired # None
    /\ r.at \in {"erase", "forget"} => job.desired = None
    /\ r.at = "clear" => ("quote" \notin late => quote.event \notin Removed \ r.todo)
    /\ r.at \in {"hedges", "erase", "forget", "create", "record", "restore"} => QuoteFree
    /\ r.at \in {"hedges", "erase", "forget"} => HedgeFree(Removed \ r.todo)
    /\ r.at \in {"create", "record", "restore"} => HedgeFree(Events \ {job.desired})
    /\ r.at \in {"record", "restore"} => HedgeThere
    /\ r.at = "erase" /\ r.todo # Removed => PnlThere
    /\ r.at = "restore" => PnlThere
    /\ r.at = "mark" => Projected

Current(w) == job.owner = w /\ wk[w].revision = job.revision

PostTradeInv ==
    /\ TypeOK
    /\ JobTrue
    /\ PointersAgree
    /\ ProjectedTrue
    /\ \A g \in Gateways : GatewayTrue(g)
    /\ \A w \in Workers : WorkerTrue(wk[w]) /\ (Current(w) => OwnerTrue(wk[w]))
    /\ job.revision # 0 /\ job.processed = job.revision => Projected

-----------------------------------------------------------------------------
(* Facts about the records of the module.                                  *)

LEMMA JobFacts ==
    ASSUME job \in [desired : MaybeEvents, revision : Nat, processed : Nat,
                    owner : Workers \cup {None}, expired : BOOLEAN]
    PROVE  /\ job.desired \in MaybeEvents /\ job.revision \in Nat /\ job.processed \in Nat
           /\ job.owner \in Workers \cup {None} /\ job.expired \in BOOLEAN
OBVIOUS

LEMMA QuoteFacts ==
    ASSUME quote \in [status : Statuses, event : MaybeEvents, hedge : MaybeEvents, pnl : BOOLEAN]
    PROVE  /\ quote.status \in Statuses /\ quote.event \in MaybeEvents
           /\ quote.hedge \in MaybeEvents /\ quote.pnl \in BOOLEAN
OBVIOUS

LEMMA GatewayFacts ==
    ASSUME gw \in [Gateways -> Gws], NEW g \in Gateways
    PROVE  /\ gw[g] \in Gws /\ gw[g].at \in GatewaySteps /\ gw[g].event \in MaybeEvents
           /\ gw[g].hedged \in BOOLEAN /\ gw[g].valued \in BOOLEAN
           /\ gw[g].overran \in BOOLEAN
BY DEF Gws

LEMMA RunFacts ==
    ASSUME wk \in [Workers -> Wks], NEW w \in Workers
    PROVE  /\ wk[w] \in Wks /\ wk[w].at \in WorkerSteps /\ wk[w].desired \in MaybeEvents
           /\ wk[w].revision \in Nat /\ wk[w].removed \subseteq Events /\ wk[w].todo \subseteq Events
BY DEF Wks

LEMMA Names == /\ None \notin Events /\ None \notin Workers /\ None \notin Gateways
               /\ "quote" \notin Events /\ "pnl" \notin Events /\ MaxFaults \in Nat
               /\ MaxReorgs \in Nat
BY PostTradeAssumption DEF PostTradeAssumption

LEMMA ServedFacts ==
    /\ Served \in Gws /\ Served.at = "done" /\ NoRequest \in Gws /\ NoRequest.at = "idle"
BY DEF Served, NoRequest, Gws, GatewaySteps, MaybeEvents

LEMMA NoJobFacts ==
    /\ NoJob \in Wks /\ NoJob.at = "idle" /\ NoJob.revision = 0 /\ NoJob.desired = None
    /\ [NoJob EXCEPT !.at = "retry"] \in Wks
    /\ [NoJob EXCEPT !.at = "retry"].revision = 0
    /\ [NoJob EXCEPT !.at = "retry"].desired = None
    /\ [NoJob EXCEPT !.at = "retry"].at = "retry"
BY DEF NoJob, Wks, WorkerSteps, MaybeEvents

-----------------------------------------------------------------------------
(* Writes of others than the owner of the job.                             *)

\* Whoever does not own the job changes a row to what the job wants, or late.
Mild ==
    /\ late \subseteq late'
    /\ "quote" \notin late' =>
           /\ quote'.event \in {quote.event, job.desired}
           /\ quote.status = "settled" => quote'.status = "settled"
    /\ "pnl" \notin late' => pnl' = pnl \/ (pnl = None /\ pnl' = job.desired)
    /\ \A e \in Events \ late' :
           \/ hedge'[e] = hedge[e]
           \/ hedge'[e] \in {"sent", "failed"}
           \/ e = job.desired /\ hedge'[e] # "none"

LEMMA NothingIsMild == UNCHANGED <<quote, pnl, hedge, late>> => Mild
BY DEF Mild

LEMMA MildFrees ==
    ASSUME TypeOK, JobTrue, UNCHANGED <<rows, job>>, Mild
    PROVE  /\ QuoteFree => QuoteFree'
           /\ \A S \in SUBSET Events : job.desired \notin S /\ HedgeFree(S) => HedgeFree(S)'
           /\ job.desired # None /\ HedgeThere => HedgeThere'
           /\ PnlThere => PnlThere'
           /\ job.desired # None /\ QuoteThere => QuoteThere'
           /\ Removed' = Removed /\ job.desired \notin Removed
<1>1. job.desired \in MaybeEvents
  BY JobFacts DEF TypeOK
<1>2. QuoteFree => QuoteFree'
  BY DEF Mild, QuoteFree
<1>3. ASSUME NEW S \in SUBSET Events, job.desired \notin S, HedgeFree(S) PROVE HedgeFree(S)'
  BY <1>3 DEF Mild, HedgeFree
<1>4. job.desired # None /\ HedgeThere => HedgeThere'
  BY <1>1 DEF Mild, HedgeThere, MaybeEvents
<1>5. PnlThere => PnlThere'
  BY DEF Mild, PnlThere
<1>6. job.desired # None /\ QuoteThere => QuoteThere'
  BY DEF Mild, QuoteThere
<1>7. Removed' = Removed
  BY DEF Removed
<1>8. job.desired \notin Removed
  BY DEF Removed, JobTrue
<1>9. QED
  BY <1>2, <1>3, <1>4, <1>5, <1>6, <1>7, <1>8

LEMMA MildKeepsProjected ==
    ASSUME TypeOK, JobTrue, UNCHANGED <<rows, job>>, Mild, Projected
    PROVE  Projected'
<1>1. /\ HedgeFree(Events \ {job.desired}) /\ PnlThere
      /\ IF job.desired = None THEN QuoteFree ELSE QuoteThere /\ HedgeThere
  BY DEF Projected
<1>2. HedgeFree(Events \ {job.desired})'
  <2>1. PICK S \in SUBSET Events : S = Events \ {job.desired} /\ S = Events \ {job'.desired}
    OBVIOUS
  <2>2. HedgeFree(S)'
    BY <1>1, <2>1, MildFrees
  <2>3. QED
    BY <2>1, <2>2 DEF HedgeFree
<1>3. QED
  BY <1>1, <1>2, MildFrees DEF Projected

LEMMA MildKeepsOwner ==
    ASSUME TypeOK, JobTrue, UNCHANGED <<rows, job>>, Mild, NEW r \in Wks, OwnerTrue(r)
    PROVE  OwnerTrue(r)'
<1>1. /\ r.at \in {"clear", "hedges", "erase", "forget"} =>
             r.removed = Removed' /\ r.todo \subseteq Removed'
      /\ r.desired = job'.desired
      /\ r.at \in {"hedges", "create", "record", "restore"} => job'.desired # None
      /\ r.at \in {"erase", "forget"} => job'.desired = None
  BY MildFrees DEF OwnerTrue
<1>2. r.at = "clear" => ("quote" \notin late' => quote'.event \notin Removed' \ r.todo)
  BY MildFrees DEF OwnerTrue, Mild
<1>3. r.at \in {"hedges", "erase", "forget", "create", "record", "restore"} => QuoteFree'
  BY MildFrees DEF OwnerTrue
<1>4. r.at \in {"hedges", "erase", "forget"} => HedgeFree(Removed \ r.todo)'
  <2>1. PICK S \in SUBSET Events : S = Removed \ r.todo /\ S = Removed' \ r.todo
    BY MildFrees DEF Removed
  <2>2. job.desired \notin S
    BY <2>1, MildFrees
  <2>3. HedgeFree(S) => HedgeFree(S)'
    BY <2>1, <2>2, MildFrees
  <2>4. QED
    BY <2>1, <2>3 DEF OwnerTrue, HedgeFree
<1>5. r.at \in {"create", "record", "restore"} => HedgeFree(Events \ {job.desired})'
  <2>1. PICK S \in SUBSET Events : S = Events \ {job.desired} /\ S = Events \ {job'.desired}
    OBVIOUS
  <2>2. HedgeFree(S) => HedgeFree(S)'
    BY <2>1, MildFrees
  <2>3. QED
    BY <2>1, <2>2 DEF OwnerTrue, HedgeFree
<1>6. r.at \in {"record", "restore"} => HedgeThere'
  BY MildFrees DEF OwnerTrue
<1>7. /\ r.at = "erase" /\ r.todo # Removed' => PnlThere'
      /\ r.at = "restore" => PnlThere'
  BY MildFrees DEF OwnerTrue
<1>8. r.at = "mark" => Projected'
  BY MildKeepsProjected DEF OwnerTrue
<1>9. QED
  BY <1>1, <1>2, <1>3, <1>4, <1>5, <1>6, <1>7, <1>8 DEF OwnerTrue

-----------------------------------------------------------------------------
(* What is left to show of a step, by the kind of its actor.               *)

LEMMA OwnerBehind ==
    ASSUME PostTradeInv, NEW w \in Workers, job.owner = w
    PROVE  job.revision # 0 /\ job.processed # job.revision
BY JobFacts, Names DEF PostTradeInv, TypeOK, JobTrue

\* A step of others than the workers that leaves the settlements alone.
LEMMA OutsideKeeps ==
    ASSUME PostTradeInv, UNCHANGED <<rows, job, wk>>, TypeOK', PointersAgree', ProjectedTrue',
           \A g \in Gateways : GatewayTrue(g)', Mild
    PROVE  PostTradeInv'
<1>1. TypeOK /\ JobTrue
  BY DEF PostTradeInv
<1>2. JobTrue'
  BY <1>1 DEF JobTrue
<1>3. ASSUME NEW w \in Workers
      PROVE  WorkerTrue(wk[w])' /\ (Current(w)' => OwnerTrue(wk[w])')
  <2>1. PICK r : r = wk[w] /\ r = wk'[w]
    OBVIOUS
  <2>2. r \in Wks
    BY <1>1, <2>1, RunFacts DEF TypeOK
  <2>3. WorkerTrue(r)'
    BY <2>1 DEF PostTradeInv, WorkerTrue, Known
  <2>4. Current(w)' => OwnerTrue(r)
    BY <2>1 DEF PostTradeInv, Current
  <2>5. OwnerTrue(r) => OwnerTrue(r)'
    BY <1>1, <2>2, MildKeepsOwner
  <2>6. WorkerTrue(wk[w])' <=> WorkerTrue(r)'
    BY <2>1 DEF WorkerTrue
  <2>7. OwnerTrue(wk[w])' <=> OwnerTrue(r)'
    BY <2>1 DEF OwnerTrue, HedgeFree
  <2>8. QED
    BY <2>3, <2>4, <2>5, <2>6, <2>7
<1>4. (job.revision # 0 /\ job.processed = job.revision)' => Projected'
  BY <1>1, MildKeepsProjected DEF PostTradeInv
<1>5. QED
  BY <1>2, <1>3, <1>4 DEF PostTradeInv

\* A step of a worker at its run: r is the run after the step.
LEMMA WorkerKeeps ==
    ASSUME PostTradeInv, NEW w \in Workers, NEW r \in Wks,
           UNCHANGED <<up, chain, reorgs, rows, job, reservation, gw>>,
           wk' = [wk EXCEPT ![w] = r],
           r.revision \in {wk[w].revision, 0}, WorkerTrue(r),
           TypeOK', PointersAgree', ProjectedTrue',
           Lost(w) => Mild,
           Current(w) /\ r.revision = job.revision => OwnerTrue(r)'
    PROVE  PostTradeInv'
<1>1. TypeOK /\ JobTrue
  BY DEF PostTradeInv
<1>2. JobTrue'
  BY <1>1 DEF JobTrue
<1>3. wk'[w] = r /\ \A v \in Workers \ {w} : wk'[v] = wk[v]
  BY <1>1 DEF TypeOK
<1>4. ASSUME NEW v \in Workers
      PROVE  WorkerTrue(wk[v])' /\ (Current(v)' => OwnerTrue(wk[v])')
  <2>1. PICK s : s = wk'[v]
    OBVIOUS
  <2>2. /\ WorkerTrue(wk[v])' <=> WorkerTrue(s)'
        /\ OwnerTrue(wk[v])' <=> OwnerTrue(s)'
    BY <2>1 DEF WorkerTrue, OwnerTrue, HedgeFree
  <2>3. WorkerTrue(s)' <=> WorkerTrue(s)
    BY DEF WorkerTrue, Known
  <2>4. CASE v = w
    <3>1. Current(w)' => Current(w) /\ r.revision = job.revision
      BY <1>3, OwnerBehind DEF Current
    <3>2. QED
      BY <1>3, <2>1, <2>2, <2>3, <2>4, <3>1
  <2>5. CASE v # w
    <3>1. s = wk[v] /\ s \in Wks
      BY <1>1, <1>3, <2>1, <2>5, RunFacts DEF TypeOK
    <3>2. WorkerTrue(s)
      BY <3>1 DEF PostTradeInv
    <3>3. ASSUME Current(v)' PROVE OwnerTrue(s)'
      <4>1. Current(v) /\ Lost(w)
        BY <2>5, <3>1, <2>1, <3>3 DEF Current, Lost
      <4>2. OwnerTrue(s)
        BY <3>1, <4>1 DEF PostTradeInv
      <4>3. QED
        BY <1>1, <3>1, <4>1, <4>2, MildKeepsOwner
    <3>4. QED
      BY <2>2, <2>3, <3>2, <3>3
  <2>6. QED
    BY <2>4, <2>5
<1>5. (job.revision # 0 /\ job.processed = job.revision)' => Projected'
  <2>1. SUFFICES ASSUME job.revision # 0 /\ job.processed = job.revision PROVE Projected'
    OBVIOUS
  <2>2. Lost(w) /\ Projected
    BY <2>1, OwnerBehind DEF PostTradeInv, Lost
  <2>3. QED
    BY <1>1, <2>2, MildKeepsProjected
<1>6. \A g \in Gateways : GatewayTrue(g)'
  BY DEF PostTradeInv, GatewayTrue, Busy, Known
<1>7. QED
  BY <1>2, <1>4, <1>5, <1>6 DEF PostTradeInv

\* A step that only moves a worker on: a retry or a failure.
LEMMA RunKeeps ==
    ASSUME PostTradeInv, NEW w \in Workers, NEW r \in Wks,
           UNCHANGED <<settlement, job, projections, overdue, reservation, gw>>,
           faults' = faults \/ Fault,
           wk' = [wk EXCEPT ![w] = r],
           r.revision \in {wk[w].revision, 0}, WorkerTrue(r),
           Current(w) /\ r.revision = job.revision => OwnerTrue(r)
    PROVE  PostTradeInv'
<1>1. TypeOK /\ PointersAgree /\ ProjectedTrue /\ JobTrue
  BY DEF PostTradeInv
<1>2. /\ UNCHANGED <<up, chain, reorgs, rows>> /\ UNCHANGED <<quote, pnl, hedge, late>>
  BY DEF settlement, projections
<1>3. faults' \in 0 .. MaxFaults
  BY <1>1, Names DEF Fault, TypeOK
<1>4. TypeOK'
  BY <1>1, <1>2, <1>3 DEF TypeOK
<1>5. PointersAgree' /\ ProjectedTrue' /\ Mild
  BY <1>1, <1>2, NothingIsMild DEF PointersAgree, ProjectedTrue, Known
<1>6. OwnerTrue(r) => OwnerTrue(r)'
  BY <1>1, <1>2, <1>5, MildKeepsOwner
<1>7. QED
  BY <1>2, <1>3, <1>4, <1>5, <1>6, WorkerKeeps

LEMMA FaultFacts ==
    ASSUME TypeOK, faults' = faults \/ Fault
    PROVE  faults' \in 0 .. MaxFaults
BY Names DEF TypeOK, Fault

\* A gateway's step; it may have taken or given up the reservation.
LEMMA GatewaysKeep ==
    ASSUME PostTradeInv, NEW g \in Gateways, NEW r \in Gws,
           gw' = [gw EXCEPT ![g] = r], rows' = rows,
           \/ /\ reservation' = reservation
              /\ r.at \notin {"idle", "done", "reserve"} => Busy(g) /\ r.overran = gw[g].overran
           \/ /\ reservation' = [owner |-> None, expired |-> FALSE] /\ reservation.owner = g
              /\ r.at = "done"
           \/ /\ reservation' = [owner |-> g, expired |-> FALSE]
              /\ reservation.owner = None \/ reservation.expired,
           r.at \in {"apply", "hedge", "pnl", "submitted", "settled"} => r.event # None,
           r.at \in {"hedge", "pnl", "submitted", "settled"} => Known(r.event)
    PROVE  /\ gw' \in [Gateways -> Gws] /\ \A h \in Gateways : GatewayTrue(h)'
           /\ reservation' \in [owner : Gateways \cup {None}, expired : BOOLEAN]
<1>1. TypeOK
  BY DEF PostTradeInv
<1>2. gw' \in [Gateways -> Gws] /\ gw'[g] = r /\ \A h \in Gateways \ {g} : gw'[h] = gw[h]
  BY <1>1 DEF TypeOK
<1>3. reservation' \in [owner : Gateways \cup {None}, expired : BOOLEAN]
  <2>1. reservation \in [owner : Gateways \cup {None}, expired : BOOLEAN]
    BY <1>1 DEF TypeOK
  <2>2. \A n \in Gateways \cup {None} : [owner |-> n, expired |-> FALSE]
                                          \in [owner : Gateways \cup {None}, expired : BOOLEAN]
    OBVIOUS
  <2>3. QED
    BY <2>1, <2>2
<1>4. GatewayTrue(g)'
  <2>1. r.at \notin {"idle", "done", "reserve"} =>
            r.overran \/ (reservation'.owner = g /\ ~reservation'.expired)
    BY DEF PostTradeInv, GatewayTrue, Busy
  <2>2. QED
    BY <1>2, <2>1 DEF GatewayTrue, Busy, Known
<1>5. ASSUME NEW h \in Gateways, h # g PROVE GatewayTrue(h)'
  <2>1. GatewayTrue(h) /\ gw'[h] = gw[h]
    BY <1>2, <1>5 DEF PostTradeInv
  <2>2. Busy(h) => gw[h].overran \/ (reservation'.owner = h /\ ~reservation'.expired)
    BY <1>5, <2>1, Names DEF GatewayTrue
  <2>3. QED
    BY <2>1, <2>2 DEF GatewayTrue, Busy, Known
<1>6. QED
  BY <1>2, <1>3, <1>4, <1>5

-----------------------------------------------------------------------------
(* The settlements change.                                                 *)

LEMMA EnqueueStarts ==
    ASSUME PostTradeInv, NEW e \in Events, Enqueue,
           \/ /\ rows[e] # "canonical" /\ Canonical(rows) = {}
              /\ rows' = [rows EXCEPT ![e] = "canonical"]
           \/ rows[e] = "canonical" /\ rows' = [rows EXCEPT ![e] = "removed"]
    PROVE  /\ rows' \in [Events -> {"absent", "canonical", "removed"}]
           /\ job' \in [desired : MaybeEvents, revision : Nat, processed : Nat,
                        owner : Workers \cup {None}, expired : BOOLEAN]
           /\ job'.processed < job'.revision /\ job'.revision = job.revision + 1
           /\ JobTrue'
           /\ \A f \in Events : Known(f) => Known(f)'
<1>1. TypeOK /\ JobTrue /\ rows \in [Events -> {"absent", "canonical", "removed"}]
  BY DEF PostTradeInv, TypeOK
<1>2. /\ rows' \in [Events -> {"absent", "canonical", "removed"}]
      /\ \A f \in Events : Known(f) => Known(f)'
  BY <1>1 DEF Known
<1>3. PICK d : d = IF Canonical(rows') = {} THEN None
                   ELSE CHOOSE f \in Canonical(rows') : TRUE
  OBVIOUS
<1>4. job' = IF job.revision # 0 /\ job.desired = d THEN job
             ELSE [job EXCEPT !.desired = d, !.revision = job.revision + 1]
  BY <1>3 DEF Enqueue
<1>5. \A f \in Events : rows'[f] = "canonical" <=> f = d
  <2>1. CASE rows' = [rows EXCEPT ![e] = "canonical"] /\ Canonical(rows) = {}
    <3>1. \A f \in Events : rows'[f] = "canonical" <=> f = e
      BY <1>1, <2>1 DEF Canonical
    <3>2. Canonical(rows') = {e}
      BY <3>1 DEF Canonical
    <3>3. QED
      BY <1>3, <3>1, <3>2
  <2>2. CASE rows[e] = "canonical" /\ rows' = [rows EXCEPT ![e] = "removed"]
    <3>1. \A f \in Events : rows'[f] # "canonical"
      BY <1>1, <2>2 DEF JobTrue
    <3>2. Canonical(rows') = {}
      BY <3>1 DEF Canonical
    <3>3. QED
      BY <1>3, <3>1, <3>2, Names
  <2>3. QED
    BY <2>1, <2>2
<1>6. d \in MaybeEvents
  BY <1>3 DEF Canonical, MaybeEvents
<1>7. job.desired # d
  BY <1>1, <1>5 DEF JobTrue, Canonical
<1>8. PICK n \in Nat : n = job.revision + 1
  BY <1>1, JobFacts DEF TypeOK
<1>9. job' = [job EXCEPT !.desired = d, !.revision = n]
  BY <1>4, <1>7, <1>8
<1>10. /\ job' \in [desired : MaybeEvents, revision : Nat, processed : Nat,
                    owner : Workers \cup {None}, expired : BOOLEAN]
       /\ job'.desired = d /\ job'.revision = n /\ job'.processed = job.processed
  BY <1>1, <1>6, <1>9 DEF TypeOK
<1>11. job'.processed < job'.revision
  BY <1>1, <1>8, <1>10, JobFacts DEF TypeOK
<1>12. JobTrue'
  BY <1>5, <1>10, <1>11 DEF JobTrue
<1>13. QED
  BY <1>2, <1>8, <1>10, <1>11, <1>12

LEMMA SettlementKeeps ==
    ASSUME PostTradeInv, NEW e \in Events, Enqueue,
           \/ /\ rows[e] # "canonical" /\ Canonical(rows) = {}
              /\ rows' = [rows EXCEPT ![e] = "canonical"]
           \/ rows[e] = "canonical" /\ rows' = [rows EXCEPT ![e] = "removed"],
           UNCHANGED <<up, chain, reorgs, projections, overdue, reservation, wk, faults>>,
           gw' \in [Gateways -> Gws], \A g \in Gateways : GatewayTrue(g)'
    PROVE  PostTradeInv'
<1>1. TypeOK /\ PointersAgree /\ ProjectedTrue
  BY DEF PostTradeInv
<1>2. UNCHANGED <<quote, pnl, hedge, late>>
  BY DEF projections
<1>3. /\ rows' \in [Events -> {"absent", "canonical", "removed"}]
      /\ job' \in [desired : MaybeEvents, revision : Nat, processed : Nat,
                   owner : Workers \cup {None}, expired : BOOLEAN]
      /\ job'.processed < job'.revision /\ job'.revision = job.revision + 1
      /\ JobTrue'
      /\ \A f \in Events : Known(f) => Known(f)'
  BY EnqueueStarts
<1>4. /\ job'.processed \in Nat /\ job'.revision \in Nat /\ job.revision \in Nat
      /\ quote.event \in MaybeEvents /\ pnl \in MaybeEvents
  BY <1>1, <1>3, JobFacts, QuoteFacts DEF TypeOK
<1>5. TypeOK'
  BY <1>1, <1>2, <1>3, <1>4 DEF TypeOK
<1>6. PointersAgree'
  BY <1>1, <1>2 DEF PointersAgree
<1>7. ProjectedTrue'
  BY <1>1, <1>2, <1>3, <1>4 DEF ProjectedTrue, MaybeEvents
<1>8. ASSUME NEW w \in Workers PROVE WorkerTrue(wk[w])' /\ ~Current(w)'
  <2>1. PICK r : r = wk[w] /\ r = wk'[w]
    OBVIOUS
  <2>2. WorkerTrue(r) /\ r.revision \in Nat /\ r.desired \in MaybeEvents
    BY <1>1, <2>1, RunFacts DEF PostTradeInv, TypeOK
  <2>3. WorkerTrue(r)' /\ r.revision # job'.revision
    BY <1>3, <1>4, <2>2 DEF WorkerTrue, MaybeEvents
  <2>4. QED
    BY <2>1, <2>3 DEF WorkerTrue, Current
<1>9. job'.processed # job'.revision
  BY <1>3, <1>4
<1>10. QED
  BY <1>3, <1>5, <1>6, <1>7, <1>8, <1>9 DEF PostTradeInv

-----------------------------------------------------------------------------
(* The chain, the indexer, the clock and the gateways.                     *)

\* A step that changes nothing but what a gateway does, and the reservation.
LEMMA RequestKeeps ==
    ASSUME PostTradeInv, UNCHANGED <<settlement, job, projections, overdue, wk>>,
           faults' = faults \/ Fault,
           gw' \in [Gateways -> Gws], \A h \in Gateways : GatewayTrue(h)',
           reservation' \in [owner : Gateways \cup {None}, expired : BOOLEAN]
    PROVE  PostTradeInv'
<1>1. TypeOK /\ PointersAgree /\ ProjectedTrue
  BY DEF PostTradeInv
<1>2. UNCHANGED <<up, chain, reorgs, rows>> /\ UNCHANGED <<quote, pnl, hedge, late>>
  BY DEF settlement, projections
<1>3. faults' \in 0 .. MaxFaults
  BY <1>1, FaultFacts
<1>4. TypeOK'
  BY <1>1, <1>2, <1>3 DEF TypeOK
<1>5. PointersAgree' /\ ProjectedTrue' /\ Mild
  BY <1>1, <1>2, NothingIsMild DEF PointersAgree, ProjectedTrue, Known
<1>6. QED
  BY <1>2, <1>4, <1>5, OutsideKeeps

LEMMA ChainKeeps ==
    ASSUME PostTradeInv, (\E e \in Events : Settle(e)) \/ Reorg
    PROVE  PostTradeInv'
<1>1. TypeOK /\ PointersAgree /\ ProjectedTrue
  BY DEF PostTradeInv
<1>2. /\ UNCHANGED <<up, rows, job, quote, pnl, hedge, late, overdue, reservation, gw, wk, faults>>
      /\ chain' \in MaybeEvents
  BY DEF Settle, Reorg, projections, MaybeEvents
<1>3. reorgs' \in 0 .. MaxReorgs
  BY <1>1, Names DEF TypeOK, Settle, Reorg
<1>4. TypeOK'
  BY <1>1, <1>2, <1>3 DEF TypeOK
<1>5. PointersAgree' /\ ProjectedTrue' /\ Mild
  BY <1>1, <1>2, NothingIsMild DEF PointersAgree, ProjectedTrue, Known
<1>6. \A g \in Gateways : GatewayTrue(g)'
  BY <1>2 DEF PostTradeInv, GatewayTrue, Busy, Known
<1>7. QED
  BY <1>2, <1>4, <1>5, <1>6, OutsideKeeps

LEMMA IndexKeeps ==
    ASSUME PostTradeInv, Index
    PROVE  PostTradeInv'
<1>1. PICK e \in Events : IndexEvent(e) \/ RemoveEvent(e)
  BY DEF Index
<1>2. /\ Enqueue
      /\ \/ /\ rows[e] # "canonical" /\ Canonical(rows) = {}
            /\ rows' = [rows EXCEPT ![e] = "canonical"]
         \/ rows[e] = "canonical" /\ rows' = [rows EXCEPT ![e] = "removed"]
      /\ UNCHANGED <<up, chain, reorgs, projections, overdue, reservation, gw, wk, faults>>
  BY <1>1 DEF IndexEvent, RemoveEvent
<1>3. \A f \in Events : Known(f) => Known(f)'
  BY <1>2, EnqueueStarts
<1>4. gw \in [Gateways -> Gws]
  BY DEF PostTradeInv, TypeOK
<1>5. ASSUME NEW g \in Gateways PROVE GatewayTrue(g)'
  <2>1. GatewayTrue(g) /\ gw[g].event \in MaybeEvents /\ gw'[g] = gw[g]
    BY <1>2, <1>4, GatewayFacts DEF PostTradeInv
  <2>2. gw[g].event # None /\ Known(gw[g].event) => Known(gw[g].event)'
    BY <1>3, <2>1 DEF MaybeEvents
  <2>3. QED
    BY <1>2, <2>1, <2>2 DEF GatewayTrue, Busy, Known
<1>6. QED
  BY <1>2, <1>4, <1>5, SettlementKeeps

LEMMA MarkExpiredKeeps ==
    ASSUME PostTradeInv, MarkExpired
    PROVE  PostTradeInv'
<1>1. TypeOK /\ PointersAgree /\ ProjectedTrue
  BY DEF PostTradeInv
<1>2. /\ UNCHANGED <<up, chain, reorgs, rows, job, pnl, hedge, late, reservation, gw, wk, faults>>
      /\ overdue' = TRUE /\ quote.status = "signed"
      /\ quote' = [quote EXCEPT !.status = "expired"]
  BY DEF MarkExpired, settlement
<1>3. /\ quote' \in [status : Statuses, event : MaybeEvents, hedge : MaybeEvents, pnl : BOOLEAN]
      /\ quote'.status = "expired" /\ quote'.event = quote.event
      /\ quote'.hedge = quote.hedge /\ quote'.pnl = quote.pnl
  BY <1>1, <1>2 DEF TypeOK, Statuses
<1>4. TypeOK'
  BY <1>1, <1>2, <1>3 DEF TypeOK
<1>5. PointersAgree' /\ ProjectedTrue'
  BY <1>1, <1>2, <1>3 DEF PointersAgree, ProjectedTrue, Known
<1>6. Mild
  BY <1>2, <1>3 DEF Mild
<1>7. \A g \in Gateways : GatewayTrue(g)'
  BY <1>2 DEF PostTradeInv, GatewayTrue, Busy, Known
<1>8. QED
  BY <1>2, <1>4, <1>5, <1>6, <1>7, OutsideKeeps

LEMMA ReservationExpiresKeeps ==
    ASSUME PostTradeInv, ReservationExpires
    PROVE  PostTradeInv'
<1>1. TypeOK /\ reservation \in [owner : Gateways \cup {None}, expired : BOOLEAN]
  BY DEF PostTradeInv, TypeOK
<1>2. /\ UNCHANGED <<settlement, job, projections, overdue, wk>>
      /\ faults' = faults \/ Fault
      /\ reservation' = [reservation EXCEPT !.expired = TRUE]
      /\ reservation.owner # None
      /\ IF Busy(reservation.owner) THEN gw' = [gw EXCEPT ![reservation.owner].overran = TRUE]
         ELSE gw' = gw
  BY DEF ReservationExpires
<1>3. /\ reservation' \in [owner : Gateways \cup {None}, expired : BOOLEAN]
      /\ reservation.owner \in Gateways
  BY <1>1, <1>2
<1>4. PICK o \in Gateways : o = reservation.owner
  BY <1>3
<1>5. PICK r : r = IF Busy(o) THEN [gw[o] EXCEPT !.overran = TRUE] ELSE gw[o]
  OBVIOUS
<1>6. /\ r \in Gws /\ r.at = gw[o].at /\ r.event = gw[o].event
      /\ Busy(o) => r.overran
  BY <1>1, <1>5, GatewayFacts DEF Gws, TypeOK
<1>7. /\ rows' = rows /\ gw' \in [Gateways -> Gws] /\ gw'[o] = r
      /\ \A g \in Gateways \ {o} : gw'[g] = gw[g]
  BY <1>1, <1>2, <1>4, <1>5, <1>6 DEF settlement, TypeOK
<1>8. ASSUME NEW g \in Gateways PROVE GatewayTrue(g)'
  <2>1. GatewayTrue(g)
    BY DEF PostTradeInv
  <2>2. CASE g = o
    BY <1>6, <1>7, <2>1, <2>2 DEF GatewayTrue, Busy, Known
  <2>3. CASE g # o
    <3>1. Busy(g) => gw[g].overran
      BY <1>4, <2>1, <2>3 DEF GatewayTrue
    <3>2. QED
      BY <1>7, <2>1, <2>3, <3>1 DEF GatewayTrue, Busy, Known
  <2>4. QED
    BY <2>2, <2>3
<1>9. QED
  BY <1>2, <1>3, <1>7, <1>8, RequestKeeps

\* The steps of a request that write no row.
LEMMA QuietRequestKeeps ==
    ASSUME PostTradeInv, NEW g \in Gateways,
           \/ \E e \in MaybeEvents : Begin(g, e)
           \/ Reserve(g) \/ SeeEvidence(g) \/ NoEvidence(g) \/ Release(g)
           \/ FailMark(g) \/ GatewayDies(g)
    PROVE  PostTradeInv'
<1>1. TypeOK /\ gw \in [Gateways -> Gws] /\ gw[g] \in Gws /\ gw[g].event \in MaybeEvents
  BY GatewayFacts DEF PostTradeInv, TypeOK
<1>2. /\ rows' = rows /\ UNCHANGED <<settlement, job, projections, overdue, wk>>
      /\ faults' = faults \/ Fault
  BY DEF Begin, Reserve, SeeEvidence, NoEvidence, Release, FailMark, GatewayDies, settlement,
         ToStep
<1>3. \E r \in Gws :
        /\ gw' = [gw EXCEPT ![g] = r]
        /\ \/ /\ reservation' = reservation
              /\ r.at \notin {"idle", "done", "reserve"} => Busy(g) /\ r.overran = gw[g].overran
           \/ /\ reservation' = [owner |-> None, expired |-> FALSE] /\ reservation.owner = g
              /\ r.at = "done"
           \/ /\ reservation' = [owner |-> g, expired |-> FALSE]
              /\ reservation.owner = None \/ reservation.expired
        /\ r.at \in {"apply", "hedge", "pnl", "submitted", "settled"} => r.event # None
        /\ r.at \in {"hedge", "pnl", "submitted", "settled"} => Known(r.event)
  <2>1. ASSUME NEW e \in MaybeEvents, Begin(g, e)
        PROVE  \E r \in Gws : gw' = [gw EXCEPT ![g] = r] /\ r.at = "reserve" /\ reservation' = reservation
    <3>1. PICK r : r = [NoRequest EXCEPT !.at = "reserve", !.event = e]
      OBVIOUS
    <3>2. r \in Gws /\ r.at = "reserve"
      BY <3>1 DEF NoRequest, Gws, GatewaySteps
    <3>3. gw' = [gw EXCEPT ![g] = r] /\ reservation' = reservation
      BY <2>1, <3>1 DEF Begin
    <3>4. QED
      BY <3>2, <3>3
  <2>2. ASSUME NEW s \in GatewaySteps, ToStep(g, s)
        PROVE  \E r \in Gws : /\ gw' = [gw EXCEPT ![g] = r] /\ r.at = s
                              /\ r.event = gw[g].event /\ r.overran = gw[g].overran
    <3>1. PICK r : r = [gw[g] EXCEPT !.at = s]
      OBVIOUS
    <3>2. r \in Gws /\ r.at = s /\ r.event = gw[g].event /\ r.overran = gw[g].overran
      BY <1>1, <3>1 DEF Gws
    <3>3. gw' = [gw EXCEPT ![g] = r]
      BY <2>2, <3>1 DEF ToStep
    <3>4. QED
      BY <3>2, <3>3
  <2>3. CASE \E e \in MaybeEvents : Begin(g, e)
    BY <2>1, <2>3
  <2>4. CASE Reserve(g)
    <3>1. CASE /\ reservation' = [owner |-> g, expired |-> FALSE] /\ ToStep(g, "evidence")
               /\ reservation.owner = None \/ reservation.expired
      BY <2>2, <3>1 DEF GatewaySteps
    <3>2. CASE gw' = [gw EXCEPT ![g] = Served] /\ reservation' = reservation
      BY <3>2, ServedFacts
    <3>3. QED
      BY <2>4, <3>1, <3>2 DEF Reserve
  <2>5. CASE SeeEvidence(g)
    <3>1. ToStep(g, "apply") /\ Busy(g) /\ reservation' = reservation /\ gw[g].event # None
      BY <2>5 DEF SeeEvidence, Busy
    <3>2. QED
      BY <2>2, <3>1 DEF GatewaySteps
  <2>6. CASE NoEvidence(g)
    <3>1. ToStep(g, "release") /\ Busy(g) /\ reservation' = reservation
      BY <2>6 DEF NoEvidence, Busy
    <3>2. QED
      BY <2>2, <3>1 DEF GatewaySteps
  <2>7. CASE FailMark(g)
    <3>1. ToStep(g, "settled") /\ Busy(g) /\ reservation' = reservation /\ gw[g].at = "submitted"
      BY <2>7 DEF FailMark, Busy
    <3>2. gw[g].event # None /\ Known(gw[g].event)
      BY <3>1 DEF PostTradeInv, GatewayTrue
    <3>3. QED
      BY <2>2, <3>1, <3>2 DEF GatewaySteps
  <2>8. CASE Release(g) \/ GatewayDies(g)
    <3>1. /\ gw' = [gw EXCEPT ![g] = Served]
          /\ \/ reservation' = reservation
             \/ reservation' = [owner |-> None, expired |-> FALSE] /\ reservation.owner = g
      BY <2>8 DEF Release, GatewayDies
    <3>2. QED
      BY <3>1, ServedFacts
  <2>9. QED
    BY <2>3, <2>4, <2>5, <2>6, <2>7, <2>8
<1>4. /\ gw' \in [Gateways -> Gws] /\ \A h \in Gateways : GatewayTrue(h)'
      /\ reservation' \in [owner : Gateways \cup {None}, expired : BOOLEAN]
  BY <1>2, <1>3, GatewaysKeep
<1>5. QED
  BY <1>2, <1>4, RequestKeeps

-----------------------------------------------------------------------------
(* A gateway writes a row.                                                 *)

LEMMA GatewayWriteKeeps ==
    ASSUME PostTradeInv, NEW g \in Gateways, NEW r \in Gws,
           UNCHANGED <<settlement, job, overdue, reservation, wk>>,
           faults' = faults \/ Fault,
           gw' = [gw EXCEPT ![g] = r], Busy(g), r.event = gw[g].event, r.overran = gw[g].overran,
           r.at \in {"apply", "hedge", "pnl", "submitted", "settled"} => r.event # None,
           r.at \in {"hedge", "pnl", "submitted", "settled"} => Known(r.event),
           quote' \in [status : Statuses, event : MaybeEvents, hedge : MaybeEvents, pnl : BOOLEAN],
           pnl' \in MaybeEvents, hedge' \in [Events -> HedgeStates],
           late' \subseteq {"quote", "pnl"} \cup Events,
           PointersAgree', ProjectedTrue', Mild
    PROVE  PostTradeInv'
<1>1. TypeOK
  BY DEF PostTradeInv
<1>2. UNCHANGED <<up, chain, reorgs, rows>>
  BY DEF settlement
<1>3. gw' \in [Gateways -> Gws] /\ \A h \in Gateways : GatewayTrue(h)'
  BY <1>2, GatewaysKeep
<1>4. faults' \in 0 .. MaxFaults
  BY <1>1, FaultFacts
<1>5. TypeOK'
  BY <1>1, <1>2, <1>3, <1>4 DEF TypeOK
<1>6. QED
  BY <1>2, <1>3, <1>5, OutsideKeeps

LEMMA SeeRevertKeeps ==
    ASSUME PostTradeInv, NEW g \in Gateways, SeeRevert(g)
    PROVE  PostTradeInv'
<1>1. TypeOK /\ PointersAgree /\ ProjectedTrue /\ gw[g] \in Gws
  BY GatewayFacts DEF PostTradeInv, TypeOK
<1>2. PICK r : r = [gw[g] EXCEPT !.at = "release"]
  OBVIOUS
<1>3. r \in Gws /\ r.at = "release" /\ r.event = gw[g].event /\ gw' = [gw EXCEPT ![g] = r]
      /\ Busy(g) /\ r.overran = gw[g].overran
  BY <1>1, <1>2 DEF Gws, GatewaySteps, SeeRevert, ToStep, Busy
<1>4. PICK s : s = IF quote.status = "signed" THEN "failed" ELSE quote.status
  OBVIOUS
<1>5. /\ UNCHANGED <<settlement, job, pnl, hedge, late, overdue, reservation, wk, faults>>
      /\ quote' = [quote EXCEPT !.status = s]
  BY <1>4 DEF SeeRevert
<1>6. s \in Statuses /\ rows' = rows
  BY <1>1, <1>4, <1>5, QuoteFacts DEF TypeOK, Statuses, settlement
<1>7. /\ quote' \in [status : Statuses, event : MaybeEvents, hedge : MaybeEvents, pnl : BOOLEAN]
      /\ quote'.status = s /\ quote'.event = quote.event
      /\ quote'.hedge = quote.hedge /\ quote'.pnl = quote.pnl
  BY <1>1, <1>5, <1>6 DEF TypeOK
<1>8. PointersAgree'
  BY <1>1, <1>4, <1>5, <1>7 DEF PointersAgree
<1>9. ProjectedTrue' /\ Mild
  BY <1>1, <1>4, <1>5, <1>6, <1>7 DEF ProjectedTrue, Known, Mild
<1>10. pnl' \in MaybeEvents /\ hedge' \in [Events -> HedgeStates]
       /\ late' \subseteq {"quote", "pnl"} \cup Events
  BY <1>1, <1>5 DEF TypeOK
<1>11. QED
  BY <1>3, <1>5, <1>7, <1>8, <1>9, <1>10, GatewayWriteKeeps

LEMMA ApplyEventKeeps ==
    ASSUME PostTradeInv, NEW g \in Gateways, ApplyEvent(g)
    PROVE  PostTradeInv'
<1>1. TypeOK /\ gw[g] \in Gws /\ GatewayTrue(g) /\ gw[g].event \in MaybeEvents
  BY GatewayFacts DEF PostTradeInv, TypeOK
<1>2. PICK e \in Events : e = gw[g].event
  BY <1>1 DEF ApplyEvent, GatewayTrue, MaybeEvents
<1>3. /\ UNCHANGED <<up, chain, reorgs, projections, overdue, reservation, wk, faults>>
      /\ gw[g].at = "apply" /\ Busy(g)
      /\ \/ rows[e] = "canonical" /\ ToStep(g, "submitted") /\ UNCHANGED <<rows, job>>
         \/ ToStep(g, "release") /\ UNCHANGED <<rows, job>>
         \/ /\ rows[e] # "canonical" /\ Canonical(rows) = {}
            /\ rows' = [rows EXCEPT ![e] = "canonical"]
            /\ Enqueue /\ ToStep(g, "hedge")
  BY <1>2 DEF ApplyEvent, Busy
<1>4. ASSUME NEW s \in {"submitted", "release", "hedge"}, ToStep(g, s)
      PROVE  \E r \in Gws : /\ gw' = [gw EXCEPT ![g] = r] /\ r.at = s /\ r.event = e
                            /\ r.overran = gw[g].overran
  <2>1. PICK r : r = [gw[g] EXCEPT !.at = s]
    OBVIOUS
  <2>2. /\ r \in Gws /\ r.at = s /\ r.event = e /\ r.overran = gw[g].overran
        /\ gw' = [gw EXCEPT ![g] = r]
    BY <1>1, <1>2, <1>4, <2>1 DEF Gws, GatewaySteps, ToStep
  <2>3. QED
    BY <2>2
<1>5. CASE /\ UNCHANGED <<rows, job>>
           /\ ToStep(g, "release") \/ (rows[e] = "canonical" /\ ToStep(g, "submitted"))
  <2>1. PICK r \in Gws : /\ gw' = [gw EXCEPT ![g] = r] /\ r.event = e
                         /\ r.overran = gw[g].overran
                         /\ r.at = "release" \/ (r.at = "submitted" /\ rows[e] = "canonical")
    BY <1>4, <1>5
  <2>2. gw' \in [Gateways -> Gws] /\ \A h \in Gateways : GatewayTrue(h)'
    BY <1>3, <1>5, <2>1, GatewaysKeep, Names DEF Known
  <2>3. reservation' \in [owner : Gateways \cup {None}, expired : BOOLEAN]
    BY <1>1, <1>3 DEF TypeOK
  <2>4. QED
    BY <1>3, <1>5, <2>2, <2>3, RequestKeeps DEF settlement
<1>6. CASE /\ rows[e] # "canonical" /\ Canonical(rows) = {}
           /\ rows' = [rows EXCEPT ![e] = "canonical"]
           /\ Enqueue /\ ToStep(g, "hedge")
  <2>1. PICK r \in Gws : /\ gw' = [gw EXCEPT ![g] = r] /\ r.event = e /\ r.at = "hedge"
                         /\ r.overran = gw[g].overran
    BY <1>4, <1>6
  <2>2. /\ gw' \in [Gateways -> Gws] /\ gw'[g] = r /\ \A h \in Gateways \ {g} : gw'[h] = gw[h]
        /\ gw \in [Gateways -> Gws]
    BY <1>1, <2>1 DEF TypeOK
  <2>3. \A f \in Events : Known(f) => Known(f)'
    BY <1>6, EnqueueStarts
  <2>4. Known(e)'
    BY <1>1, <1>6 DEF TypeOK, Known
  <2>5. ASSUME NEW h \in Gateways PROVE GatewayTrue(h)'
    <3>1. CASE h = g
      BY <1>1, <1>3, <2>1, <2>2, <2>4, <3>1, Names DEF GatewayTrue, Busy, Known
    <3>2. CASE h # g
      <4>1. GatewayTrue(h) /\ gw[h].event \in MaybeEvents /\ gw'[h] = gw[h]
        BY <2>2, <3>2, GatewayFacts DEF PostTradeInv
      <4>2. gw[h].event # None /\ Known(gw[h].event) => Known(gw[h].event)'
        BY <2>3, <4>1 DEF MaybeEvents
      <4>3. QED
        BY <1>3, <4>1, <4>2 DEF GatewayTrue, Busy, Known
    <3>3. QED
      BY <3>1, <3>2
  <2>6. QED
    BY <1>3, <1>6, <2>2, <2>5, SettlementKeeps
<1>7. QED
  BY <1>3, <1>5, <1>6

\* What a gateway knows of its settlement when it writes a row of it.
LEMMA Writer ==
    ASSUME PostTradeInv, NEW g \in Gateways, gw[g].at \in {"hedge", "pnl", "submitted", "settled"}
    PROVE  /\ gw[g].event \in Events /\ Known(gw[g].event) /\ Busy(g) /\ gw[g] \in Gws
           /\ gw[g].hedged \in BOOLEAN /\ gw[g].valued \in BOOLEAN
           /\ ~Gone(g) => gw[g].event = job.desired
<1>1. TypeOK /\ JobTrue /\ GatewayTrue(g) /\ gw[g] \in Gws /\ gw[g].event \in MaybeEvents
      /\ gw[g].hedged \in BOOLEAN /\ gw[g].valued \in BOOLEAN
  BY GatewayFacts DEF PostTradeInv, TypeOK
<1>2. gw[g].event \in Events /\ Known(gw[g].event) /\ Busy(g)
  BY <1>1 DEF GatewayTrue, Busy, MaybeEvents
<1>3. ~Gone(g) => gw[g].event = job.desired
  BY <1>1, <1>2 DEF Gone, JobTrue
<1>4. QED
  BY <1>1, <1>2, <1>3

LEMMA HedgeStepKeeps ==
    ASSUME PostTradeInv, NEW g \in Gateways, CreateHedge(g) \/ FailHedge(g)
    PROVE  PostTradeInv'
<1>1. TypeOK /\ PointersAgree /\ ProjectedTrue
  BY DEF PostTradeInv
<1>2. PICK e \in Events : e = gw[g].event
  BY Writer DEF CreateHedge, FailHedge
<1>3. /\ Known(e) /\ Busy(g) /\ gw[g] \in Gws /\ gw[g].event = e
      /\ ~Gone(g) => e = job.desired
      /\ gw[g].at = "hedge"
  BY <1>2, Writer DEF CreateHedge, FailHedge
<1>4. PICK r \in Gws : /\ gw' = [gw EXCEPT ![g] = r] /\ r.at = "pnl" /\ r.event = e
                       /\ r.overran = gw[g].overran
  <2>1. CASE CreateHedge(g)
    <3>1. PICK r : r = [gw[g] EXCEPT !.at = "pnl", !.hedged = TRUE]
      OBVIOUS
    <3>2. r \in Gws /\ r.at = "pnl" /\ r.event = e /\ r.overran = gw[g].overran
      BY <1>3, <3>1 DEF Gws, GatewaySteps
    <3>3. gw' = [gw EXCEPT ![g] = r]
      BY <2>1, <3>1 DEF CreateHedge
    <3>4. QED
      BY <3>2, <3>3
  <2>2. CASE FailHedge(g)
    <3>1. PICK r : r = [gw[g] EXCEPT !.at = "pnl"]
      OBVIOUS
    <3>2. r \in Gws /\ r.at = "pnl" /\ r.event = e /\ r.overran = gw[g].overran
      BY <1>3, <3>1 DEF Gws, GatewaySteps
    <3>3. gw' = [gw EXCEPT ![g] = r]
      BY <2>2, <3>1 DEF FailHedge, ToStep
    <3>4. QED
      BY <3>2, <3>3
  <2>3. QED
    BY <2>1, <2>2
<1>5. /\ UNCHANGED <<settlement, job, quote, pnl, overdue, reservation, wk>>
      /\ faults' = faults \/ Fault
  BY DEF CreateHedge, FailHedge
<1>6. /\ late' = late \/ late' = late \cup {e}
      /\ \/ hedge' = hedge
         \/ \E s \in {"queued", "failed"} :
               /\ hedge' = [hedge EXCEPT ![e] = s]
               /\ s = "queued" => hedge[e] = "none"
               /\ Gone(g) => late' = late \cup {e}
  BY <1>2 DEF CreateHedge, FailHedge, QueueHedge, Written
<1>7. /\ hedge' \in [Events -> HedgeStates] /\ late' \subseteq {"quote", "pnl"} \cup Events
      /\ late \subseteq late'
  <2>1. hedge \in [Events -> HedgeStates] /\ late \subseteq {"quote", "pnl"} \cup Events
    BY <1>1 DEF TypeOK
  <2>2. {"queued", "failed"} \subseteq HedgeStates
    BY DEF HedgeStates
  <2>3. hedge' \in [Events -> HedgeStates]
    BY <1>6, <2>1, <2>2
  <2>4. QED
    BY <1>6, <2>1, <2>3
<1>8. rows' = rows /\ quote' \in [status : Statuses, event : MaybeEvents, hedge : MaybeEvents, pnl : BOOLEAN]
      /\ pnl' \in MaybeEvents
  BY <1>1, <1>5 DEF TypeOK, settlement
<1>9. /\ \A f \in Events : hedge[f] # "none" => hedge'[f] # "none"
      /\ \A f \in Events \ {e} : hedge'[f] = hedge[f]
      /\ hedge'[e] = hedge[e] \/ hedge'[e] = "failed"
         \/ (hedge'[e] # "none" /\ (Gone(g) => e \in late'))
  BY <1>1, <1>6 DEF TypeOK
<1>10. PointersAgree'
  BY <1>1, <1>5, <1>9, QuoteFacts DEF PointersAgree, TypeOK, MaybeEvents
<1>11. ProjectedTrue'
  BY <1>1, <1>3, <1>5, <1>8, <1>9 DEF ProjectedTrue, Known
<1>12. Mild
  BY <1>3, <1>5, <1>7, <1>9 DEF Mild
<1>13. QED
  BY <1>3, <1>4, <1>5, <1>7, <1>8, <1>10, <1>11, <1>12, GatewayWriteKeeps, Names

LEMMA RecordTradeKeeps ==
    ASSUME PostTradeInv, NEW g \in Gateways, RecordTrade(g) \/ FailTrade(g)
    PROVE  PostTradeInv'
<1>1. TypeOK /\ PointersAgree /\ ProjectedTrue
  BY DEF PostTradeInv
<1>2. PICK e \in Events : e = gw[g].event
  BY Writer DEF RecordTrade, FailTrade
<1>3. /\ Known(e) /\ Busy(g) /\ gw[g] \in Gws /\ gw[g].event = e
      /\ ~Gone(g) => e = job.desired
  BY <1>2, Writer DEF RecordTrade, FailTrade
<1>4. PICK v \in BOOLEAN : v = ~PnlConflicts(e)
  BY DEF PnlConflicts
<1>5. PICK r : r = IF RecordTrade(g) THEN [gw[g] EXCEPT !.at = "submitted", !.valued = v]
                   ELSE [gw[g] EXCEPT !.at = "submitted"]
  OBVIOUS
<1>6. r \in Gws /\ r.at = "submitted" /\ r.event = e /\ r.overran = gw[g].overran
  BY <1>3, <1>5 DEF Gws, GatewaySteps
<1>7. gw' = [gw EXCEPT ![g] = r]
  <2>1. CASE RecordTrade(g)
    BY <1>2, <1>4, <1>5, <2>1 DEF RecordTrade
  <2>2. CASE ~RecordTrade(g)
    BY <1>5, <2>2 DEF FailTrade, ToStep
  <2>3. QED
    BY <2>1, <2>2
<1>8. /\ UNCHANGED <<settlement, job, quote, hedge, overdue, reservation, wk>>
      /\ faults' = faults \/ Fault
      /\ \/ pnl' = pnl /\ late' = late
         \/ /\ pnl = None /\ pnl' = e
            /\ IF Gone(g) THEN late' = late \cup {"pnl"} ELSE late' = late
  BY <1>2 DEF RecordTrade, FailTrade, RecordPnl, Written
<1>9. /\ rows' = rows /\ pnl' \in MaybeEvents /\ late' \subseteq {"quote", "pnl"} \cup Events
      /\ quote' \in [status : Statuses, event : MaybeEvents, hedge : MaybeEvents, pnl : BOOLEAN]
      /\ hedge' \in [Events -> HedgeStates]
  BY <1>1, <1>8 DEF TypeOK, settlement, MaybeEvents
<1>10. PointersAgree'
  BY <1>1, <1>2, <1>8, Names DEF PointersAgree
<1>11. ProjectedTrue'
  BY <1>1, <1>3, <1>8, <1>9 DEF ProjectedTrue, Known
<1>12. Mild
  BY <1>3, <1>8 DEF Mild
<1>13. QED
  BY <1>3, <1>6, <1>7, <1>8, <1>9, <1>10, <1>11, <1>12, GatewayWriteKeeps, Names

LEMMA PointedFacts ==
    ASSUME PostTradeInv, NEW e \in Events, Known(e), NEW hedged \in BOOLEAN, NEW valued \in BOOLEAN,
           NEW status \in {"submitted", "settled"}, CanPoint(e, hedged, valued),
           quote' = Pointed(status, e, hedged, valued),
           UNCHANGED <<rows, pnl, hedge>>
    PROVE  /\ quote' \in [status : Statuses, event : MaybeEvents, hedge : MaybeEvents, pnl : BOOLEAN]
           /\ quote'.event = e /\ quote'.status = status
           /\ PointersAgree' /\ ProjectedTrue'
<1>1. TypeOK /\ PointersAgree /\ ProjectedTrue
  BY DEF PostTradeInv
<1>2. /\ quote.hedge \in MaybeEvents /\ quote.pnl \in BOOLEAN /\ quote.event \in MaybeEvents
  BY <1>1, QuoteFacts DEF TypeOK
<1>3. PICK h : h = IF hedged THEN e ELSE quote.hedge
  OBVIOUS
<1>4. PICK p \in BOOLEAN : p = (quote.pnl \/ valued)
  BY <1>2
<1>5. h \in MaybeEvents
  BY <1>2, <1>3 DEF MaybeEvents
<1>6. quote' = [status |-> status, event |-> e, hedge |-> h, pnl |-> p]
  BY <1>3, <1>4 DEF Pointed
<1>7. /\ quote' \in [status : Statuses, event : MaybeEvents, hedge : MaybeEvents, pnl : BOOLEAN]
      /\ quote'.event = e /\ quote'.status = status /\ quote'.hedge = h /\ quote'.pnl = p
  BY <1>5, <1>6 DEF Statuses, MaybeEvents
<1>8. h # None => h = e /\ hedge[h] # "none"
  BY <1>1, <1>3, Names DEF CanPoint, PointersAgree
<1>9. p => pnl # None
  BY <1>1, <1>4 DEF CanPoint, PointersAgree
<1>10. PointersAgree'
  BY <1>7, <1>8, <1>9, Names DEF PointersAgree
<1>11. ProjectedTrue'
  BY <1>1, <1>7, Names DEF ProjectedTrue, Known
<1>12. QED
  BY <1>7, <1>10, <1>11

LEMMA MarkStatusKeeps ==
    ASSUME PostTradeInv, NEW g \in Gateways, MarkSubmitted(g) \/ MarkSettled(g)
    PROVE  PostTradeInv'
<1>1. TypeOK /\ PointersAgree /\ ProjectedTrue
  BY DEF PostTradeInv
<1>2. PICK status \in {"submitted", "settled"}, from \in SUBSET {"signed", "submitted", "settled"},
           next \in {"settled", "release"} :
        /\ MarkStatus(g, status, from, next)
        /\ status = "submitted" => from = {"signed"}
  BY DEF MarkSubmitted, MarkSettled
<1>3. PICK e \in Events, h \in BOOLEAN, v \in BOOLEAN :
        e = gw[g].event /\ h = gw[g].hedged /\ v = gw[g].valued
  BY <1>2, Writer DEF MarkStatus
<1>4. /\ Known(e) /\ Busy(g) /\ gw[g] \in Gws /\ gw[g].event = e
      /\ ~Gone(g) => e = job.desired
  BY <1>2, <1>3, Writer DEF MarkStatus
<1>5. PICK r : r = [gw[g] EXCEPT !.at = next]
  OBVIOUS
<1>6. r \in Gws /\ r.at = next /\ r.event = e /\ r.overran = gw[g].overran
  BY <1>4, <1>5 DEF Gws, GatewaySteps
<1>7. gw' = [gw EXCEPT ![g] = r]
  BY <1>2, <1>5 DEF MarkStatus, ToStep
<1>8. /\ UNCHANGED <<settlement, job, pnl, hedge, overdue, reservation, wk, faults>>
      /\ rows' = rows
      /\ \/ quote' = quote /\ late' = late
         \/ /\ quote.status \in from /\ CanPoint(e, h, v)
            /\ quote' = Pointed(status, e, h, v)
            /\ IF Gone(g) THEN late' = late \cup {"quote"} ELSE late' = late
  BY <1>2, <1>3 DEF MarkStatus, Written, settlement
<1>9. CASE quote' = quote /\ late' = late
  <2>1. PointersAgree' /\ ProjectedTrue' /\ Mild
    BY <1>1, <1>8, <1>9, NothingIsMild DEF PointersAgree, ProjectedTrue, Known
  <2>2. /\ pnl' \in MaybeEvents /\ late' \subseteq {"quote", "pnl"} \cup Events
        /\ quote' \in [status : Statuses, event : MaybeEvents, hedge : MaybeEvents, pnl : BOOLEAN]
        /\ hedge' \in [Events -> HedgeStates]
    BY <1>1, <1>8, <1>9 DEF TypeOK
  <2>3. QED
    BY <1>4, <1>6, <1>7, <1>8, <2>1, <2>2, GatewayWriteKeeps, Names
<1>10. CASE /\ quote.status \in from /\ CanPoint(e, h, v)
            /\ quote' = Pointed(status, e, h, v)
            /\ IF Gone(g) THEN late' = late \cup {"quote"} ELSE late' = late
  <2>1. /\ quote' \in [status : Statuses, event : MaybeEvents, hedge : MaybeEvents, pnl : BOOLEAN]
        /\ quote'.event = e /\ quote'.status = status
        /\ PointersAgree' /\ ProjectedTrue'
    BY <1>4, <1>8, <1>10, PointedFacts
  <2>2. /\ pnl' \in MaybeEvents /\ late' \subseteq {"quote", "pnl"} \cup Events
        /\ hedge' \in [Events -> HedgeStates]
    BY <1>1, <1>8 DEF TypeOK
  <2>3. quote.status = "settled" => status = "settled"
    BY <1>2, <1>10
  <2>4. Mild
    BY <1>4, <1>8, <1>10, <2>1, <2>3 DEF Mild
  <2>5. QED
    BY <1>4, <1>6, <1>7, <1>8, <2>1, <2>2, <2>4, GatewayWriteKeeps, Names
<1>11. QED
  BY <1>8, <1>9, <1>10

-----------------------------------------------------------------------------
(* The workers' steps on their job.                                        *)

LEMMA JobKeeps ==
    ASSUME PostTradeInv, UNCHANGED <<settlement, projections, overdue, reservation, gw>>,
           faults' = faults \/ Fault,
           job' \in [desired : MaybeEvents, revision : Nat, processed : Nat,
                     owner : Workers \cup {None}, expired : BOOLEAN],
           job'.desired = job.desired, job'.revision = job.revision,
           job'.processed <= job'.revision,
           job'.owner # None => job'.processed < job'.revision,
           wk' \in [Workers -> Wks], \A w \in Workers : WorkerTrue(wk'[w]),
           \A w \in Workers : Current(w)' => OwnerTrue(wk'[w]),
           job'.revision # 0 /\ job'.processed = job'.revision => Projected
    PROVE  PostTradeInv'
<1>1. TypeOK /\ PointersAgree /\ ProjectedTrue /\ JobTrue
  BY DEF PostTradeInv
<1>2. UNCHANGED <<up, chain, reorgs, rows>> /\ UNCHANGED <<quote, pnl, hedge, late>>
  BY DEF settlement, projections
<1>3. faults' \in 0 .. MaxFaults
  BY <1>1, FaultFacts
<1>4. TypeOK'
  BY <1>1, <1>2, <1>3 DEF TypeOK
<1>5. PointersAgree' /\ ProjectedTrue'
  BY <1>1, <1>2 DEF PointersAgree, ProjectedTrue, Known
<1>6. JobTrue'
  BY <1>1, <1>2 DEF JobTrue
<1>7. \A g \in Gateways : GatewayTrue(g)'
  BY <1>2, <1>3 DEF PostTradeInv, GatewayTrue, Busy, Known
<1>8. ASSUME NEW w \in Workers
      PROVE  WorkerTrue(wk[w])' /\ (Current(w)' => OwnerTrue(wk[w])')
  <2>1. PICK r : r = wk'[w]
    OBVIOUS
  <2>2. WorkerTrue(r) /\ (Current(w)' => OwnerTrue(r))
    BY <2>1
  <2>3. WorkerTrue(r)'
    BY <1>2, <2>2 DEF WorkerTrue, Known
  <2>4. OwnerTrue(r) => OwnerTrue(r)'
    BY <1>2 DEF OwnerTrue, Removed, QuoteFree, HedgeFree, HedgeThere, PnlThere, Projected, QuoteThere
  <2>5. /\ WorkerTrue(wk[w])' <=> WorkerTrue(r)'
        /\ OwnerTrue(wk[w])' <=> OwnerTrue(r)'
    BY <2>1 DEF WorkerTrue, OwnerTrue, HedgeFree
  <2>6. QED
    BY <2>2, <2>3, <2>4, <2>5
<1>9. Projected => Projected'
  BY <1>2 DEF Projected, QuoteFree, HedgeFree, HedgeThere, PnlThere, QuoteThere
<1>10. QED
  BY <1>4, <1>5, <1>6, <1>7, <1>8, <1>9 DEF PostTradeInv

LEMMA ClaimKeeps ==
    ASSUME PostTradeInv, NEW w \in Workers, Claim(w)
    PROVE  PostTradeInv'
<1>1. TypeOK /\ JobTrue /\ job.desired \in MaybeEvents /\ job.revision \in Nat
      /\ job.processed \in Nat
  BY JobFacts DEF PostTradeInv, TypeOK
<1>2. PICK r : r = [NoJob EXCEPT !.at = "list", !.desired = job.desired, !.revision = job.revision]
  OBVIOUS
<1>3. /\ r \in Wks /\ r.at = "list" /\ r.desired = job.desired /\ r.revision = job.revision
  BY <1>1, <1>2 DEF NoJob, Wks, WorkerSteps
<1>4. /\ UNCHANGED <<settlement, projections, overdue, reservation, gw>> /\ faults' = faults
      /\ job' = [job EXCEPT !.owner = w, !.expired = FALSE]
      /\ wk' = [wk EXCEPT ![w] = r]
      /\ job.processed < job.revision
  BY <1>2 DEF Claim
<1>5. /\ job' \in [desired : MaybeEvents, revision : Nat, processed : Nat,
                   owner : Workers \cup {None}, expired : BOOLEAN]
      /\ job'.desired = job.desired /\ job'.revision = job.revision
      /\ job'.processed = job.processed /\ job'.owner = w
  BY <1>1, <1>4 DEF TypeOK
<1>6. /\ wk' \in [Workers -> Wks] /\ wk'[w] = r /\ \A v \in Workers \ {w} : wk'[v] = wk[v]
  BY <1>1, <1>3, <1>4 DEF TypeOK
<1>7. r.desired # None => Known(r.desired)
  BY <1>1, <1>3 DEF JobTrue, Known, MaybeEvents
<1>8. WorkerTrue(r) /\ OwnerTrue(r)
  BY <1>1, <1>3, <1>7 DEF WorkerTrue, OwnerTrue
<1>9. ASSUME NEW v \in Workers
      PROVE  WorkerTrue(wk'[v]) /\ (Current(v)' => OwnerTrue(wk'[v]))
  BY <1>5, <1>6, <1>8 DEF PostTradeInv, Current
<1>10. job'.processed <= job'.revision /\ job'.processed < job'.revision
       /\ job'.processed # job'.revision
  BY <1>1, <1>4, <1>5
<1>11. QED
  BY <1>4, <1>5, <1>6, <1>9, <1>10, JobKeeps

\* The run is over, or waits to be tried again; the job may go back.
LEMMA GiveUpKeeps ==
    ASSUME PostTradeInv, NEW w \in Workers,
           UNCHANGED <<settlement, projections, overdue, reservation, gw>>,
           faults' = faults \/ Fault,
           NEW r \in {NoJob, [NoJob EXCEPT !.at = "retry"]}, wk' = [wk EXCEPT ![w] = r],
           \/ job' = job
           \/ job' = Unleased
           \/ /\ job' = [Unleased EXCEPT !.processed = job.revision]
              /\ Projected
    PROVE  PostTradeInv'
<1>1. TypeOK /\ JobTrue /\ job.revision \in Nat /\ job.processed \in Nat
      /\ job.processed <= job.revision
  BY JobFacts DEF PostTradeInv, TypeOK
<1>2. r \in Wks /\ r.revision = 0 /\ r.desired = None /\ r.at \in {"idle", "retry"}
  BY NoJobFacts
<1>3. /\ wk' \in [Workers -> Wks] /\ wk'[w] = r /\ \A v \in Workers \ {w} : wk'[v] = wk[v]
  BY <1>1, <1>2 DEF TypeOK
<1>4. /\ job' \in [desired : MaybeEvents, revision : Nat, processed : Nat,
                   owner : Workers \cup {None}, expired : BOOLEAN]
      /\ job'.desired = job.desired /\ job'.revision = job.revision
      /\ job'.owner \in {job.owner, None}
      /\ \/ job'.processed = job.processed
         \/ job'.processed = job.revision /\ Projected /\ job'.owner = None
  <2>1. job \in [desired : MaybeEvents, revision : Nat, processed : Nat,
                 owner : Workers \cup {None}, expired : BOOLEAN]
    BY <1>1 DEF TypeOK
  <2>2. CASE job' = job
    BY <2>1, <2>2
  <2>3. CASE job' = Unleased
    <3>1. job' = [job EXCEPT !.owner = None, !.expired = FALSE]
      BY <2>3 DEF Unleased
    <3>2. QED
      BY <2>1, <3>1
  <2>4. CASE job' = [Unleased EXCEPT !.processed = job.revision] /\ Projected
    <3>1. PICK n \in Nat : n = job.revision
      BY <1>1
    <3>2. job' = [job EXCEPT !.owner = None, !.expired = FALSE, !.processed = n]
      BY <2>4, <3>1 DEF Unleased
    <3>3. QED
      BY <2>1, <2>4, <3>1, <3>2
  <2>5. QED
    BY <2>2, <2>3, <2>4
<1>5. job'.owner # None => job'.processed < job'.revision /\ job'.revision # 0
  BY <1>1, <1>4 DEF JobTrue
<1>6. WorkerTrue(r)
  BY <1>1, <1>2 DEF WorkerTrue
<1>7. ASSUME NEW v \in Workers
      PROVE  WorkerTrue(wk'[v]) /\ (Current(v)' => OwnerTrue(wk'[v]))
  <2>1. CASE v = w
    BY <1>2, <1>3, <1>5, <1>6, <2>1, Names DEF Current
  <2>2. CASE v # w
    BY <1>3, <1>4, <2>2, Names DEF PostTradeInv, Current
  <2>3. QED
    BY <2>1, <2>2
<1>8. job'.revision # 0 /\ job'.processed = job'.revision => Projected
  BY <1>4 DEF PostTradeInv
<1>9. job'.processed <= job'.revision
  BY <1>1, <1>4
<1>10. QED
  BY <1>3, <1>4, <1>5, <1>7, <1>8, <1>9, JobKeeps

LEMMA MarkKeeps ==
    ASSUME PostTradeInv, NEW w \in Workers, Mark(w)
    PROVE  PostTradeInv'
<1>1. /\ UNCHANGED <<settlement, projections, overdue, reservation, gw>> /\ faults' = faults
      /\ wk' = [wk EXCEPT ![w] = NoJob] /\ wk[w].at = "mark"
      /\ \/ job' = job
         \/ job' = Unleased
         \/ /\ job' = [Unleased EXCEPT !.processed = job.revision]
            /\ ~Lost(w) /\ job.revision = wk[w].revision
  BY DEF Mark
<1>2. ~Lost(w) /\ job.revision = wk[w].revision => Projected
  BY <1>1 DEF PostTradeInv, Current, Lost, OwnerTrue
<1>3. QED
  BY <1>1, <1>2, GiveUpKeeps

LEMMA EndKeeps ==
    ASSUME PostTradeInv, NEW w \in Workers, Retry(w) \/ StepFails(w) \/ WorkerDies(w)
    PROVE  PostTradeInv'
<1>1. /\ UNCHANGED <<settlement, projections, overdue, reservation, gw>>
      /\ faults' = faults \/ Fault
      /\ job' = job \/ job' = Unleased
      /\ \E r \in {NoJob, [NoJob EXCEPT !.at = "retry"]} : wk' = [wk EXCEPT ![w] = r]
  BY DEF Retry, StepFails, WorkerDies, Again
<1>2. QED
  BY <1>1, GiveUpKeeps

LEMMA AgainKeeps ==
    ASSUME PostTradeInv, NEW w \in Workers, Again(w), job' = job, faults' = faults,
           UNCHANGED <<settlement, projections, overdue, reservation, gw>>
    PROVE  PostTradeInv'
BY GiveUpKeeps DEF Again

LEMMA LeaseExpiresKeeps ==
    ASSUME PostTradeInv, LeaseExpires
    PROVE  PostTradeInv'
<1>1. TypeOK /\ JobTrue
  BY DEF PostTradeInv
<1>2. /\ UNCHANGED <<settlement, projections, overdue, reservation, gw>> /\ wk' = wk
      /\ faults' = faults \/ Fault
      /\ job' = [job EXCEPT !.expired = TRUE]
  BY DEF LeaseExpires
<1>3. /\ job' \in [desired : MaybeEvents, revision : Nat, processed : Nat,
                   owner : Workers \cup {None}, expired : BOOLEAN]
      /\ job'.desired = job.desired /\ job'.revision = job.revision
      /\ job'.owner = job.owner /\ job'.processed = job.processed
      /\ job.processed <= job.revision
  BY <1>1, <1>2 DEF TypeOK
<1>4. wk' \in [Workers -> Wks]
  BY <1>1, <1>2 DEF TypeOK
<1>5. ASSUME NEW v \in Workers
      PROVE  WorkerTrue(wk'[v]) /\ (Current(v)' => OwnerTrue(wk'[v]))
  BY <1>2, <1>3 DEF PostTradeInv, Current
<1>6. /\ job'.owner # None => job'.processed < job'.revision
      /\ job'.revision # 0 /\ job'.processed = job'.revision => Projected
  BY <1>1, <1>3 DEF JobTrue, PostTradeInv
<1>7. QED
  BY <1>2, <1>3, <1>4, <1>5, <1>6, JobKeeps

-----------------------------------------------------------------------------
(* The workers' reads.                                                     *)

LEMMA MoveFacts ==
    ASSUME TypeOK, NEW w \in Workers, NEW s \in WorkerSteps
    PROVE  \E r \in Wks :
             /\ GoOn(w, s) => wk' = [wk EXCEPT ![w] = r]
             /\ r.at = s /\ r.desired = wk[w].desired /\ r.revision = wk[w].revision
             /\ r.removed = wk[w].removed /\ r.todo = wk[w].todo
<1>1. PICK r : r = [wk[w] EXCEPT !.at = s]
  OBVIOUS
<1>2. wk[w] \in Wks
  BY RunFacts DEF TypeOK
<1>3. r \in Wks /\ r.at = s /\ r.desired = wk[w].desired /\ r.revision = wk[w].revision
      /\ r.removed = wk[w].removed /\ r.todo = wk[w].todo
  BY <1>1, <1>2 DEF Wks
<1>4. GoOn(w, s) => wk' = [wk EXCEPT ![w] = r]
  BY <1>1 DEF GoOn
<1>5. QED
  BY <1>3, <1>4

\* What an event can be.
LEMMA EventFacts ==
    ASSUME TypeOK, JobTrue, NEW e \in Events
    PROVE  Known(e) => e \in Removed \/ e = job.desired
BY DEF TypeOK, JobTrue, Known, Removed

LEMMA ListKeeps ==
    ASSUME PostTradeInv, NEW w \in Workers, List(w)
    PROVE  PostTradeInv'
<1>1. /\ TypeOK /\ JobTrue /\ ProjectedTrue /\ WorkerTrue(wk[w]) /\ wk[w] \in Wks
      /\ wk[w].desired \in MaybeEvents /\ wk[w].at = "list"
      /\ quote.event \in MaybeEvents /\ pnl \in MaybeEvents /\ job.desired \in MaybeEvents
      /\ hedge \in [Events -> HedgeStates]
  BY RunFacts, QuoteFacts, JobFacts DEF PostTradeInv, TypeOK, List
<1>2. PICK gone : gone = {e \in Events : rows[e] = "removed"}
  OBVIOUS
<1>3. gone = Removed /\ gone \subseteq Events
  BY <1>2 DEF Removed
<1>4. PICK s : s = IF wk[w].desired = None THEN "mark" ELSE "create"
  OBVIOUS
<1>5. /\ UNCHANGED <<settlement, job, projections, overdue, reservation, gw>> /\ faults' = faults
      /\ \/ Again(w)
         \/ gone = {} /\ GoOn(w, s)
         \/ wk' = [wk EXCEPT ![w].at = "clear", ![w].removed = gone, ![w].todo = gone]
  BY <1>2, <1>4 DEF List
<1>6. CASE Again(w)
  BY <1>5, <1>6, AgainKeeps
<1>7. CASE gone = {} /\ GoOn(w, s)
  <2>1. s \in WorkerSteps
    BY <1>4 DEF WorkerSteps
  <2>2. PICK r \in Wks :
          /\ wk' = [wk EXCEPT ![w] = r]
          /\ r.at = s /\ r.desired = wk[w].desired /\ r.revision = wk[w].revision
    BY <1>1, <1>7, <2>1, MoveFacts
  <2>3. WorkerTrue(r)
    BY <1>1, <1>4, <2>2 DEF WorkerTrue
  <2>4. \A e \in Events : Known(e) => e = job.desired
    BY <1>1, <1>3, <1>7, EventFacts
  <2>5. /\ QuoteFree /\ HedgeFree(Events \ {job.desired})
    BY <1>1, <2>4 DEF ProjectedTrue, QuoteFree, HedgeFree, MaybeEvents
  <2>6. job.desired = None => PnlThere
    BY <1>1, <2>4, Names DEF ProjectedTrue, PnlThere, MaybeEvents
  <2>7. ASSUME Current(w) PROVE OwnerTrue(r)
    <3>1. r.desired = job.desired
      BY <1>1, <2>2, <2>7 DEF PostTradeInv, OwnerTrue
    <3>2. CASE job.desired = None
      BY <1>4, <2>2, <2>5, <2>6, <3>1, <3>2 DEF OwnerTrue, Projected
    <3>3. CASE job.desired # None
      BY <1>4, <2>2, <2>5, <3>1, <3>3 DEF OwnerTrue
    <3>4. QED
      BY <3>2, <3>3
  <2>8. QED
    BY <1>5, <2>2, <2>3, <2>7, RunKeeps
<1>8. CASE wk' = [wk EXCEPT ![w].at = "clear", ![w].removed = gone, ![w].todo = gone]
  <2>1. PICK r : r = [wk[w] EXCEPT !.at = "clear", !.removed = gone, !.todo = gone]
    OBVIOUS
  <2>2. /\ r \in Wks /\ r.at = "clear" /\ r.desired = wk[w].desired
        /\ r.revision = wk[w].revision /\ r.removed = Removed /\ r.todo = Removed
    BY <1>1, <1>3, <2>1 DEF Wks, WorkerSteps
  <2>3. wk' = [wk EXCEPT ![w] = r]
    BY <1>8, <2>1
  <2>4. WorkerTrue(r)
    BY <1>1, <2>2 DEF WorkerTrue
  <2>5. ASSUME Current(w) PROVE OwnerTrue(r)
    BY <1>1, <2>2, <2>5 DEF PostTradeInv, OwnerTrue
  <2>6. QED
    BY <1>5, <2>2, <2>3, <2>4, <2>5, RunKeeps
<1>9. QED
  BY <1>5, <1>6, <1>7, <1>8

LEMMA DidFacts ==
    ASSUME TypeOK, NEW w \in Workers, NEW e \in Events,
           NEW next \in {"hedges", "erase", "create"}, Did(w, e, next)
    PROVE  \E r \in Wks :
             /\ wk' = [wk EXCEPT ![w] = r]
             /\ r.desired = wk[w].desired /\ r.revision = wk[w].revision
             /\ \/ /\ wk[w].todo # {e} /\ r.at = wk[w].at
                   /\ r.removed = wk[w].removed /\ r.todo = wk[w].todo \ {e}
                \/ /\ wk[w].todo = {e} /\ next # "create" /\ r.at = next
                   /\ r.removed = wk[w].removed /\ r.todo = wk[w].removed
                \/ wk[w].todo = {e} /\ next = "create" /\ r.at = next
<1>1. wk[w] \in Wks /\ next \in WorkerSteps
  BY RunFacts DEF TypeOK, WorkerSteps
<1>2. CASE wk[w].todo # {e}
  <2>1. PICK r : r = [wk[w] EXCEPT !.todo = wk[w].todo \ {e}]
    OBVIOUS
  <2>2. /\ r \in Wks /\ r.desired = wk[w].desired /\ r.revision = wk[w].revision
        /\ r.at = wk[w].at /\ r.removed = wk[w].removed /\ r.todo = wk[w].todo \ {e}
    BY <1>1, <2>1 DEF Wks
  <2>3. wk' = [wk EXCEPT ![w] = r]
    BY <1>2, <2>1 DEF Did
  <2>4. QED
    BY <1>2, <2>2, <2>3
<1>3. CASE wk[w].todo = {e} /\ next # "create"
  <2>1. PICK r : r = [wk[w] EXCEPT !.at = next, !.todo = wk[w].removed]
    OBVIOUS
  <2>2. /\ r \in Wks /\ r.desired = wk[w].desired /\ r.revision = wk[w].revision
        /\ r.at = next /\ r.removed = wk[w].removed /\ r.todo = wk[w].removed
    BY <1>1, <2>1 DEF Wks
  <2>3. wk' = [wk EXCEPT ![w] = r]
    BY <1>3, <2>1 DEF Did
  <2>4. QED
    BY <1>3, <2>2, <2>3
<1>4. CASE wk[w].todo = {e} /\ next = "create"
  <2>1. PICK r : r = [wk[w] EXCEPT !.at = next, !.todo = {}, !.removed = {}]
    OBVIOUS
  <2>2. /\ r \in Wks /\ r.desired = wk[w].desired /\ r.revision = wk[w].revision
        /\ r.at = next
    BY <1>1, <2>1 DEF Wks
  <2>3. wk' = [wk EXCEPT ![w] = r]
    BY <1>4, <2>1 DEF Did
  <2>4. QED
    BY <1>4, <2>2, <2>3
<1>5. QED
  BY <1>2, <1>3, <1>4

-----------------------------------------------------------------------------
(* The workers' writes.                                                    *)

LEMMA WorkerWriteKeeps ==
    ASSUME PostTradeInv, NEW w \in Workers, NEW r \in Wks,
           UNCHANGED <<settlement, job, reservation, gw, faults>>,
           wk' = [wk EXCEPT ![w] = r],
           r.revision \in {wk[w].revision, 0}, WorkerTrue(r),
           quote' \in [status : Statuses, event : MaybeEvents, hedge : MaybeEvents, pnl : BOOLEAN],
           pnl' \in MaybeEvents, hedge' \in [Events -> HedgeStates], overdue' \in BOOLEAN,
           late' \subseteq {"quote", "pnl"} \cup Events,
           PointersAgree', ProjectedTrue',
           Lost(w) => Mild,
           Current(w) /\ r.revision = job.revision => OwnerTrue(r)'
    PROVE  PostTradeInv'
<1>1. TypeOK
  BY DEF PostTradeInv
<1>2. UNCHANGED <<up, chain, reorgs, rows>>
  BY DEF settlement
<1>3. wk' \in [Workers -> Wks]
  BY <1>1 DEF TypeOK
<1>4. TypeOK'
  BY <1>1, <1>2, <1>3 DEF TypeOK
<1>5. QED
  BY <1>2, <1>4, WorkerKeeps

LEMMA ClearQuoteKeeps ==
    ASSUME PostTradeInv, NEW w \in Workers, NEW e \in Events, ClearQuote(w, e)
    PROVE  PostTradeInv'
<1>1. /\ TypeOK /\ JobTrue /\ PointersAgree /\ ProjectedTrue /\ WorkerTrue(wk[w])
      /\ wk[w].at = "clear" /\ e \in wk[w].todo
      /\ quote.event \in MaybeEvents /\ quote.status \in Statuses
  BY QuoteFacts DEF PostTradeInv, TypeOK, ClearQuote, At
<1>2. PICK next \in {"hedges", "erase", "create"} :
          /\ Did(w, e, next)
          /\ next = IF wk[w].desired = None THEN "erase" ELSE "hedges"
  BY DEF ClearQuote
<1>3. PICK r \in Wks :
        /\ wk' = [wk EXCEPT ![w] = r]
        /\ r.desired = wk[w].desired /\ r.revision = wk[w].revision
        /\ r.removed = wk[w].removed
        /\ \/ wk[w].todo # {e} /\ r.at = "clear" /\ r.todo = wk[w].todo \ {e}
           \/ wk[w].todo = {e} /\ r.at = next /\ r.todo = wk[w].removed
  BY <1>1, <1>2, DidFacts
<1>4. /\ UNCHANGED <<settlement, job, reservation, gw, faults>>
      /\ pnl' = pnl /\ hedge' = hedge
      /\ \/ overdue' = overdue /\ quote' = quote /\ late' = late /\ quote.event # e
         \/ /\ quote.event = e
            /\ overdue' \in {overdue, TRUE}
            /\ quote' = Unsettled(IF overdue' THEN "expired" ELSE "signed")
            /\ IF Lost(w) THEN late' = late \cup {"quote"} ELSE late' = late \ {"quote"}
  <2>1. quote.event = e => quote.status \in {"submitted", "settled"}
    BY <1>1, Names DEF PointersAgree
  <2>2. QED
    BY <2>1 DEF ClearQuote, Written
<1>5. /\ pnl' \in MaybeEvents /\ hedge' \in [Events -> HedgeStates] /\ overdue' \in BOOLEAN
      /\ late' \subseteq {"quote", "pnl"} \cup Events /\ rows' = rows /\ job' = job
  BY <1>1, <1>4 DEF TypeOK, settlement
<1>6. /\ quote' \in [status : Statuses, event : MaybeEvents, hedge : MaybeEvents, pnl : BOOLEAN]
      /\ PointersAgree' /\ ProjectedTrue'
      /\ quote'.event # e /\ quote'.event \in {quote.event, None}
  <2>1. CASE quote' = quote /\ quote.event # e
    BY <1>1, <1>4, <1>5, <2>1 DEF TypeOK, PointersAgree, ProjectedTrue, Known
  <2>2. CASE quote' = Unsettled(IF overdue' THEN "expired" ELSE "signed")
    <3>1. PICK s \in {"expired", "signed"} : quote' = Unsettled(s)
      BY <2>2
    <3>2. quote' = [status |-> s, event |-> None, hedge |-> None, pnl |-> FALSE]
      BY <3>1 DEF Unsettled
    <3>3. /\ quote' \in [status : Statuses, event : MaybeEvents, hedge : MaybeEvents, pnl : BOOLEAN]
          /\ quote'.status = s /\ quote'.event = None /\ quote'.hedge = None /\ quote'.pnl = FALSE
      BY <3>2 DEF Statuses, MaybeEvents
    <3>4. PointersAgree' /\ ProjectedTrue'
      BY <1>1, <1>4, <1>5, <3>3 DEF PointersAgree, ProjectedTrue, Known
    <3>5. QED
      BY <3>3, <3>4, Names
  <2>3. QED
    BY <1>4, <2>1, <2>2
<1>7. Lost(w) => Mild
  BY <1>4, <1>5 DEF Mild
<1>8. WorkerTrue(r)
  BY <1>1, <1>2, <1>3 DEF WorkerTrue
<1>9. ASSUME Current(w) PROVE OwnerTrue(r)'
  <2>1. OwnerTrue(wk[w])
    BY <1>9 DEF PostTradeInv
  <2>2. /\ r.desired = job'.desired /\ Removed' = Removed /\ r.removed = Removed'
        /\ r.todo \subseteq Removed'
    BY <1>1, <1>3, <1>5, <2>1 DEF OwnerTrue, Removed
  <2>3. "quote" \notin late' => quote'.event \notin (Removed' \ wk[w].todo) \cup {e}
    <3>1. "quote" \notin late => quote.event \notin Removed \ wk[w].todo
      BY <1>1, <2>1 DEF OwnerTrue
    <3>2. None \notin Removed
      BY Names DEF Removed
    <3>3. quote' = quote => late' = late
      BY <1>4, <1>6
    <3>4. quote' = quote \/ quote'.event = None
      <4>1. ASSUME NEW s, quote' = Unsettled(s) PROVE quote'.event = None
        BY <4>1 DEF Unsettled
      <4>2. QED
        BY <1>4, <4>1
    <3>5. QED
      BY <1>6, <2>2, <3>1, <3>2, <3>3, <3>4
  <2>4. CASE wk[w].todo # {e} /\ r.at = "clear" /\ r.todo = wk[w].todo \ {e}
    BY <2>2, <2>3, <2>4 DEF OwnerTrue
  <2>5. CASE wk[w].todo = {e} /\ r.at = next /\ r.todo = wk[w].removed
    <3>1. "quote" \notin late' => quote'.event \notin Removed'
      BY <2>3, <2>5
    <3>3. QuoteFree'
      <4>1. quote'.event # None => quote'.event \in Events /\ Known(quote'.event)
        BY <1>1, <1>6 DEF ProjectedTrue, MaybeEvents
      <4>2. quote'.event # None => quote'.event \in Removed \/ quote'.event = job.desired
        BY <1>1, <4>1, EventFacts
      <4>3. QED
        BY <1>5, <2>2, <3>1, <4>2 DEF QuoteFree
    <3>4. Removed \ r.todo = {} /\ Removed' \ r.todo = {}
      BY <1>3, <2>2, <2>5
    <3>5. HedgeFree(Removed \ r.todo)'
      BY <3>4 DEF HedgeFree
    <3>6. next = "erase" => r.todo = Removed'
      BY <1>3, <2>2, <2>5
    <3>7. QED
      BY <1>2, <1>3, <2>2, <2>5, <3>3, <3>5, <3>6 DEF OwnerTrue
  <2>6. QED
    BY <1>3, <2>4, <2>5
<1>10. QED
  BY <1>3, <1>4, <1>5, <1>6, <1>7, <1>8, <1>9, WorkerWriteKeeps

LEMMA DropHedgeKeeps ==
    ASSUME PostTradeInv, NEW w \in Workers, NEW e \in Events, DropHedge(w, e)
    PROVE  PostTradeInv'
<1>1. /\ TypeOK /\ JobTrue /\ PointersAgree /\ ProjectedTrue /\ WorkerTrue(wk[w])
      /\ hedge \in [Events -> HedgeStates] /\ wk[w] \in Wks
      /\ wk[w].at \in {"hedges", "erase"} /\ e \in wk[w].todo
      /\ wk[w].at = "hedges" => wk[w].desired # None
  BY RunFacts DEF PostTradeInv, TypeOK, DropHedge, At
<1>2. UNCHANGED <<settlement, job, quote, pnl, overdue, reservation, gw, faults>>
  BY DEF DropHedge
<1>3. CASE Again(w) /\ hedge' = hedge /\ late' = late
  BY <1>2, <1>3, AgainKeeps DEF projections
<1>4. CASE /\ IF hedge[e] = "queued"
              THEN /\ \E s \in {"sent"} \cup (IF quote.hedge = e THEN {} ELSE {"none"}) :
                         hedge' = [hedge EXCEPT ![e] = s]
                   /\ Written(e, Lost(w), TRUE)
              ELSE UNCHANGED <<hedge, late>>
           /\ IF wk[w].at = "hedges" THEN Did(w, e, "create")
              ELSE wk' = [wk EXCEPT ![w].at = "forget", ![w].todo = @ \ {e}]
  <2>1. PICK r \in Wks :
          /\ wk' = [wk EXCEPT ![w] = r]
          /\ r.desired = wk[w].desired /\ r.revision = wk[w].revision
          /\ \/ /\ wk[w].at = "hedges" /\ r.at = "hedges"
                /\ r.removed = wk[w].removed /\ r.todo = wk[w].todo \ {e}
             \/ wk[w].at = "hedges" /\ wk[w].todo = {e} /\ r.at = "create"
             \/ /\ wk[w].at = "erase" /\ r.at = "forget"
                /\ r.removed = wk[w].removed /\ r.todo = wk[w].todo \ {e}
    <3>1. CASE wk[w].at = "hedges"
      <4>1. Did(w, e, "create")
        BY <1>4, <3>1
      <4>2. QED
        BY <1>1, <3>1, <4>1, DidFacts
    <3>2. CASE wk[w].at = "erase"
      <4>1. PICK r : r = [wk[w] EXCEPT !.at = "forget", !.todo = wk[w].todo \ {e}]
        OBVIOUS
      <4>2. /\ r \in Wks /\ r.desired = wk[w].desired /\ r.revision = wk[w].revision
            /\ r.at = "forget" /\ r.removed = wk[w].removed /\ r.todo = wk[w].todo \ {e}
        BY <1>1, <4>1 DEF Wks, WorkerSteps
      <4>3. wk' = [wk EXCEPT ![w] = r]
        BY <1>4, <3>2, <4>1
      <4>4. QED
        BY <3>2, <4>2, <4>3
    <3>3. QED
      BY <1>1, <3>1, <3>2
  <2>2. /\ hedge' \in [Events -> HedgeStates]
        /\ \A f \in Events \ {e} : hedge'[f] = hedge[f]
        /\ hedge'[e] # "queued" /\ (hedge[e] = "none" => hedge'[e] = "none")
        /\ hedge'[e] = hedge[e] \/ hedge[e] = "queued"
        /\ hedge'[e] = "none" => hedge[e] = "none" \/ quote.hedge # e
    BY <1>1, <1>4 DEF HedgeStates
  <2>3. /\ late' \subseteq late \cup {e} /\ late \ {e} \subseteq late'
        /\ Lost(w) => late \subseteq late' /\ (hedge'[e] = hedge[e] \/ e \in late')
    BY <1>4 DEF Written
  <2>4. /\ late' \subseteq {"quote", "pnl"} \cup Events /\ rows' = rows /\ job' = job
        /\ quote' \in [status : Statuses, event : MaybeEvents, hedge : MaybeEvents, pnl : BOOLEAN]
        /\ pnl' \in MaybeEvents /\ overdue' \in BOOLEAN /\ quote' = quote /\ pnl' = pnl
    BY <1>1, <1>2, <2>3 DEF TypeOK, settlement
  <2>5. PointersAgree'
    <3>1. quote.hedge \in MaybeEvents
      BY <1>1, QuoteFacts DEF TypeOK
    <3>2. quote.hedge # None => hedge'[quote.hedge] # "none"
      BY <1>1, <2>2, <3>1 DEF PointersAgree, MaybeEvents
    <3>3. QED
      BY <1>1, <2>4, <3>2 DEF PointersAgree
  <2>6. ProjectedTrue'
    BY <1>1, <2>2, <2>4 DEF ProjectedTrue, Known
  <2>7. Lost(w) => Mild
    BY <2>2, <2>3, <2>4 DEF Mild
  <2>8. WorkerTrue(r)
    BY <1>1, <2>1 DEF WorkerTrue
  <2>9. ASSUME Current(w) PROVE OwnerTrue(r)'
    <3>1. OwnerTrue(wk[w]) /\ Removed' = Removed
      BY <1>1, <2>4, <2>9 DEF PostTradeInv, Removed
    <3>2. /\ r.desired = job'.desired /\ QuoteFree' /\ e \in Removed
          /\ wk[w].removed = Removed /\ wk[w].todo \subseteq Removed
          /\ wk[w].at = "hedges" => job.desired # None
          /\ wk[w].at = "erase" => job.desired = None
      BY <1>1, <2>1, <2>3, <2>4, <3>1, Names DEF OwnerTrue, QuoteFree
    <3>3. \A f \in (Removed \ wk[w].todo) \cup {e} : f \notin late' => hedge'[f] # "queued"
      BY <1>1, <2>2, <2>3, <3>1 DEF OwnerTrue, HedgeFree, Removed
    <3>4. CASE /\ r.removed = wk[w].removed /\ r.todo = wk[w].todo \ {e}
               /\ \/ wk[w].at = "hedges" /\ r.at = "hedges"
                  \/ wk[w].at = "erase" /\ r.at = "forget"
      <4>1. r.removed = Removed' /\ r.todo \subseteq Removed'
        BY <3>1, <3>2, <3>4
      <4>2. HedgeFree(Removed \ r.todo)'
        BY <3>1, <3>2, <3>3, <3>4 DEF HedgeFree
      <4>3. QED
        BY <2>4, <3>2, <3>4, <4>1, <4>2 DEF OwnerTrue
    <3>5. CASE wk[w].at = "hedges" /\ wk[w].todo = {e} /\ r.at = "create"
      <4>1. \A f \in Removed : f \notin late' => hedge'[f] # "queued"
        BY <3>3, <3>5
      <4>2. \A f \in Events \ {job.desired} : hedge'[f] = "queued" => f \in Removed
        BY <1>1, <2>2, EventFacts DEF ProjectedTrue
      <4>3. HedgeFree(Events \ {job.desired})'
        BY <2>4, <4>1, <4>2 DEF HedgeFree
      <4>4. QED
        BY <2>4, <3>2, <3>5, <4>3 DEF OwnerTrue
    <3>6. QED
      BY <2>1, <3>4, <3>5
  <2>10. QED
    BY <1>2, <2>1, <2>2, <2>4, <2>5, <2>6, <2>7, <2>8, <2>9, WorkerWriteKeeps
<1>5. QED
  BY <1>3, <1>4 DEF DropHedge

LEMMA ForgetPnlKeeps ==
    ASSUME PostTradeInv, NEW w \in Workers, ForgetPnl(w)
    PROVE  PostTradeInv'
<1>1. /\ TypeOK /\ JobTrue /\ PointersAgree /\ ProjectedTrue /\ WorkerTrue(wk[w])
      /\ wk[w] \in Wks /\ wk[w].at = "forget" /\ wk[w].todo \subseteq Events
  BY RunFacts DEF PostTradeInv, TypeOK, ForgetPnl
<1>2. UNCHANGED <<settlement, job, quote, hedge, overdue, reservation, gw, faults>>
  BY DEF ForgetPnl
<1>3. CASE Again(w) /\ pnl' = pnl /\ late' = late
  BY <1>2, <1>3, AgainKeeps DEF projections
<1>4. CASE /\ ~quote.pnl
           /\ IF pnl = None THEN UNCHANGED <<pnl, late>>
              ELSE pnl' = None /\ Written("pnl", Lost(w), TRUE)
           /\ GoOn(w, IF wk[w].todo = {} THEN "mark" ELSE "erase")
  <2>1. PICK s \in WorkerSteps : s = IF wk[w].todo = {} THEN "mark" ELSE "erase"
    BY DEF WorkerSteps
  <2>2. PICK r \in Wks :
          /\ wk' = [wk EXCEPT ![w] = r]
          /\ r.at = s /\ r.desired = wk[w].desired /\ r.revision = wk[w].revision
          /\ r.removed = wk[w].removed /\ r.todo = wk[w].todo
    <3>1. GoOn(w, s)
      BY <1>4, <2>1
    <3>2. QED
      BY <1>1, <3>1, MoveFacts
  <2>3. /\ pnl' = None /\ late' \subseteq late \cup {"pnl"} /\ late \ {"pnl"} \subseteq late'
        /\ Lost(w) => late \subseteq late' /\ (pnl' = pnl \/ "pnl" \in late')
    BY <1>4 DEF Written
  <2>4. /\ late' \subseteq {"quote", "pnl"} \cup Events /\ rows' = rows /\ job' = job
        /\ quote' \in [status : Statuses, event : MaybeEvents, hedge : MaybeEvents, pnl : BOOLEAN]
        /\ pnl' \in MaybeEvents /\ overdue' \in BOOLEAN /\ quote' = quote /\ hedge' = hedge
        /\ hedge' \in [Events -> HedgeStates]
    BY <1>1, <1>2, <2>3 DEF TypeOK, settlement, MaybeEvents
  <2>5. PointersAgree' /\ ProjectedTrue'
    BY <1>1, <1>4, <2>3, <2>4 DEF PointersAgree, ProjectedTrue, Known
  <2>6. Lost(w) => Mild
    BY <2>3, <2>4 DEF Mild
  <2>7. WorkerTrue(r)
    BY <1>1, <2>1, <2>2 DEF WorkerTrue
  <2>8. ASSUME Current(w) PROVE OwnerTrue(r)'
    <3>1. OwnerTrue(wk[w]) /\ Removed' = Removed
      BY <1>1, <2>4, <2>8 DEF PostTradeInv, Removed
    <3>2. /\ r.desired = job'.desired /\ job.desired = None /\ r.removed = Removed'
          /\ r.todo \subseteq Removed' /\ QuoteFree /\ HedgeFree(Removed \ r.todo)
      BY <1>1, <2>2, <2>4, <3>1 DEF OwnerTrue
    <3>3. QuoteFree' /\ PnlThere'
      BY <2>3, <2>4, <3>2 DEF QuoteFree, PnlThere
    <3>4. \A f \in Removed \ r.todo : f \notin late' => hedge'[f] # "queued"
      BY <2>3, <2>4, <3>2, Names DEF HedgeFree, Removed
    <3>5. CASE s = "erase"
      <4>1. HedgeFree(Removed \ r.todo)'
        BY <3>1, <3>4 DEF HedgeFree
      <4>2. QED
        BY <2>2, <2>4, <3>2, <3>3, <3>5, <4>1 DEF OwnerTrue
    <3>6. CASE s = "mark"
      <4>1. \A f \in Events \ {job.desired} : hedge'[f] = "queued" => f \in Removed
        BY <1>1, <2>4, EventFacts DEF ProjectedTrue
      <4>2. r.todo = {}
        BY <2>1, <2>2, <3>6
      <4>3. HedgeFree(Events \ {job.desired})'
        BY <2>4, <3>4, <4>1, <4>2 DEF HedgeFree
      <4>4. QED
        BY <2>2, <2>4, <3>2, <3>3, <3>6, <4>3 DEF OwnerTrue, Projected
    <3>7. QED
      BY <2>1, <3>5, <3>6
  <2>9. QED
    BY <1>2, <2>2, <2>4, <2>5, <2>6, <2>7, <2>8, WorkerWriteKeeps
<1>5. QED
  BY <1>3, <1>4 DEF ForgetPnl

LEMMA CreateMissingKeeps ==
    ASSUME PostTradeInv, NEW w \in Workers, CreateMissing(w)
    PROVE  PostTradeInv'
<1>1. /\ TypeOK /\ JobTrue /\ PointersAgree /\ ProjectedTrue /\ WorkerTrue(wk[w])
      /\ wk[w].at = "create" /\ wk[w].desired \in MaybeEvents
      /\ hedge \in [Events -> HedgeStates]
  BY RunFacts DEF PostTradeInv, TypeOK, CreateMissing
<1>2. PICK e \in Events : e = wk[w].desired /\ Known(e)
  BY <1>1 DEF WorkerTrue, MaybeEvents
<1>3. /\ UNCHANGED <<settlement, job, quote, pnl, overdue, reservation, gw, faults>>
      /\ GoOn(w, "record") /\ QueueHedge(e, Lost(w), TRUE)
  BY <1>2 DEF CreateMissing
<1>4. PICK r \in Wks :
        /\ wk' = [wk EXCEPT ![w] = r]
        /\ r.at = "record" /\ r.desired = e /\ r.revision = wk[w].revision
  BY <1>1, <1>2, <1>3, MoveFacts DEF WorkerSteps
<1>5. /\ hedge' \in [Events -> HedgeStates]
      /\ \A f \in Events \ {e} : hedge'[f] = hedge[f]
      /\ hedge'[e] # "none" /\ (hedge'[e] = hedge[e] \/ (Lost(w) => e \in late'))
      /\ late' \subseteq late \cup {e} /\ late \ {e} \subseteq late'
      /\ Lost(w) => late \subseteq late'
      /\ \A f \in Events : hedge[f] # "none" => hedge'[f] # "none"
  BY <1>1, <1>3 DEF QueueHedge, Written, HedgeStates
<1>6. /\ late' \subseteq {"quote", "pnl"} \cup Events /\ rows' = rows /\ job' = job
      /\ quote' \in [status : Statuses, event : MaybeEvents, hedge : MaybeEvents, pnl : BOOLEAN]
      /\ pnl' \in MaybeEvents /\ overdue' \in BOOLEAN /\ quote' = quote /\ pnl' = pnl
  BY <1>1, <1>3, <1>5 DEF TypeOK, settlement
<1>7. PointersAgree'
  BY <1>1, <1>5, <1>6, QuoteFacts DEF TypeOK, PointersAgree, MaybeEvents
<1>8. ProjectedTrue'
  BY <1>1, <1>2, <1>5, <1>6 DEF ProjectedTrue, Known
<1>9. Lost(w) => Mild
  BY <1>5, <1>6 DEF Mild
<1>10. WorkerTrue(r)
  BY <1>1, <1>2, <1>4 DEF WorkerTrue
<1>11. ASSUME Current(w) PROVE OwnerTrue(r)'
  <2>1. OwnerTrue(wk[w])
    BY <1>11 DEF PostTradeInv
  <2>2. /\ r.desired = job'.desired /\ job.desired = e /\ e # None
        /\ QuoteFree /\ HedgeFree(Events \ {e})
    BY <1>1, <1>2, <1>4, <1>6, <2>1, Names DEF OwnerTrue
  <2>3. QuoteFree' /\ HedgeThere'
    BY <1>5, <1>6, <2>2, Names DEF QuoteFree, HedgeThere
  <2>4. HedgeFree(Events \ {job.desired})'
    BY <1>5, <1>6, <2>2 DEF HedgeFree
  <2>5. QED
    BY <1>4, <1>6, <2>2, <2>3, <2>4 DEF OwnerTrue
<1>12. QED
  BY <1>3, <1>4, <1>5, <1>6, <1>7, <1>8, <1>9, <1>10, <1>11, WorkerWriteKeeps

LEMMA RecordMissingKeeps ==
    ASSUME PostTradeInv, NEW w \in Workers, RecordMissing(w)
    PROVE  PostTradeInv'
<1>1. /\ TypeOK /\ JobTrue /\ PointersAgree /\ ProjectedTrue /\ WorkerTrue(wk[w])
      /\ wk[w].at = "record" /\ wk[w].desired \in MaybeEvents
  BY RunFacts DEF PostTradeInv, TypeOK, RecordMissing
<1>2. PICK e \in Events : e = wk[w].desired /\ Known(e)
  BY <1>1 DEF WorkerTrue, MaybeEvents
<1>3. /\ UNCHANGED <<settlement, job, quote, hedge, overdue, reservation, gw, faults>>
      /\ RecordPnl(e, Lost(w), TRUE)
      /\ IF PnlConflicts(e) THEN Again(w) ELSE GoOn(w, "restore")
  BY <1>2 DEF RecordMissing
<1>4. CASE PnlConflicts(e)
  <2>1. Again(w) /\ pnl' = pnl /\ late' = late
    BY <1>3, <1>4 DEF RecordPnl, PnlConflicts
  <2>2. QED
    BY <1>3, <2>1, AgainKeeps DEF projections
<1>5. CASE ~PnlConflicts(e)
  <2>1. PICK r \in Wks :
          /\ wk' = [wk EXCEPT ![w] = r]
          /\ r.at = "restore" /\ r.desired = e /\ r.revision = wk[w].revision
    BY <1>1, <1>2, <1>3, <1>5, MoveFacts DEF WorkerSteps
  <2>2. /\ pnl' = e /\ late' \subseteq late \cup {"pnl"} /\ late \ {"pnl"} \subseteq late'
        /\ Lost(w) => late \subseteq late' /\ (pnl' = pnl \/ "pnl" \in late')
    BY <1>3, <1>5 DEF RecordPnl, PnlConflicts, Written
  <2>3. /\ late' \subseteq {"quote", "pnl"} \cup Events /\ rows' = rows /\ job' = job
        /\ quote' \in [status : Statuses, event : MaybeEvents, hedge : MaybeEvents, pnl : BOOLEAN]
        /\ pnl' \in MaybeEvents /\ overdue' \in BOOLEAN /\ quote' = quote /\ hedge' = hedge
        /\ hedge' \in [Events -> HedgeStates]
    BY <1>1, <1>3, <2>2 DEF TypeOK, settlement, MaybeEvents
  <2>4. PointersAgree' /\ ProjectedTrue'
    BY <1>1, <1>2, <2>2, <2>3, Names DEF PointersAgree, ProjectedTrue, Known
  <2>5. Lost(w) => Mild
    BY <2>2, <2>3 DEF Mild
  <2>6. WorkerTrue(r)
    BY <1>1, <1>2, <2>1 DEF WorkerTrue
  <2>7. ASSUME Current(w) PROVE OwnerTrue(r)'
    <3>1. OwnerTrue(wk[w])
      BY <2>7 DEF PostTradeInv
    <3>2. /\ r.desired = job'.desired /\ job.desired = e /\ e # None
          /\ QuoteFree /\ HedgeFree(Events \ {e}) /\ HedgeThere
      BY <1>1, <1>2, <2>1, <2>3, <3>1, Names DEF OwnerTrue
    <3>3. QuoteFree' /\ HedgeThere' /\ PnlThere'
      BY <2>2, <2>3, <3>2, Names DEF QuoteFree, HedgeThere, PnlThere
    <3>4. HedgeFree(Events \ {job.desired})'
      BY <2>2, <2>3, <3>2, Names DEF HedgeFree
    <3>5. QED
      BY <2>1, <2>3, <3>2, <3>3, <3>4 DEF OwnerTrue
  <2>8. QED
    BY <1>3, <2>1, <2>3, <2>4, <2>5, <2>6, <2>7, WorkerWriteKeeps
<1>6. QED
  BY <1>4, <1>5

LEMMA RestoreQuoteKeeps ==
    ASSUME PostTradeInv, NEW w \in Workers, RestoreQuote(w)
    PROVE  PostTradeInv'
<1>1. /\ TypeOK /\ JobTrue /\ WorkerTrue(wk[w])
      /\ wk[w].at = "restore" /\ wk[w].desired \in MaybeEvents
  BY RunFacts DEF PostTradeInv, TypeOK, RestoreQuote
<1>2. PICK e \in Events : e = wk[w].desired /\ Known(e)
  BY <1>1 DEF WorkerTrue, MaybeEvents
<1>3. PICK h \in BOOLEAN, v \in BOOLEAN : h = (hedge[e] # "none") /\ v = (pnl # None)
  OBVIOUS
<1>4. /\ UNCHANGED <<settlement, job, pnl, hedge, overdue, reservation, gw, faults>>
      /\ \/ GoOn(w, "mark") /\ quote' = quote /\ late' = late /\ quote = Pointed("settled", e, h, v)
         \/ /\ CanPoint(e, h, v) /\ quote' = Pointed("settled", e, h, v)
            /\ Written("quote", Lost(w), TRUE) /\ GoOn(w, "mark")
         \/ Again(w) /\ quote' = quote /\ late' = late
  BY <1>2, <1>3 DEF RestoreQuote
<1>5. PICK r \in Wks :
        /\ GoOn(w, "mark") => wk' = [wk EXCEPT ![w] = r]
        /\ r.at = "mark" /\ r.desired = e /\ r.revision = wk[w].revision
  BY <1>1, <1>2, MoveFacts DEF WorkerSteps
<1>6. WorkerTrue(r)
  BY <1>1, <1>2, <1>5 DEF WorkerTrue
<1>7. ASSUME Current(w)
      PROVE  /\ job.desired = e /\ e # None
             /\ HedgeFree(Events \ {job.desired}) /\ HedgeThere /\ PnlThere
  BY <1>1, <1>2, <1>7, Names DEF PostTradeInv, OwnerTrue
<1>8. CASE Again(w) /\ quote' = quote /\ late' = late
  BY <1>4, <1>8, AgainKeeps DEF projections
<1>9. CASE GoOn(w, "mark") /\ quote' = quote /\ late' = late /\ quote = Pointed("settled", e, h, v)
  <2>1. quote.event = e /\ quote.status = "settled"
    BY <1>9 DEF Pointed
  <2>2. ASSUME Current(w) PROVE OwnerTrue(r)
    <3>1. QuoteThere
      BY <1>7, <2>1, <2>2 DEF QuoteThere
    <3>2. QED
      BY <1>5, <1>7, <2>2, <3>1 DEF OwnerTrue, Projected
  <2>3. QED
    BY <1>4, <1>5, <1>6, <1>9, <2>2, RunKeeps DEF projections
<1>10. CASE /\ CanPoint(e, h, v) /\ quote' = Pointed("settled", e, h, v)
            /\ Written("quote", Lost(w), TRUE) /\ GoOn(w, "mark")
  <2>1. late' = IF Lost(w) THEN late \cup {"quote"} ELSE late \ {"quote"}
    BY <1>10 DEF Written
  <2>2. /\ late' \subseteq {"quote", "pnl"} \cup Events /\ rows' = rows /\ job' = job
        /\ pnl' \in MaybeEvents /\ overdue' \in BOOLEAN /\ pnl' = pnl /\ hedge' = hedge
        /\ hedge' \in [Events -> HedgeStates]
    BY <1>1, <1>4, <2>1 DEF TypeOK, settlement
  <2>3. /\ quote' \in [status : Statuses, event : MaybeEvents, hedge : MaybeEvents, pnl : BOOLEAN]
        /\ quote'.event = e /\ quote'.status = "settled"
        /\ PointersAgree' /\ ProjectedTrue'
    BY <1>2, <1>10, <2>2, PointedFacts
  <2>4. Lost(w) => Mild
    BY <2>1, <2>2 DEF Mild
  <2>5. ASSUME Current(w) PROVE OwnerTrue(r)'
    <3>1. QuoteThere' /\ HedgeThere' /\ PnlThere'
      BY <1>2, <1>7, <2>1, <2>2, <2>3, <2>5, Names DEF QuoteThere, HedgeThere, PnlThere
    <3>2. HedgeFree(Events \ {job.desired})'
      BY <1>7, <2>1, <2>2, <2>5, Names DEF HedgeFree
    <3>3. Projected' /\ r.desired = job'.desired
      BY <1>5, <1>7, <2>2, <2>5, <3>1, <3>2 DEF Projected
    <3>4. QED
      BY <1>5, <3>3 DEF OwnerTrue
  <2>6. QED
    BY <1>4, <1>5, <1>6, <1>10, <2>2, <2>3, <2>4, <2>5, WorkerWriteKeeps
<1>11. QED
  BY <1>4, <1>8, <1>9, <1>10

-----------------------------------------------------------------------------
(* The invariant, and what it says.                                        *)

LEMMA InitEstablishes == Init => PostTradeInv
<1>1. SUFFICES ASSUME Init PROVE PostTradeInv
  OBVIOUS
<1>2. /\ job = [desired |-> None, revision |-> 0, processed |-> 0, owner |-> None, expired |-> FALSE]
      /\ quote = [status |-> "signed", event |-> None, hedge |-> None, pnl |-> FALSE]
      /\ reservation = [owner |-> None, expired |-> FALSE]
      /\ up \in Deployments /\ chain = None /\ reorgs = 0 /\ pnl = None /\ overdue = FALSE
      /\ faults = 0 /\ late = {}
      /\ rows = [e \in Events |-> "absent"] /\ hedge = [e \in Events |-> "none"]
      /\ gw = [g \in Gateways |-> NoRequest] /\ wk = [w \in Workers |-> NoJob]
  BY <1>1 DEF Init, Unsettled
<1>3. /\ job \in [desired : MaybeEvents, revision : Nat, processed : Nat,
                  owner : Workers \cup {None}, expired : BOOLEAN]
      /\ job.desired = None /\ job.revision = 0 /\ job.processed = 0 /\ job.owner = None
  BY <1>2 DEF MaybeEvents
<1>4. /\ quote \in [status : Statuses, event : MaybeEvents, hedge : MaybeEvents, pnl : BOOLEAN]
      /\ quote.status = "signed" /\ quote.event = None /\ quote.hedge = None /\ quote.pnl = FALSE
  BY <1>2 DEF MaybeEvents, Statuses
<1>5. /\ reservation \in [owner : Gateways \cup {None}, expired : BOOLEAN]
      /\ hedge \in [Events -> HedgeStates]
      /\ rows \in [Events -> {"absent", "canonical", "removed"}]
  BY <1>2 DEF HedgeStates
<1>6. gw \in [Gateways -> Gws] /\ wk \in [Workers -> Wks]
  BY <1>2, ServedFacts, NoJobFacts
<1>7. TypeOK
  <2>1. /\ up \in Deployments /\ chain \in MaybeEvents /\ pnl \in MaybeEvents
        /\ overdue \in BOOLEAN /\ late \subseteq {"quote", "pnl"} \cup Events
    BY <1>2 DEF MaybeEvents
  <2>2. reorgs \in 0 .. MaxReorgs /\ faults \in 0 .. MaxFaults
    BY <1>2, Names
  <2>3. job.processed <= job.revision
    BY <1>3
  <2>4. QED
    BY <1>3, <1>4, <1>5, <1>6, <2>1, <2>2, <2>3 DEF TypeOK
<1>8. JobTrue /\ PointersAgree /\ ProjectedTrue
  BY <1>2, <1>3, <1>4, Names DEF JobTrue, PointersAgree, ProjectedTrue
<1>9. \A g \in Gateways : GatewayTrue(g)
  BY <1>2, ServedFacts DEF GatewayTrue, Busy
<1>10. \A w \in Workers : WorkerTrue(wk[w]) /\ ~Current(w)
  BY <1>2, <1>3, NoJobFacts, Names DEF WorkerTrue, Current
<1>11. QED
  BY <1>3, <1>7, <1>8, <1>9, <1>10 DEF PostTradeInv

LEMMA NextKeeps == PostTradeInv /\ [Next]_vars => PostTradeInv'
<1>1. SUFFICES ASSUME PostTradeInv, [Next]_vars PROVE PostTradeInv'
  OBVIOUS
<1>2. CASE UNCHANGED vars
  BY <1>1, <1>2
     DEF vars, settlement, projections, PostTradeInv, TypeOK, JobTrue, PointersAgree,
         ProjectedTrue, Known, GatewayTrue, Busy, WorkerTrue, Current, OwnerTrue, Removed,
         QuoteFree, HedgeFree, HedgeThere, PnlThere, QuoteThere, Projected
<1>3. CASE Next
  <2>1. ASSUME NEW g \in Gateways,
               Submit(g) \/ FailHedge(g) \/ FailTrade(g) \/ FailMark(g) \/ GatewayDies(g)
        PROVE  PostTradeInv'
    BY <1>1, <2>1, QuietRequestKeeps, SeeRevertKeeps, ApplyEventKeeps, HedgeStepKeeps,
       RecordTradeKeeps, MarkStatusKeeps DEF Submit
  <2>2. ASSUME NEW w \in Workers, Reconcile(w) \/ StepFails(w) \/ WorkerDies(w) PROVE PostTradeInv'
    <3>1. CASE Claim(w) \/ List(w)
      BY <1>1, <3>1, ClaimKeeps, ListKeeps
    <3>2. CASE \E e \in Events : ClearQuote(w, e) \/ DropHedge(w, e)
      BY <1>1, <3>2, ClearQuoteKeeps, DropHedgeKeeps
    <3>3. CASE ForgetPnl(w) \/ CreateMissing(w) \/ RecordMissing(w) \/ RestoreQuote(w)
      BY <1>1, <3>3, ForgetPnlKeeps, CreateMissingKeeps, RecordMissingKeeps, RestoreQuoteKeeps
    <3>4. CASE Mark(w) \/ Retry(w) \/ StepFails(w) \/ WorkerDies(w)
      BY <1>1, <3>4, MarkKeeps, EndKeeps
    <3>5. QED
      BY <2>2, <3>1, <3>2, <3>3, <3>4 DEF Reconcile
  <2>3. ASSUME NEW g \in Gateways, NEW e \in MaybeEvents, Begin(g, e) PROVE PostTradeInv'
    BY <1>1, <2>3, QuietRequestKeeps
  <2>4. QED
    BY <1>1, <1>3, <2>1, <2>2, <2>3, ChainKeeps, IndexKeeps, MarkExpiredKeeps,
       ReservationExpiresKeeps, LeaseExpiresKeeps DEF Next
<1>4. QED
  BY <1>1, <1>2, <1>3

LEMMA Invariance == Spec => []PostTradeInv
BY InitEstablishes, NextKeeps, PTL DEF Spec

\* Every state is of the types the module declares.
THEOREM PostTradeTypes == Spec => []TypeOK
<1>1. PostTradeInv => TypeOK
  BY DEF PostTradeInv
<1>2. QED
  BY <1>1, Invariance, PTL

\* A settlement event whose job is marked processed is projected in full, and a
\* removed one taken back, for any gateways, workers, leases that run out and
\* reorgs, but for the rows that were last written late.
THEOREM MarkedIsProjected == Spec => []ProcessedIsProjected
<1>1. PostTradeInv => ProcessedIsProjected
  <2>1. SUFFICES ASSUME PostTradeInv, Processed PROVE Reconciled(late)
    BY DEF ProcessedIsProjected
  <2>2. Projected /\ PointersAgree /\ ProjectedTrue
    BY <2>1 DEF PostTradeInv, Processed
  <2>3. "pnl" \in late \/ pnl = job.desired
    BY <2>2 DEF Projected, PnlThere
  <2>4. \A e \in Events \ late : hedge[e] # IF e = job.desired THEN "none" ELSE "queued"
    BY <2>2, Names DEF Projected, HedgeFree, HedgeThere
  <2>5. ASSUME "quote" \notin late, job.desired = None
        PROVE  quote.event = None /\ quote.hedge = None /\ ~quote.pnl
    <3>1. quote.event = None
      BY <2>2, <2>5 DEF Projected, QuoteFree
    <3>2. QED
      BY <2>2, <3>1 DEF PointersAgree, ProjectedTrue
  <2>6. ASSUME "quote" \notin late, job.desired # None
        PROVE  quote.event = job.desired /\ quote.status = "settled"
    BY <2>2, <2>6 DEF Projected, QuoteThere
  <2>7. QED
    BY <2>3, <2>4, <2>5, <2>6 DEF Reconciled
<1>2. QED
  BY <1>1, Invariance, PTL

\* Of any number of gateways, one at a time is past the submit reservation of a
\* quote, but for those whose own lease ran out at work: whatever these do, and
\* release, later does not let a third one in beside the second.
THEOREM ReservationExcludes == Spec => []OneSubmitter
<1>1. PostTradeInv => OneSubmitter
  BY DEF PostTradeInv, OneSubmitter, GatewayTrue
<1>2. QED
  BY <1>1, Invariance, PTL

\* The hedge order and the PnL record a quote points at exist, and the order is
\* that of the settlement the quote points at.
THEOREM PointersStayTogether == Spec => []PointersAgree
<1>1. PostTradeInv => PointersAgree
  BY DEF PostTradeInv
<1>2. QED
  BY <1>1, Invariance, PTL
===============================================================================
