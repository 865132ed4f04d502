--------------------------- MODULE QuoteProjection ---------------------------
(***************************************************************************)
(* The asynchronous PostgreSQL projection of the issuance ledger.  Every   *)
(* ledger script appends a cumulative event to a Redis stream; the mirrors *)
(* of the gateway replicas form one consumer group and apply the events    *)
(* in a transaction each, mark the quote as projected, and acknowledge.    *)
(* Delivery is at least once and, between mirrors, in any order; gateways  *)
(* and clients change the same rows of quotes directly.                    *)
(* An event is named by its position in the stream.  QuoteIssuance models  *)
(* the ledger in full; here only the order of its events matters.          *)
(***************************************************************************)
EXTENDS Naturals, Sequences, FiniteSets

CONSTANTS
    Quotes,
    Keyed,         \* the quotes requested with an Idempotency-Key
    Mirrors,       \* the consumers of the group
    BatchSize,     \* entries per XREADGROUP or XAUTOCLAIM
    MaxFaults,     \* bound: mirror crashes and storage errors
    GatewayMarks   \* bound: the quotes whose rows a gateway marks itself

ASSUME ProjectionAssumption ==
    /\ Keyed \subseteq Quotes
    /\ BatchSize \in Nat \ {0}
    /\ MaxFaults \in Nat
    /\ GatewayMarks \subseteq Quotes

VARIABLES
    stage,      \* the ledger's quote records
    key,        \* the state of each quote's idempotency record in the ledger
    stream,     \* every event ever appended
    delivered,  \* the group's last delivered position
    pending,    \* the pending entries, one set per delivery (they idle together)
    batch,      \* the entries each mirror has still to process
    step,       \* what each mirror does next with the first of them
    recorded,   \* quote_issuance_journal_events
    version,    \* quote_issuance_projection_versions, 0 for no row
    status,     \* quotes.status
    keyState,   \* quote_idempotency_requests.state
    marker,     \* the projected stage in Redis
    faults

ledger == <<stage, key, stream>>
group == <<delivered, pending>>
postgres == <<recorded, version, status, keyState>>
vars == <<ledger, group, batch, step, postgres, marker, faults>>

Positions == 1 .. Len(stream)

Stages == {"absent", "authorized", "declined", "finalized", "failed"}

KeyStates == {"none", "processing", "succeeded", "failed"}

Statuses == {"absent", "requested", "rejected", "signed", "submitted",
             "expired", "failed"}

Event ==
    [q : Quotes, stage : Stages \ {"absent"}, key : KeyStates,
     quoted : BOOLEAN]   \* whether the event carries the quote record

\* eventTypeRank and projectionRank.
Rank(s) == CASE s = "absent" -> 0
             [] s \in {"authorized", "declined"} -> 2
             [] s = "failed" -> 3
             [] s = "finalized" -> 4

TypeOK ==
    /\ stage \in [Quotes -> Stages]
    /\ key \in [Quotes -> KeyStates]
    /\ stream \in Seq(Event)
    /\ delivered \in 0 .. Len(stream)
    /\ pending \subseteq SUBSET Positions
    /\ batch \in [Mirrors -> SUBSET Positions]
    /\ step \in [Mirrors -> {"apply", "mark", "ack"}]
    /\ recorded \subseteq Positions
    /\ version \in [Quotes -> 0 .. Len(stream)]
    /\ status \in [Quotes -> Statuses]
    /\ keyState \in [Quotes -> KeyStates]
    /\ marker \in [Quotes -> Stages]
    /\ faults \in 0 .. MaxFaults

Init ==
    /\ stage = [q \in Quotes |-> "absent"]
    /\ key = [q \in Quotes |-> IF q \in Keyed THEN "processing" ELSE "none"]
    /\ stream = <<>>
    /\ delivered = 0
    /\ pending = {}
    /\ batch = [m \in Mirrors |-> {}]
    /\ step = [m \in Mirrors |-> "apply"]
    /\ recorded = {}
    /\ version = [q \in Quotes |-> 0]
    /\ status = [q \in Quotes |-> "absent"]
    /\ keyState = [q \in Quotes |-> "none"]
    /\ marker = [q \in Quotes |-> "absent"]
    /\ faults = 0

-----------------------------------------------------------------------------
(* The ledger: each script writes its records and appends one event.       *)

Publish(q, s, k, quoted) ==
    /\ stream' = Append(stream, [q |-> q, stage |-> s, key |-> k, quoted |-> quoted])
    /\ UNCHANGED <<group, batch, step, postgres, marker, faults>>

Authorize(q) ==
    /\ stage[q] = "absent"
    /\ key[q] \in {"none", "processing"}
    /\ \E s \in {"authorized", "declined"} :
           /\ stage' = [stage EXCEPT ![q] = s]
           /\ Publish(q, s, key[q], TRUE)
    /\ UNCHANGED key

Finalize(q) ==
    /\ stage[q] = "authorized"
    /\ key[q] \in {"none", "processing"}
    /\ stage' = [stage EXCEPT ![q] = "finalized"]
    /\ key' = IF q \in Keyed THEN [key EXCEPT ![q] = "succeeded"] ELSE key
    /\ Publish(q, "finalized", key'[q], TRUE)

FailKey(q) ==
    /\ key[q] = "processing"
    /\ key' = [key EXCEPT ![q] = "failed"]
    /\ stage' = IF stage[q] = "authorized" THEN [stage EXCEPT ![q] = "failed"] ELSE stage
    /\ Publish(q, "failed", "failed", stage[q] = "authorized")

Ledger(q) == Authorize(q) \/ Finalize(q) \/ FailKey(q)

-----------------------------------------------------------------------------
(* Writes to the quotes table that do not come through the stream.         *)

WriteStatus(q, s) ==
    /\ status' = [status EXCEPT ![q] = s]
    /\ UNCHANGED <<ledger, group, batch, step, recorded, version, keyState,
                   marker, faults>>

\* markQuoteFailedBestEffort of a gateway whose request ended in an error.
MarkFailed(q) ==
    /\ q \in GatewayMarks
    /\ status[q] \in {"requested", "signed"}
    /\ WriteStatus(q, "failed")

\* A client submits the signed quote: requireSubmittableSignedQuote waits for
\* the projection marker before it looks at the row.
Submit(q) ==
    /\ marker[q] = "finalized"
    /\ status[q] = "signed"
    /\ WriteStatus(q, "submitted")

Expire(q) ==
    /\ status[q] = "signed"
    /\ WriteStatus(q, "expired")

-----------------------------------------------------------------------------
(* Delivery: XREADGROUP of new entries, or XAUTOCLAIM of idle ones.        *)

\* The first n elements of a set of positions, or all when it has fewer.
FirstOf(S, n) == {e \in S : Cardinality({f \in S : f < e}) < n}

Receive(m, entries) ==
    /\ batch' = [batch EXCEPT ![m] = entries]
    /\ step' = [step EXCEPT ![m] = "apply"]
    /\ UNCHANGED <<ledger, postgres, marker, faults>>

\* Faulty variant of ReadNew: the position moves by a full batch.
ReadNewFullBatch(m) ==
    /\ batch[m] = {}
    /\ delivered < Len(stream)
    /\ LET entries == FirstOf((delivered + 1) .. Len(stream), BatchSize) IN
       /\ delivered' = delivered + BatchSize
       /\ pending' = pending \cup {entries}
       /\ Receive(m, entries)

ReadNew(m) ==
    /\ batch[m] = {}
    /\ delivered < Len(stream)
    /\ LET entries == FirstOf((delivered + 1) .. Len(stream), BatchSize) IN
       /\ delivered' = delivered + Cardinality(entries)
       /\ pending' = pending \cup {entries}
       /\ Receive(m, entries)

\* Whatever deliveries have been idle for claimIdleMs, of a crashed mirror, of
\* a failed cycle, or of a mirror that is only slow.
ReadClaimed(m) ==
    /\ batch[m] = {}
    /\ \E idle \in SUBSET pending \ {{}} :
           LET entries == FirstOf(UNION idle, BatchSize) IN
           /\ pending' = ((pending \ idle) \cup {p \ entries : p \in idle}
                          \cup {entries}) \ {{}}
           /\ Receive(m, entries)
    /\ UNCHANGED delivered

Fetch(m) == ReadNew(m) \/ ReadClaimed(m)

-----------------------------------------------------------------------------
(* Processing: applyMirrored, the projection marker, XACK and XDEL.        *)

First(m) == CHOOSE e \in batch[m] : \A f \in batch[m] : e <= f

\* Faulty variant of Stale: positions are not compared.
StaleNever(e) == FALSE

Stale(e) == version[stream[e].q] # 0 /\ e <= version[stream[e].q]

\* What the row becomes when the stages that follow the version already
\* projected are applied, "conflict" when a statement finds no row to update.
Prepared(q, s) ==
    IF version[q] # 0 THEN status[q]
    ELSE IF status[q] \notin {"absent", "requested"} THEN "conflict"
    ELSE IF s = "declined" THEN "rejected" ELSE "requested"

\* Faulty variant of Projected: the recorded decision is not looked at.
ProjectedApproved(e) ==
    LET s == stream[e].stage
        base == Prepared(stream[e].q, "authorized")
    IN CASE s \in {"authorized", "declined"} -> base
         [] s = "finalized" -> IF base \in {"requested", "signed"} THEN "signed" ELSE "conflict"
         [] s = "failed" -> IF base \in {"requested", "signed"} THEN "failed" ELSE "conflict"

Projected(e) ==
    LET s == stream[e].stage
        base == Prepared(stream[e].q, s)
    IN CASE s \in {"authorized", "declined"} -> base
         [] s = "finalized" -> IF base \in {"requested", "signed"} THEN "signed" ELSE "conflict"
         [] s = "failed" -> IF base \in {"requested", "signed"} THEN "failed" ELSE "conflict"

\* projectIdempotency: a processing record never overwrites a verdict, and a
\* verdict never another one.
KeyConflict(e) ==
    /\ stream[e].key \in {"succeeded", "failed"}
    /\ keyState[stream[e].q] \in {"succeeded", "failed"} \ {stream[e].key}

ProjectKey(e) ==
    LET q == stream[e].q IN
    keyState' =
        IF stream[e].key \in {"succeeded", "failed"} \/ keyState[q] = "none"
        THEN [keyState EXCEPT ![q] = stream[e].key] ELSE keyState

\* The transaction throws and is rolled back.
Conflicts(e) ==
    /\ e \notin recorded
    /\ \/ ~stream[e].quoted /\ KeyConflict(e)
       \/ /\ stream[e].quoted /\ ~Stale(e)
          /\ \/ /\ version[stream[e].q] # 0
                /\ Rank(stream[e].stage) < Rank(stream[version[stream[e].q]].stage)
             \/ Projected(e) = "conflict"
             \/ KeyConflict(e)

ApplyDuplicate(e) ==
    /\ e \in recorded
    /\ UNCHANGED postgres

ApplyStale(e) ==
    /\ e \notin recorded
    /\ stream[e].quoted /\ Stale(e)
    /\ recorded' = recorded \cup {e}
    /\ UNCHANGED <<version, status, keyState>>

ApplyQuote(e) ==
    /\ e \notin recorded
    /\ stream[e].quoted /\ ~Stale(e)
    /\ ~Conflicts(e)
    /\ recorded' = recorded \cup {e}
    /\ status' = [status EXCEPT ![stream[e].q] = Projected(e)]
    /\ version' = [version EXCEPT ![stream[e].q] = e]
    /\ ProjectKey(e)

ApplyKey(e) ==
    /\ e \notin recorded
    /\ ~stream[e].quoted
    /\ ~Conflicts(e)
    /\ recorded' = recorded \cup {e}
    /\ ProjectKey(e)
    /\ UNCHANGED <<version, status>>

Apply(m) ==
    /\ batch[m] # {} /\ step[m] = "apply"
    /\ LET e == First(m) IN
       ApplyDuplicate(e) \/ ApplyStale(e) \/ ApplyQuote(e) \/ ApplyKey(e)
    /\ step' = [step EXCEPT ![m] = "mark"]
    /\ UNCHANGED <<ledger, group, batch, marker, faults>>

\* The cycle ends in an error: what is left of the batch stays pending.
Drop(m) ==
    /\ batch' = [batch EXCEPT ![m] = {}]
    /\ step' = [step EXCEPT ![m] = "apply"]

\* Faulty variant of Reject: the entry is acknowledged and skipped.
RejectAcknowledges(m) ==
    /\ batch[m] # {} /\ step[m] = "apply"
    /\ Conflicts(First(m))
    /\ pending' = {p \ {First(m)} : p \in pending} \ {{}}
    /\ batch' = [batch EXCEPT ![m] = @ \ {First(m)}]
    /\ UNCHANGED <<ledger, delivered, postgres, step, marker, faults>>

Reject(m) ==
    /\ batch[m] # {} /\ step[m] = "apply"
    /\ Conflicts(First(m))
    /\ Drop(m)
    /\ UNCHANGED <<ledger, group, postgres, marker, faults>>

\* Faulty variant of MarkProjected: the marker follows the last event marked.
MarkProjectedLast(e) ==
    marker' = IF stream[e].quoted
              THEN [marker EXCEPT ![stream[e].q] = stream[e].stage] ELSE marker

\* markQuoteIssuanceProjectedScript.
MarkProjected(e) ==
    LET q == stream[e].q IN
    marker' = IF stream[e].quoted /\ Rank(marker[q]) <= Rank(stream[e].stage)
              THEN [marker EXCEPT ![q] = stream[e].stage] ELSE marker

Mark(m) ==
    /\ step[m] = "mark"
    /\ MarkProjected(First(m))
    /\ step' = [step EXCEPT ![m] = "ack"]
    /\ UNCHANGED <<ledger, group, batch, postgres, faults>>

\* Only the first of two acknowledgements of an entry counts; the mirror that
\* comes second ends its cycle with an error.
Acknowledge(m) ==
    /\ step[m] = "ack"
    /\ LET e == First(m) IN
       IF e \in UNION pending
       THEN /\ pending' = {p \ {e} : p \in pending} \ {{}}
            /\ batch' = [batch EXCEPT ![m] = @ \ {e}]
            /\ step' = [step EXCEPT ![m] = "apply"]
       ELSE /\ Drop(m)
            /\ UNCHANGED pending
    /\ UNCHANGED <<ledger, delivered, postgres, marker, faults>>

\* A crash and restart of the mirror, or an error of Redis or PostgreSQL.
Interrupt(m) ==
    /\ faults < MaxFaults
    /\ batch[m] # {}
    /\ faults' = faults + 1
    /\ Drop(m)
    /\ UNCHANGED <<ledger, group, postgres, marker>>

Process(m) == Apply(m) \/ Reject(m) \/ Mark(m) \/ Acknowledge(m)

Next ==
    \/ \E q \in Quotes : Ledger(q) \/ MarkFailed(q) \/ Submit(q) \/ Expire(q)
    \/ \E m \in Mirrors : Fetch(m) \/ Process(m) \/ Interrupt(m)

Spec == Init /\ [][Next]_vars

\* Every mirror loops over runOnce: it goes on with the batch it holds, and
\* fetches another while there are entries to be had.  Claimed entries are not
\* idle again before claimIdleMs, so claims never keep it from new entries.
Fairness == \A m \in Mirrors :
    /\ WF_vars(Process(m))
    /\ WF_vars(Fetch(m))
    /\ SF_vars(ReadNew(m))

FairSpec == Spec /\ Fairness
-----------------------------------------------------------------------------
(* Properties. *)

Acknowledged == {e \in 1 .. delivered : e \notin UNION pending}

(***************************************************************************)
(* An entry leaves the stream only after PostgreSQL recorded it: a crash,  *)
(* an error or a second delivery never loses an event of the journal.      *)
(***************************************************************************)
NothingLost == Acknowledged \subseteq recorded

(***************************************************************************)
(* The marker is a barrier: /submit and GET /quote trust it, so it never   *)
(* runs ahead of the projected version, and an acknowledged event is       *)
(* covered by it even when a mirror marks an older event later.            *)
(***************************************************************************)
MarkerIsBarrier ==
    /\ \A q \in Quotes : marker[q] # "absent" =>
           /\ version[q] # 0
           /\ Rank(marker[q]) <= Rank(stream[version[q]].stage)
    /\ \A e \in Acknowledged : stream[e].quoted =>
           Rank(stream[e].stage) <= Rank(marker[stream[e].q])

\* The statuses a row can have once the ledger's stage s is projected.
StatusesOf(s) ==
    CASE s = "absent" -> {"absent"}
      [] s = "declined" -> {"rejected"}
      [] s = "authorized" -> {"requested"}
      [] s = "failed" -> {"failed"}
      [] s = "finalized" -> {"signed", "submitted", "expired"}

(***************************************************************************)
(* Whatever the order of delivery, a row shows the stage of the newest     *)
(* event applied to it, unless a gateway marked it failed; and the key's   *)
(* row never has a verdict the ledger does not have.                       *)
(***************************************************************************)
RowsAgree ==
    \A q \in Quotes :
        /\ \/ status[q] \in StatusesOf(IF version[q] = 0 THEN "absent"
                                       ELSE stream[version[q]].stage)
           \/ q \in GatewayMarks /\ status[q] = "failed"
        /\ keyState[q] \in {"succeeded", "failed"} => keyState[q] = key[q]

\* A gateway marked the row: it shows a failure that no event brought.
MarkedByGateway(q) ==
    /\ status[q] = "failed"
    /\ version[q] = 0 \/ stream[version[q]].stage # "failed"

(***************************************************************************)
(* Once the ledger rests, every event is acknowledged and the barrier of   *)
(* every quote stands at its final stage, however the mirrors crash and    *)
(* claim each other's entries and clients change the rows, unless a        *)
(* gateway marked a row itself: its quote's last event may then match no   *)
(* row and be claimed for ever.                                            *)
(***************************************************************************)
Converges ==
    <>[]( \/ /\ Acknowledged = Positions
             /\ \A q \in Quotes : marker[q] = stage[q]
          \/ \E q \in Quotes : MarkedByGateway(q) )

(***************************************************************************)
(* The same for one quote when gateways also mark rows failed: a finalized *)
(* quote reaches PostgreSQL unless its own row was marked, whatever        *)
(* happened to the others.  (ADR-0021: "Ordered cumulative projection      *)
(* handles consumer crashes, stale claims, duplicate delivery and exposure *)
(* foreign-key ordering".)                                                 *)
(***************************************************************************)
FinalizedIsProjected ==
    \A q \in Quotes : stage[q] = "finalized" ~>
        status[q] \in {"signed", "submitted", "expired", "failed"}
=============================================================================
