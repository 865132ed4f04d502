---------------------------- MODULE QuoteExposure ----------------------------
(***************************************************************************)
(* The exposure ledger of one chain in Redis: the open reservations, the   *)
(* running totals and net token deltas derived from them, and a generation *)
(* that counts their changes.  Gateways evaluate portfolio limits on a     *)
(* cached or freshly read state and commit by compare-and-set on its       *)
(* generation; releases take a leased lock instead.  Every script is one   *)
(* action, every await between scripts a point where others step in.       *)
(***************************************************************************)
EXTENDS Integers, FiniteSets, FiniteSetsExt

CONSTANTS
    Quotes,
    Gateways,
    None,
    GatewayOf,      \* the gateway that serves a quote's request
    Buckets,        \* the user, pair and output totals
    Uses,           \* what a quote adds to each bucket
    Bound,          \* what a quote's totals may reach: the user and pair limits,
                    \* and the treasury balance its request observed
    Delta,          \* what a quote adds to the net token position
    DeltaLimit,     \* the band portfolio evaluation keeps the position in
    CleanupLimit,   \* expired reservations one script removes
    Expiring,       \* bound: the quotes whose deadline passes
    MaxFaults       \* bound: lost replies, failed calls, a full backlog at a
                    \* release, expired locks and restarts

ASSUME ExposureAssumption ==
    /\ IsFiniteSet(Quotes)
    /\ None \notin Gateways
    /\ GatewayOf \in [Quotes -> Gateways]
    /\ Uses \in [Quotes -> [Buckets -> Nat]]
    /\ Bound \in [Quotes -> [Buckets -> Nat]]
    /\ Delta \in [Quotes -> Int]
    /\ DeltaLimit \in Nat
    /\ CleanupLimit \in Nat \ {0}
    /\ Expiring \subseteq Quotes
    /\ MaxFaults \in Nat

VARIABLES
    records,     \* the reservations, KEYS[1] and KEYS[2]
    totals,      \* KEYS[3], KEYS[4] and KEYS[5]
    net,         \* KEYS[6]
    generation,  \* KEYS[9]
    lock,        \* KEYS[8], the gateway whose token it holds
    age,         \* whether a quote's deadline and ledgerExpiresAt have passed
    cache,       \* hotStates of each gateway
    step,        \* where each quote's reservation is in reserveNormalized
    view,        \* the state it was evaluated on
    reply,       \* what the last commit script answered
    late,        \* commits whose caller has gone but that may still run
    releasing,   \* the release each gateway runs
    faults,
    gone         \* history: the reservations ever removed

redis == <<records, totals, net, generation, gone>>
vars == <<redis, lock, age, cache, step, view, reply, late, releasing, faults>>

\* A gateway that has no state of the ledger knows generation -1 of it.
Unknown == [net |-> 0, generation |-> -1]

States == [net : Int, generation : Int]

\* The state a reservation works on, and none while it works on no state.
Views == [state : States, cached : BOOLEAN, existing : BOOLEAN]

NoView == [state |-> Unknown, cached |-> FALSE, existing |-> FALSE]

Steps == {"start", "read", "evaluate", "commit", "recommit", "replied",
          "reserved", "rejected", "error"}

Answers == {"conflict", "duplicate", "error", "rejected", "reserved"}

Release == [step : {"idle", "lock", "script", "replied"}, quote : Quotes \cup {None}]

Idle == [step |-> "idle", quote |-> None]

TypeOK ==
    /\ records \subseteq Quotes
    /\ totals \in [Buckets -> Nat]
    /\ net \in Int
    /\ generation \in Nat
    /\ lock \in Gateways \cup {None}
    /\ age \in [Quotes -> {"open", "closed", "over"}]
    /\ cache \in [Gateways -> States]
    /\ step \in [Quotes -> Steps]
    /\ view \in [Quotes -> Views]
    /\ reply \in [Quotes -> Answers \cup {"none"}]
    /\ late \subseteq Quotes
    /\ releasing \in [Gateways -> Release]
    /\ faults \in 0 .. MaxFaults
    /\ gone \subseteq Quotes

Init ==
    /\ records = {}
    /\ totals = [b \in Buckets |-> 0]
    /\ net = 0
    /\ generation = 0
    /\ lock = None
    /\ age = [q \in Quotes |-> "open"]
    /\ cache = [g \in Gateways |-> Unknown]
    /\ step = [q \in Quotes |-> "start"]
    /\ view = [q \in Quotes |-> NoView]
    /\ reply = [q \in Quotes |-> "none"]
    /\ late = {}
    /\ releasing = [g \in Gateways |-> Idle]
    /\ faults = 0
    /\ gone = {}

Goto(q, s) == step' = [step EXCEPT ![q] = s]

Fault == faults < MaxFaults /\ faults' = faults + 1

DropView(q) == view' = [view EXCEPT ![q] = NoView]

Forget(g) == cache' = [cache EXCEPT ![g] = Unknown]

-----------------------------------------------------------------------------
(* What the scripts do to the ledger.                                      *)

\* What each quote adds to the bucket b.
Usage(b) == [q \in Quotes |-> Uses[q][b]]

Used(S, b) == MapThenSumSet(LAMBDA q : Usage(b)[q], S)

Shift(S) == MapThenSumSet(LAMBDA q : Delta[q], S)

\* The net position n without the reservations C.
Without(n, C) == IF C = {} THEN n ELSE n - Shift(C)

\* Faulty variants of Remove: the tokens' signs are those of the reservation,
\* and the generation counts reservations only.
RemoveUnsigned(C) ==
    /\ records' = records \ C
    /\ totals' = [b \in Buckets |-> totals[b] - Used(C, b)]
    /\ net' = net + Shift(C)
    /\ generation' = generation + Cardinality(C)
    /\ gone' = gone \cup C

RemoveUncounted(C) ==
    /\ records' = records \ C
    /\ totals' = [b \in Buckets |-> totals[b] - Used(C, b)]
    /\ net' = Without(net, C)
    /\ UNCHANGED generation
    /\ gone' = gone \cup C

\* remove_record on each of the reservations C.
Remove(C) ==
    /\ records' = records \ C
    /\ totals' = [b \in Buckets |-> totals[b] - Used(C, b)]
    /\ net' = Without(net, C)
    /\ generation' = generation + Cardinality(C)
    /\ gone' = gone \cup C

\* remove_record on C, then apply_quote_exposure_reservation.
Add(q, C) ==
    /\ records' = (records \ C) \cup {q}
    /\ totals' = [b \in Buckets |-> totals[b] - Used(C, b) + Uses[q][b]]
    /\ net' = Without(net, C) + Delta[q]
    /\ generation' = generation + Cardinality(C) + 1
    /\ gone' = gone \cup C

Overdue == {q \in records : age[q] = "over"}

\* Faulty variant of Cleaned: expired reservations are only counted.
CleanedNone(C) == C = {}

\* clean_expired: the reservations C that one script removes.
Cleaned(C) ==
    /\ C \subseteq Overdue
    /\ Cardinality(C) <= CleanupLimit
    /\ C # Overdue => Cardinality(C) = CleanupLimit

Counts(q, b) == Uses[q][b] > 0

Fits(q, C) == \A b \in Buckets :
    Counts(q, b) => totals[b] - Used(C, b) + Uses[q][b] <= Bound[q][b]

\* Faulty variant of Verdicts: the generation is not compared.
VerdictsUnversioned(q, v, C) ==
    CASE C # Overdue                      -> {"conflict"}
      [] C = Overdue /\ q \in records \ C -> {"duplicate"}
      [] C = Overdue /\ q \notin records \ C ->
            IF age[q] # "open" THEN {"error"}
            ELSE IF ~Fits(q, C) THEN {"rejected", "error"}
            ELSE {"reserved", "error"}

\* prepare_quote_exposure_reservation for the state v, after the cleanup; a
\* full backlog or the issuance half of a joint admission may refuse as well.
Verdicts(q, v, C) ==
    CASE C # Overdue                              -> {"conflict"}
      [] C = Overdue /\ q \in records \ C         -> {"duplicate", "error"}
      [] C = Overdue /\ q \notin records \ C ->
            IF generation + Cardinality(C) # v.generation THEN {"conflict"}
            ELSE IF age[q] # "open" THEN {"error"}
            ELSE IF ~Fits(q, C) THEN {"rejected", "error"}
            ELSE {"reserved", "error"}

Execute(q, v, a) ==
    \E C \in SUBSET Overdue :
        /\ Cleaned(C)
        /\ a \in Verdicts(q, v, C)
        /\ IF a = "reserved" THEN Add(q, C) ELSE Remove(C)

-----------------------------------------------------------------------------
(* reserveNormalized: one reservation of a gateway at a time.              *)

Active(q) == step[q] \in {"read", "evaluate", "commit", "recommit", "replied"}

Acceptable(n) == -DeltaLimit <= n /\ n <= DeltaLimit

\* The reservation reaches the head of the gateway's queue.
Start(q) ==
    LET g == GatewayOf[q] IN
    /\ step[q] = "start"
    /\ \A p \in Quotes : GatewayOf[p] = g => ~Active(p)
    /\ IF cache[g] = Unknown
       THEN Goto(q, "read") /\ UNCHANGED view
       ELSE /\ Goto(q, "evaluate")
            /\ view' = [view EXCEPT ![q] = [state |-> cache[g], cached |-> TRUE,
                                            existing |-> FALSE]]
    /\ UNCHANGED <<redis, lock, age, cache, reply, late, releasing, faults>>

\* readVersionedQuoteExposureStateScript; asked again while expired
\* reservations remain.
Read(q) ==
    /\ step[q] = "read"
    /\ \E C \in SUBSET Overdue :
           /\ Cleaned(C)
           /\ Remove(C)
           /\ IF C # Overdue
              THEN UNCHANGED <<step, view>>
              ELSE /\ Goto(q, "evaluate")
                   /\ view' = [view EXCEPT ![q] =
                         [state |-> [net |-> net', generation |-> generation'],
                          cached |-> FALSE, existing |-> q \in records']]
    /\ UNCHANGED <<lock, age, cache, reply, late, releasing, faults>>

\* A state just read is cached; a rejection on a cached state is not final, and
\* reading the inventory or the prices may fail.
Evaluate(q) ==
    LET v == view[q] IN
    /\ step[q] = "evaluate"
    /\ cache' = IF v.cached THEN cache ELSE [cache EXCEPT ![GatewayOf[q]] = v.state]
    /\ \/ /\ v.existing \/ Acceptable(v.state.net + Delta[q])
          /\ Goto(q, "commit")
          /\ UNCHANGED <<view, faults>>
       \/ /\ ~v.existing
          /\ ~Acceptable(v.state.net + Delta[q])
          /\ Goto(q, IF v.cached THEN "read" ELSE "rejected")
          /\ DropView(q)
          /\ UNCHANGED faults
       \/ /\ ~v.existing
          /\ Fault
          /\ Goto(q, "error")
          /\ DropView(q)
    /\ UNCHANGED <<redis, lock, age, reply, late, releasing>>

\* The script runs; when the reply is lost the driver sends it again, and the
\* caller waits for that answer or has it fail on the way.
Commit(q) ==
    /\ step[q] \in {"commit", "recommit"}
    /\ \E a \in Answers :
           /\ Execute(q, view[q].state, a)
           /\ \/ /\ Goto(q, "replied")
                 /\ reply' = [reply EXCEPT ![q] = a]
                 /\ UNCHANGED <<late, faults>>
              \/ /\ step[q] = "commit"
                 /\ Fault
                 /\ \/ Goto(q, "recommit") /\ UNCHANGED late
                    \/ Goto(q, "error") /\ late' = late \cup {q}
                 /\ UNCHANGED reply
    /\ UNCHANGED <<lock, age, cache, view, releasing>>

\* The call fails at the gateway before the script has run; a commit may still.
Abandon(q) ==
    /\ step[q] \in {"read", "commit", "recommit"}
    /\ Fault
    /\ Goto(q, "error")
    /\ late' = IF step[q] = "read" THEN late ELSE late \cup {q}
    /\ UNCHANGED <<redis, lock, age, cache, view, reply, releasing>>

LateCommit(q) ==
    /\ q \in late
    /\ late' = late \ {q}
    /\ \E a \in Answers : Execute(q, view[q].state, a)
    /\ DropView(q)
    /\ UNCHANGED <<lock, age, cache, step, reply, releasing, faults>>

\* Too few replica acknowledgements turn an accepted reservation into an error.
Accepted(q) ==
    \/ Goto(q, "reserved") /\ UNCHANGED faults
    \/ Goto(q, "error") /\ Fault

TakeReserved(q) ==
    /\ reply[q] = "reserved"
    /\ cache' = [cache EXCEPT ![GatewayOf[q]] =
                    [net |-> view[q].state.net + Delta[q],
                     generation |-> view[q].state.generation + 1]]
    /\ Accepted(q)

TakeDuplicate(q) ==
    /\ reply[q] = "duplicate"
    /\ IF view[q].cached THEN Forget(GatewayOf[q]) ELSE UNCHANGED cache
    /\ Accepted(q)

\* The state is read again, until lockAcquireTimeoutMs have passed.
TakeConflict(q) ==
    /\ reply[q] = "conflict"
    /\ \E s \in {"read", "error"} : Goto(q, s)
    /\ UNCHANGED <<cache, faults>>

TakeRefusal(q) ==
    /\ reply[q] \in {"rejected", "error"}
    /\ Goto(q, reply[q])
    /\ UNCHANGED <<cache, faults>>

TakeReply(q) ==
    /\ step[q] = "replied"
    /\ TakeReserved(q) \/ TakeDuplicate(q) \/ TakeConflict(q) \/ TakeRefusal(q)
    /\ DropView(q)
    /\ reply' = [reply EXCEPT ![q] = "none"]
    /\ UNCHANGED <<redis, lock, age, late, releasing>>

-----------------------------------------------------------------------------
(* release: of a request that failed without a committed signature, or of  *)
(* an expired quote whose status any gateway was asked for.                *)

Probe(g, q) ==
    /\ releasing[g] = Idle
    /\ step[q] \in {"reserved", "error"}
    /\ GatewayOf[q] = g \/ age[q] # "open"
    /\ q \in records
    /\ releasing' = [releasing EXCEPT ![g] = [step |-> "lock", quote |-> q]]
    /\ UNCHANGED <<redis, lock, age, cache, step, view, reply, late, faults>>

\* A lost reply leaves the lock to nobody: asked again, it is taken.
TakeLock(g) ==
    /\ releasing[g].step = "lock"
    /\ lock = None
    /\ lock' = g
    /\ \/ releasing' = [releasing EXCEPT ![g].step = "script"] /\ UNCHANGED faults
       \/ Fault /\ UNCHANGED releasing
    /\ UNCHANGED <<redis, age, cache, step, view, reply, late>>

LockTimeout(g) ==
    /\ releasing[g].step = "lock"
    /\ lock # None
    /\ releasing' = [releasing EXCEPT ![g] = Idle]
    /\ UNCHANGED <<redis, lock, age, cache, step, view, reply, late, faults>>

LockLost(g) ==
    /\ lock # g
    /\ releasing' = [releasing EXCEPT ![g] = Idle]
    /\ UNCHANGED <<redis, lock, faults>>

\* The backlog is full, or the call fails and releaseLock gives the lock back.
ReleaseRefused(g) ==
    /\ lock = g
    /\ Fault
    /\ lock' = None
    /\ releasing' = [releasing EXCEPT ![g] = Idle]
    /\ UNCHANGED redis

\* A lost reply makes the driver send the script again, to find the lock gone.
Released(g) ==
    /\ lock = g
    /\ lock' = None
    /\ Remove({releasing[g].quote} \cap records)
    /\ \/ releasing' = [releasing EXCEPT ![g].step = "replied"] /\ UNCHANGED faults
       \/ Fault /\ UNCHANGED releasing

\* Faulty variant of ReleaseScript: the payload read by the probe is removed
\* without looking whether it is still there.
ReleaseScriptBlind(g) ==
    /\ releasing[g].step = "script"
    /\ lock' = None
    /\ Remove({releasing[g].quote})
    /\ releasing' = [releasing EXCEPT ![g].step = "replied"]
    /\ UNCHANGED <<age, cache, step, view, reply, late, faults>>

\* releaseQuoteExposureReservationScript.
ReleaseScript(g) ==
    /\ releasing[g].step = "script"
    /\ LockLost(g) \/ ReleaseRefused(g) \/ Released(g)
    /\ UNCHANGED <<age, cache, step, view, reply, late>>

ReleaseReply(g) ==
    /\ releasing[g].step = "replied"
    /\ Forget(g)
    /\ releasing' = [releasing EXCEPT ![g] = Idle]
    /\ UNCHANGED <<redis, lock, age, step, view, reply, late, faults>>

-----------------------------------------------------------------------------
(* The environment: time, the lease of the lock, and restarts.             *)

\* (Time tells nothing apart for a quote that no reservation is or will be of.)
PassTime(q) ==
    /\ q \in Expiring
    /\ Active(q) \/ q \in late \/ q \in records
    /\ \/ age[q] = "open" /\ age' = [age EXCEPT ![q] = "closed"]
       \/ age[q] = "closed" /\ age' = [age EXCEPT ![q] = "over"]
    /\ UNCHANGED <<redis, lock, cache, step, view, reply, late, releasing, faults>>

\* The lease runs out: on its holder only if that is slow.
LockExpires ==
    /\ lock # None
    /\ IF releasing[lock].step = "script" THEN Fault ELSE UNCHANGED faults
    /\ lock' = None
    /\ UNCHANGED <<redis, age, cache, step, view, reply, late, releasing>>

Restart(g) ==
    LET running == {q \in Quotes : GatewayOf[q] = g /\ Active(q)}
        sent == {q \in running : step[q] \in {"commit", "recommit"}}
    IN
    /\ Fault
    /\ Forget(g)
    /\ step' = [q \in Quotes |-> IF q \in running THEN "error" ELSE step[q]]
    /\ late' = late \cup sent
    /\ view' = [q \in Quotes |-> IF q \in running \ sent THEN NoView ELSE view[q]]
    /\ reply' = [q \in Quotes |-> IF q \in running THEN "none" ELSE reply[q]]
    /\ releasing' = [releasing EXCEPT ![g] = Idle]
    /\ UNCHANGED <<redis, lock, age>>

Reserve(q) == Start(q) \/ Read(q) \/ Evaluate(q) \/ Commit(q) \/ TakeReply(q)

ReleaseStep(g) == TakeLock(g) \/ LockTimeout(g) \/ ReleaseScript(g) \/ ReleaseReply(g)

Next ==
    \/ \E q \in Quotes : Reserve(q) \/ Abandon(q) \/ LateCommit(q) \/ PassTime(q)
    \/ \E g \in Gateways : ReleaseStep(g) \/ Restart(g) \/ \E q \in Quotes : Probe(g, q)
    \/ LockExpires

Spec == Init /\ [][Next]_vars

\* A gateway runs each reservation to its end unless it restarts.
FairSpec == Spec /\ \A q \in Quotes : WF_vars(Reserve(q))
-----------------------------------------------------------------------------
(* Properties. *)

(***************************************************************************)
(* The totals and the net position the limits are evaluated on are those   *)
(* of the reservations in the ledger, through duplicates, concurrent       *)
(* releases, cleanups and late commits; and what is open in a bucket is    *)
(* within the bound that one of its reservations was admitted under.       *)
(***************************************************************************)
LedgerBalanced ==
    /\ net = Shift(records)
    /\ \A b \in Buckets :
           /\ totals[b] = Used(records, b)
           /\ \/ totals[b] = 0
              \/ \E q \in records : Counts(q, b) /\ totals[b] <= Bound[q][b]

(***************************************************************************)
(* A gateway's cached state is the ledger's state whenever its generation  *)
(* is current: a compare-and-set that succeeds was evaluated on the truth. *)
(***************************************************************************)
CacheSound ==
    \A g \in Gateways : cache[g].generation = generation => cache[g].net = net

(***************************************************************************)
(* Every new reservation lands within the portfolio band, although it was  *)
(* evaluated on a state that may have been stale.  (Releases and expiries  *)
(* may leave the band: they remove offsetting positions.)                  *)
(***************************************************************************)
LandsInBand ==
    [][\A q \in Quotes : q \in records' \ records => Acceptable(net')]_vars

(***************************************************************************)
(* A reservation that was released or expired never comes back, although   *)
(* its commit may be resent or arrive after its caller gave up.            *)
(***************************************************************************)
NeverResurrected == records \cap gone = {}

(***************************************************************************)
(* Every reservation ends: contention, cleanup and duplicates never keep   *)
(* it retrying, even if its retry deadline never came.                     *)
(***************************************************************************)
EveryReservationEnds == <>[](\A q \in Quotes : ~Active(q))
=============================================================================
