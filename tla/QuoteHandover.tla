----------------------------- MODULE QuoteHandover -----------------------------
(***************************************************************************)
(* A signed quote is counted in the Redis ledger until its deadline and a  *)
(* grace have passed, or until a request that finds it past its deadline   *)
(* releases it; a settlement is counted by what each gateway shows of the  *)
(* Treasury balance and of the inventory positions, two snapshots it       *)
(* refreshes in the background and trusts up to a maximum age.  Chain,     *)
(* database, snapshots and ledger change at different moments: the module  *)
(* follows the liability of a quote from one to the other.  Every quote    *)
(* pays out one token of one chain, so that what a snapshot shows is the   *)
(* set of settlements that it contains.  Moments are kept as the seconds   *)
(* since or until them, which Tick counts and which stop where the code no *)
(* longer tells them apart.                                                *)
(***************************************************************************)
EXTENDS Integers, FiniteSets, FiniteSetsExt

CONSTANTS
    Quotes,
    Polled,       \* environment: quotes whose status is asked for, or that are
                  \* submitted, after their deadline
    Gateways,
    GatewayOf,    \* the gateway that serves a quote's request
    Out,          \* the amount a quote pays out
    Deployments,  \* bound: the token the Treasury starts with, and the hard limit
                  \* of the exposure, settled and open
    Ttl,          \* quoteTtlSeconds
    Grace,        \* expiryGraceSeconds
    MaxAge,       \* maxAgeMs of both snapshots
    LoadTime,     \* environment: seconds a load takes at most
    RequestTime,  \* environment: seconds a request takes at most, from the
                  \* moment its deadline is fixed
    BlockDelay,   \* environment: seconds a block's timestamp is behind at most
    BookLag       \* environment: seconds until a settlement is in the database,
                  \* the confirmations the indexer waits for included

ASSUME HandoverAssumption ==
    /\ IsFiniteSet(Quotes)
    /\ Polled \subseteq Quotes
    /\ GatewayOf \in [Quotes -> Gateways]
    /\ Out \in [Quotes -> Nat]
    /\ Deployments \subseteq [capital : Nat, limit : Nat]
    /\ {Ttl, Grace, MaxAge, LoadTime, RequestTime, BlockDelay, BookLag} \subseteq Nat

VARIABLES
    deployment,
    stage,       \* where each request is in authorizeQuote
    left,        \* seconds to the deadline of its quote
    evidence,    \* the settlements in the Treasury balance it read
    evaluated,   \* the generation it evaluated the portfolio on
    ledger,      \* the reservations in Redis
    generation,  \* the counter of their changes
    settled,     \* the quotes settled on the chain
    booked,      \* the settlements in inventory_positions
    unbooked,    \* seconds a settlement has waited for that
    early,       \* history: quotes released before their grace had passed
    view,        \* the snapshots of each gateway: what they show, how old
    load         \* the refresh under way: what it has read, how long ago

chain == <<settled, booked, unbooked>>
redis == <<ledger, generation>>
requests == <<stage, left, evidence, evaluated>>
vars == <<deployment, requests, redis, early, chain, view, load>>

Kinds == {"balance", "positions"}

Snapshot == [shows : SUBSET Quotes, age : 0 .. MaxAge + 1]

NoLoad == [shows |-> {}, age |-> -1]

\* No step tells later moments apart.
Floor == -(Grace + BlockDelay + 1)

Stages == {"new", "priced", "checked", "evaluated", "reserved", "rejected"}

TypeOK ==
    /\ deployment \in Deployments
    /\ stage \in [Quotes -> Stages]
    /\ left \in [Quotes -> Floor .. Ttl]
    /\ evidence \in [Quotes -> SUBSET Quotes]
    /\ evaluated \in [Quotes -> Nat]
    /\ ledger \subseteq {q \in Quotes : stage[q] = "reserved"}
    /\ generation \in Nat
    /\ early \subseteq Polled
    /\ settled \subseteq Quotes
    /\ booked \subseteq settled
    /\ unbooked \in [Quotes -> 0 .. BookLag]
    /\ view \in [Gateways -> [Kinds -> Snapshot]]
    /\ load \in [Gateways ->
                    [Kinds -> [shows : SUBSET Quotes, age : -1 .. LoadTime]]]

\* A gateway is ready once it has loaded both snapshots.
Init ==
    /\ deployment \in Deployments
    /\ stage = [q \in Quotes |-> "new"]
    /\ left = [q \in Quotes |-> 0]
    /\ evidence = [q \in Quotes |-> {}]
    /\ evaluated = [q \in Quotes |-> 0]
    /\ ledger = {}
    /\ generation = 0
    /\ early = {}
    /\ settled = {}
    /\ booked = {}
    /\ unbooked = [q \in Quotes |-> 0]
    /\ view = [g \in Gateways |-> [k \in Kinds |-> [shows |-> {}, age |-> 0]]]
    /\ load = [g \in Gateways |-> [k \in Kinds |-> NoLoad]]

Paid(S) == MapThenSumSet(LAMBDA q : Out[q], S)

-----------------------------------------------------------------------------
(* The chain, the database and the clock.                                  *)

\* The contract compares the deadline with the timestamp of the block.
MaySettle(q) ==
    /\ stage[q] = "reserved"
    /\ q \notin settled
    /\ left[q] + BlockDelay >= 0

\* The Treasury cannot release more than it holds.
Settle(q) ==
    /\ MaySettle(q)
    /\ Paid(settled) + Out[q] <= deployment.capital
    /\ settled' = settled \cup {q}
    /\ UNCHANGED <<requests, redis, booked, unbooked, view, load>>

\* A faulty variant of Book: a quote is booked before the chain settled it.
BookUnproven(q) ==
    /\ q \in ledger \ booked
    /\ booked' = booked \cup {q}
    /\ unbooked' = [unbooked EXCEPT ![q] = 0]
    /\ UNCHANGED <<requests, redis, settled, view, load>>

\* /submit books a settlement as soon as its receipt is there, the indexer when
\* its block is confirmed.
Book(q) ==
    /\ q \in settled \ booked
    /\ booked' = booked \cup {q}
    /\ unbooked' = [unbooked EXCEPT ![q] = 0]
    /\ UNCHANGED <<requests, redis, settled, view, load>>

\* The quote's request is under way.
Pending(q) == stage[q] \in {"priced", "checked", "evaluated"}

\* What has reached the end of its time happens before the clock goes on.
Overdue ==
    \/ \E q \in settled \ booked : unbooked[q] = BookLag
    \/ \E g \in Gateways, k \in Kinds : load[g][k].age = LoadTime
    \/ \E q \in Quotes : Pending(q) /\ Ttl - left[q] = RequestTime

Older(S) ==
    [S EXCEPT !.age = IF @ > MaxAge THEN @ ELSE @ + 1]

Tick ==
    /\ ~Overdue
    /\ left' = [q \in Quotes |->
                  IF stage[q] \in {"new", "rejected"} \/ left[q] = Floor
                  THEN left[q]
                  ELSE left[q] - 1]
    /\ unbooked' = [q \in Quotes |->
                      unbooked[q] + IF q \in settled \ booked THEN 1 ELSE 0]
    /\ view' = [g \in Gateways |-> [k \in Kinds |-> Older(view[g][k])]]
    /\ load' = [g \in Gateways |-> [k \in Kinds |->
                   IF load[g][k] = NoLoad
                   THEN NoLoad
                   ELSE [load[g][k] EXCEPT !.age = @ + 1]]]
    /\ UNCHANGED <<stage, evidence, evaluated, redis, settled, booked>>

-----------------------------------------------------------------------------
(* The snapshots of a gateway: RefreshingTreasuryLiquidityView and         *)
(* RefreshingInventoryView.  One refresh of a kind runs at a time.         *)

\* The balance is that of the head block, the positions those of the database.
Source(k) == IF k = "balance" THEN settled ELSE booked

StartLoad(g, k) ==
    /\ load[g][k] = NoLoad
    /\ load' = [load EXCEPT ![g][k] = [shows |-> Source(k), age |-> 0]]
    /\ UNCHANGED <<requests, redis, chain, view>>

\* The age of a snapshot counts from the end of its load.
Publish(g, k) ==
    /\ load[g][k] # NoLoad
    /\ view' = [view EXCEPT ![g][k] = [load[g][k] EXCEPT !.age = 0]]
    /\ load' = [load EXCEPT ![g][k] = NoLoad]
    /\ UNCHANGED <<requests, redis, chain>>

LoadFails(g, k) ==
    /\ load[g][k] # NoLoad
    /\ load' = [load EXCEPT ![g][k] = NoLoad]
    /\ UNCHANGED <<requests, redis, chain, view>>

Fresh(g, k) == view[g][k].age <= MaxAge

Refresh == \E g \in Gateways, k \in Kinds :
               StartLoad(g, k) \/ Publish(g, k) \/ LoadFails(g, k)

-----------------------------------------------------------------------------
(* The ledger: cleanup of expired reservations, commit and release.        *)

\* A faulty variant of Expired: ledgerExpiresAt is the deadline.
ExpiredAtDeadline == {q \in ledger : left[q] <= 0}

Expired == {q \in ledger : left[q] + Grace <= 0}

\* The ledger without C and with A, each change counted.
Change(C, A) ==
    /\ ledger' = (ledger \ C) \cup A
    /\ generation' = generation + Cardinality(C) + Cardinality(A)

\* markQuoteExpiredBestEffort, of a status read or a submission that finds the
\* deadline passed while the row is not submitted yet: the release asks for no
\* grace, nor whether the quote was settled.
Release(q) ==
    /\ q \in Polled \cap ledger
    /\ left[q] < 0
    /\ Change({q}, {})
    /\ early' = IF left[q] + Grace > 0 THEN early \cup {q} ELSE early
    /\ UNCHANGED <<requests, chain, view, load>>

-----------------------------------------------------------------------------
(* A request: createQuote fixes the deadline, authorizeQuote reads the     *)
(* balance, evaluates the portfolio and commits.                           *)

Goto(q, s) == stage' = [stage EXCEPT ![q] = s]

\* What a request that has ended held is forgotten.
Forget(q) ==
    /\ evidence' = [evidence EXCEPT ![q] = {}]
    /\ evaluated' = [evaluated EXCEPT ![q] = 0]

Reject(q) ==
    /\ Goto(q, "rejected")
    /\ left' = [left EXCEPT ![q] = 0]
    /\ Forget(q)

Price(q) ==
    /\ stage[q] = "new"
    /\ left' = [left EXCEPT ![q] = Ttl]
    /\ Goto(q, "priced")
    /\ UNCHANGED <<evidence, evaluated, redis, chain, view, load>>

ReadBalance(q) ==
    LET g == GatewayOf[q] IN
    /\ stage[q] = "priced"
    /\ \/ /\ Fresh(g, "balance")
          /\ evidence' = [evidence EXCEPT ![q] = view[g]["balance"].shows]
          /\ Goto(q, "checked")
          /\ UNCHANGED <<left, evaluated>>
       \/ ~Fresh(g, "balance") /\ Reject(q)
    /\ UNCHANGED <<redis, chain, view, load>>

\* The exposure with q: the positions, the open reservations without those in
\* C, and the quote itself.
Exposure(q, C) ==
    Paid(view[GatewayOf[q]]["positions"].shows) + Paid(ledger \ C) + Out[q]

\* The state is a cached one or read with a cleanup; a quote is refused on a
\* state that was read.
Evaluate(q) ==
    /\ stage[q] = "checked"
    /\ \E C \in {{}, Expired} :
          /\ Change(C, {})
          /\ \/ /\ Fresh(GatewayOf[q], "positions")
                /\ Exposure(q, C) <= deployment.limit
                /\ evaluated' = [evaluated EXCEPT ![q] = generation']
                /\ Goto(q, "evaluated")
                /\ UNCHANGED <<left, evidence>>
             \/ /\ \/ ~Fresh(GatewayOf[q], "positions")
                   \/ C = Expired /\ Exposure(q, C) > deployment.limit
                /\ Reject(q)
    /\ UNCHANGED <<chain, view, load>>

\* Faulty variants of Conflict and Refused: the generation, or what the open
\* reservations pay out, is not looked at.
ConflictNever(q) == FALSE

RefusedAlone(q) == left[q] <= 0 \/ Paid(evidence[q]) + Out[q] > deployment.capital

\* The script removes the expired reservations before it compares.
Conflict(q) == generation + Cardinality(Expired) # evaluated[q]

\* Its deadline has passed, or the balance does not cover it.
Refused(q) ==
    \/ left[q] <= 0
    \/ Paid(evidence[q]) + Paid(ledger \ Expired) + Out[q] > deployment.capital

CommitReserves(q) ==
    /\ ~Conflict(q) /\ ~Refused(q)
    /\ Change(Expired, {q})
    /\ Goto(q, "reserved")
    /\ Forget(q)
    /\ UNCHANGED left

CommitRefuses(q) ==
    /\ ~Conflict(q) /\ Refused(q)
    /\ Change(Expired, {})
    /\ Reject(q)

CommitConflicts(q) ==
    /\ Conflict(q)
    /\ Change(Expired, {})
    /\ Goto(q, "checked")
    /\ UNCHANGED <<left, evidence, evaluated>>

Commit(q) ==
    /\ stage[q] = "evaluated"
    /\ CommitReserves(q) \/ CommitRefuses(q) \/ CommitConflicts(q)
    /\ UNCHANGED <<chain, view, load>>

\* The retries of conflicts have run out, or a call to Redis failed.
GiveUp(q) ==
    /\ Pending(q)
    /\ Reject(q)
    /\ UNCHANGED <<redis, chain, view, load>>

\* The reserved quote is not signed after all, and its exposure released.
SigningFails(q) ==
    /\ q \in ledger \ settled
    /\ Reject(q)
    /\ Change({q}, {})
    /\ UNCHANGED <<chain, view, load>>

Request(q) == Price(q) \/ ReadBalance(q) \/ Evaluate(q) \/ Commit(q) \/ GiveUp(q)

Next ==
    /\ \/ /\ \/ Tick
             \/ Refresh
             \/ \E q \in Quotes :
                    Request(q) \/ SigningFails(q) \/ Settle(q) \/ Book(q)
          /\ UNCHANGED early
       \/ \E q \in Quotes : Release(q)
    /\ UNCHANGED deployment

Spec == Init /\ [][Next]_vars

-----------------------------------------------------------------------------
(* Properties.                                                             *)

Open == {q \in Quotes : MaySettle(q)}

\* The Treasury holds what all the signed quotes that can still be settled pay
\* out together, whatever the age of the balance each of them was admitted on.
Solvent == Paid(Open) <= deployment.capital - Paid(settled)

\* What is not released early never oversells the Treasury: it falls short by no
\* more than what the quotes released before their grace had passed pay out, as
\* if those had been admitted by nobody.
NoOversell == Paid((Open \cup settled) \ early) <= deployment.capital

\* Settlements and the quotes that can still be settled stay within the hard
\* limit of the portfolio, though no evaluation saw both at one moment; the
\* excess is at most that of the quotes released before their grace had passed.
WithinLimit == Paid((Open \cup settled) \ early) <= deployment.limit

PositionsShow(q) ==
    \A g \in Gateways :
        Fresh(g, "positions") => q \in view[g]["positions"].shows

BalancesShow(q) ==
    /\ \A g \in Gateways : Fresh(g, "balance") => q \in view[g]["balance"].shows
    /\ \A r \in Quotes :
           stage[r] \in {"checked", "evaluated"} /\ left[r] > 0 => q \in evidence[r]

\* A refresh of the positions never omits both the reservation that is gone and
\* the inventory change its settlement was.
PositionsCount == \A q \in settled \ ledger : PositionsShow(q)

\* A settlement is never dropped between the two accounts when its reservation
\* expires: all that a request can then be admitted on counts it, the balance
\* another request holds until it commits included.
SettledIsCounted ==
    \A q \in settled \ (ledger \cup early) : PositionsShow(q) /\ BalancesShow(q)
=============================================================================
