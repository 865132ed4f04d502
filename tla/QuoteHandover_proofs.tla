------------------------- MODULE QuoteHandover_proofs -------------------------
(***************************************************************************)
(* Proofs about QuoteHandover for any finite set of quotes, any gateways,  *)
(* amounts, capital and limit, and any delays a deployment's grace covers: *)
(* unless its quote was released before the grace had passed, a settlement *)
(* is counted at any moment, by the ledger or by whatever a request can be *)
(* admitted on, and so no admission oversells.                             *)
(***************************************************************************)
EXTENDS QuoteHandover, SumTheorems

\* How long before its commit a request has read the balance at most: a commit
\* after the deadline is refused.
Held == IF RequestTime < Ttl THEN RequestTime ELSE Ttl - 1

\* What the theorems ask of a deployment: the grace outlasts the way of a
\* settlement into the positions, and into a balance that a request then holds
\* until it commits.
GraceCovers ==
    /\ Grace > BlockDelay + BookLag + LoadTime + MaxAge
    /\ Grace > BlockDelay + LoadTime + MaxAge + Held

Reserved == {q \in Quotes : stage[q] = "reserved"}

\* S lacks no settlement but those of the last n seconds.
ShowsAllBut(S, n) == \A q \in settled \ S : left[q] + BlockDelay + n >= 0

\* The delay of what a kind of snapshot shows.
Lag(k) == IF k = "positions" THEN BookLag ELSE 0

BookedInTime == \A q \in settled \ booked : left[q] + BlockDelay + unbooked[q] >= 0

LoadTrue(g, k) ==
    load[g][k] # NoLoad =>
        /\ load[g][k].age >= 0
        /\ ShowsAllBut(load[g][k].shows, Lag(k) + load[g][k].age)

ViewTrue(g, k) ==
    Fresh(g, k) => ShowsAllBut(view[g][k].shows, Lag(k) + LoadTime + view[g][k].age)

EvidenceTrue(r) ==
    stage[r] \in {"checked", "evaluated"} /\ left[r] > 0 =>
        ShowsAllBut(evidence[r], LoadTime + MaxAge + Ttl - left[r])

\* A request that is under way was priced no longer ago than a request takes.
InTime == \A q \in Quotes : Pending(q) => Ttl - left[q] <= RequestTime

\* But for the early releases, a reservation leaves the ledger only when its
\* grace has passed.
KeptForGrace == \A q \in Reserved \ (ledger \cup early) : left[q] + Grace <= 0

TimeInv ==
    /\ settled \subseteq Reserved
    /\ KeptForGrace
    /\ BookedInTime
    /\ \A g \in Gateways, k \in Kinds : LoadTrue(g, k) /\ ViewTrue(g, k)
    /\ \A r \in Quotes : EvidenceTrue(r)
    /\ InTime

\* The settlements the ledger or the snapshots account for.
Kept == settled \ early

\* What the settlements and the open quotes will have paid out, likewise.
Due == (Open \cup settled) \ early

\* An evaluation that no commit has overtaken counted all there is.
EvaluatedTrue(q) ==
    /\ evaluated[q] <= generation
    /\ stage[q] = "evaluated" /\ evaluated[q] = generation =>
           Paid(Kept \cup ledger) + Out[q] <= deployment.limit

Covered ==
    /\ Paid(Due) <= deployment.capital
    /\ Paid(Due) <= deployment.limit

HandoverInv ==
    /\ TypeOK
    /\ TimeInv
    /\ \A q \in Quotes : EvaluatedTrue(q)
    /\ Covered

-----------------------------------------------------------------------------
(* The constants, and what quotes pay out together.                        *)

LEMMA Delays ==
    /\ Ttl \in Nat /\ Grace \in Nat /\ MaxAge \in Nat
    /\ LoadTime \in Nat /\ BlockDelay \in Nat /\ BookLag \in Nat
    /\ RequestTime \in Nat
    /\ Floor \in Int /\ Floor < 0 /\ Floor <= Ttl /\ 0 \in Floor .. Ttl
    /\ Ttl \in Floor .. Ttl
    /\ \A k : Lag(k) \in Nat
BY HandoverAssumption DEF HandoverAssumption, Floor, Lag

LEMMA PaidFacts ==
    ASSUME NEW S \in SUBSET Quotes, NEW T \in SUBSET Quotes
    PROVE  /\ Paid(S) \in Nat
           /\ S \subseteq T => Paid(S) <= Paid(T)
           /\ Paid(S \cup T) <= Paid(S) + Paid(T)
           /\ S \cap T = {} => Paid(S \cup T) = Paid(S) + Paid(T)
           /\ \A q \in Quotes : Paid(S \cup {q}) <= Paid(S) + Out[q]
<1>1. Out \in [Quotes -> Nat] /\ Out \in [Quotes -> Int] /\ IsFiniteSet(Quotes)
  BY HandoverAssumption DEF HandoverAssumption
<1>2. \A U : Paid(U) = Sum(Out, U)
  BY DEF Paid, Sum
<1>3. \A U \in SUBSET Quotes : IsFiniteSet(U) /\ Sum(Out, U) \in Nat
  <2> SUFFICES ASSUME NEW U \in SUBSET Quotes
               PROVE  IsFiniteSet(U) /\ Sum(Out, U) \in Nat
    OBVIOUS
  <2>1. IsFiniteSet(U)
    BY <1>1, FS_Subset
  <2>2. QED
    BY <1>1, <2>1, SumType
<1>4. S \subseteq T => Sum(Out, S) <= Sum(Out, T)
  BY <1>1, <1>3, SumMonotone
<1>5. Sum(Out, S \cup T) <= Sum(Out, S) + Sum(Out, T)
  BY <1>1, <1>3, SumUnion
<1>6. S \cap T = {} => Sum(Out, S \cup T) = Sum(Out, S) + Sum(Out, T)
  <2> SUFFICES ASSUME S \cap T = {}
               PROVE  Sum(Out, S \cup T) = Sum(Out, S) + Sum(Out, T)
    OBVIOUS
  <2>1. PICK U \in SUBSET Quotes : U = S \cup T
    OBVIOUS
  <2>2. T \in SUBSET U /\ U \ T = S
    BY <2>1
  <2>3. Sum(Out, U) = Sum(Out, U \ T) + Sum(Out, T)
    BY <1>1, <1>3, <2>2, SumSplit
  <2>4. QED
    BY <2>1, <2>2, <2>3
<1>7. \A q \in Quotes : Sum(Out, S \cup {q}) <= Sum(Out, S) + Out[q]
  <2> SUFFICES ASSUME NEW q \in Quotes
               PROVE  Sum(Out, S \cup {q}) <= Sum(Out, S) + Out[q]
    OBVIOUS
  <2>1. Out[q] \in Nat /\ Sum(Out, S) \in Nat
    BY <1>1, <1>3
  <2>2. PICK U \in SUBSET Quotes : U = S \cup {q}
    OBVIOUS
  <2>3. Sum(Out, U) <= Sum(Out, S) + Out[q]
    <3>1. CASE q \in S
      <4>1. U = S
        BY <2>2, <3>1
      <4>2. QED
        BY <2>1, <4>1
    <3>2. CASE q \notin S
      <4>1. IsFiniteSet(U) /\ q \in U /\ U \ {q} = S
        BY <1>3, <2>2, <3>2
      <4>2. Sum(Out, U) = Out[q] + Sum(Out, U \ {q})
        BY <1>1, <4>1, SumRemove
      <4>3. Sum(Out, U) = Out[q] + Sum(Out, S)
        BY <4>1, <4>2, Zenon
      <4>4. QED
        BY <2>1, <4>3
    <3>3. QED
      BY <3>1, <3>2
  <2>4. QED
    BY <2>2, <2>3, Zenon
<1>8. QED
  BY <1>2, <1>3, <1>4, <1>5, <1>6, <1>7

LEMMA PaidNothing == Paid({}) = 0
<1>1. Paid({}) = Sum(Out, {})
  BY DEF Paid, Sum
<1>2. QED
  BY <1>1, SumEmpty

\* Expired is a subset of the ledger; each change of the ledger is counted.
LEMMA ChangeFacts ==
    ASSUME TypeOK, NEW C \in SUBSET ledger, NEW A \in SUBSET Quotes, Change(C, A)
    PROVE  /\ ledger' = (ledger \ C) \cup A
           /\ generation' \in Nat /\ generation' >= generation
           /\ generation' = generation + Cardinality(C) + Cardinality(A)
           /\ Cardinality(C) \in Nat
           /\ Cardinality(C) = 0 => C = {}
           /\ generation' = generation => C = {} /\ A = {}
<1>1. C \subseteq Quotes /\ generation \in Nat
  BY DEF TypeOK
<1>2. IsFiniteSet(C) /\ IsFiniteSet(A)
  BY <1>1, HandoverAssumption, FS_Subset DEF HandoverAssumption
<1>3. /\ Cardinality(C) \in Nat /\ Cardinality(A) \in Nat
      /\ Cardinality(C) = 0 <=> C = {}
      /\ Cardinality(A) = 0 <=> A = {}
  BY <1>2, FS_CardinalityType, FS_EmptySet
<1>4. QED
  BY <1>1, <1>3 DEF Change

-----------------------------------------------------------------------------
(* Types.                                                                  *)

LEMMA RejectTypes ==
    ASSUME TypeOK, NEW q \in Quotes, Reject(q)
    PROVE  /\ stage' \in [Quotes -> Stages]
           /\ left' \in [Quotes -> Floor .. Ttl]
           /\ evidence' \in [Quotes -> SUBSET Quotes]
           /\ evaluated' \in [Quotes -> Nat]
BY Delays DEF TypeOK, Reject, Goto, Forget, Stages

\* What a request leaves of the other quotes and of the ledger.
RequestOf(q) ==
    /\ UNCHANGED <<chain, view, load>>
    /\ stage[q] # "reserved"
    /\ stage' \in [Quotes -> Stages] /\ left' \in [Quotes -> Floor .. Ttl]
    /\ evidence' \in [Quotes -> SUBSET Quotes] /\ evaluated' \in [Quotes -> Nat]
    /\ \A r \in Quotes \ {q} :
           /\ stage'[r] = stage[r] /\ left'[r] = left[r]
           /\ evidence'[r] = evidence[r] /\ evaluated'[r] = evaluated[r]
    /\ ledger \ Expired \subseteq ledger'
    /\ ledger' \subseteq IF stage'[q] = "reserved" THEN ledger \cup {q} ELSE ledger
    /\ stage'[q] = "reserved" => q \in ledger'
    /\ generation' \in Nat /\ generation' >= generation
    /\ generation' = generation => ledger' = ledger

LEMMA RejectIsRequest ==
    ASSUME TypeOK, NEW q \in Quotes, Reject(q), stage[q] # "reserved",
           UNCHANGED <<chain, view, load>>, UNCHANGED redis
    PROVE  RequestOf(q)
<1>1. /\ stage' \in [Quotes -> Stages] /\ left' \in [Quotes -> Floor .. Ttl]
      /\ evidence' \in [Quotes -> SUBSET Quotes] /\ evaluated' \in [Quotes -> Nat]
  BY RejectTypes
<1>2. /\ stage'[q] = "rejected"
      /\ \A r \in Quotes \ {q} :
             /\ stage'[r] = stage[r] /\ left'[r] = left[r]
             /\ evidence'[r] = evidence[r] /\ evaluated'[r] = evaluated[r]
  BY DEF TypeOK, Reject, Goto, Forget
<1>3. ledger' = ledger /\ generation' = generation /\ generation \in Nat
  BY DEF TypeOK, redis
<1>4. QED
  BY <1>1, <1>2, <1>3 DEF RequestOf, Expired

LEMMA PriceIsRequest ==
    ASSUME TypeOK, NEW q \in Quotes, Price(q)
    PROVE  RequestOf(q)
BY Delays DEF TypeOK, Price, Goto, Stages, RequestOf, redis, Expired

LEMMA ReadIsRequest ==
    ASSUME TypeOK, NEW q \in Quotes, ReadBalance(q)
    PROVE  RequestOf(q)
<1>1. /\ stage[q] = "priced" /\ UNCHANGED <<chain, view, load>>
      /\ ledger' = ledger /\ generation' = generation
  BY DEF ReadBalance, redis
<1>2. GatewayOf[q] \in Gateways
  BY HandoverAssumption DEF HandoverAssumption
<1>3. CASE Reject(q)
  BY <1>1, <1>3, RejectIsRequest DEF redis
<1>4. CASE /\ evidence' = [evidence EXCEPT ![q] = view[GatewayOf[q]]["balance"].shows]
           /\ Goto(q, "checked")
           /\ UNCHANGED <<left, evaluated>>
  <2>1. view[GatewayOf[q]]["balance"].shows \in SUBSET Quotes
    BY <1>2 DEF TypeOK, Snapshot, Kinds
  <2>2. QED
    BY <1>1, <1>4, <2>1 DEF TypeOK, RequestOf, Goto, Stages, Expired
<1>5. QED
  BY <1>3, <1>4 DEF ReadBalance

LEMMA EvaluateIsRequest ==
    ASSUME TypeOK, NEW q \in Quotes, Evaluate(q)
    PROVE  RequestOf(q)
<1>1. PICK C \in {{}, Expired} :
        /\ Change(C, {})
        /\ \/ /\ evaluated' = [evaluated EXCEPT ![q] = generation']
              /\ Goto(q, "evaluated")
              /\ UNCHANGED <<left, evidence>>
           \/ Reject(q)
  BY DEF Evaluate
<1>2. C \subseteq ledger /\ C \subseteq Expired
  BY <1>1 DEF Expired
<1>3. /\ ledger' = ledger \ C
      /\ generation' \in Nat /\ generation' >= generation
      /\ generation' = generation => C = {}
  BY <1>1, <1>2, ChangeFacts
<1>4. stage[q] = "checked" /\ UNCHANGED <<chain, view, load>>
  BY DEF Evaluate
<1>5. CASE Reject(q)
  BY <1>2, <1>3, <1>4, <1>5, RejectTypes DEF TypeOK, RequestOf, Reject, Goto, Forget
<1>6. CASE /\ evaluated' = [evaluated EXCEPT ![q] = generation']
           /\ Goto(q, "evaluated")
           /\ UNCHANGED <<left, evidence>>
  BY <1>2, <1>3, <1>4, <1>6 DEF TypeOK, RequestOf, Goto, Stages
<1>7. QED
  BY <1>1, <1>5, <1>6

LEMMA CommitIsRequest ==
    ASSUME TypeOK, NEW q \in Quotes, Commit(q)
    PROVE  RequestOf(q)
<1>1. stage[q] = "evaluated" /\ UNCHANGED <<chain, view, load>>
  BY DEF Commit
<1>2. Expired \subseteq ledger
  BY DEF Expired
<1>3. CASE CommitReserves(q)
  <2>1. Change(Expired, {q})
    BY <1>3 DEF CommitReserves
  <2>2. /\ ledger' = (ledger \ Expired) \cup {q}
        /\ generation' \in Nat /\ generation' >= generation
        /\ generation' # generation
    BY <1>2, <2>1, ChangeFacts
  <2>3. QED
    BY <1>1, <1>3, <2>2 DEF TypeOK, CommitReserves, Goto, Forget, Stages, RequestOf
<1>4. CASE CommitRefuses(q) \/ CommitConflicts(q)
  <2>1. Change(Expired, {})
    BY <1>4 DEF CommitRefuses, CommitConflicts
  <2>2. /\ ledger' = ledger \ Expired
        /\ generation' \in Nat /\ generation' >= generation
        /\ generation' = generation => Expired = {}
    BY <1>2, <2>1, ChangeFacts
  <2>3. CASE Reject(q)
    BY <1>1, <2>2, <2>3, RejectTypes DEF TypeOK, RequestOf, Reject, Goto, Forget
  <2>4. CASE Goto(q, "checked") /\ UNCHANGED <<left, evidence, evaluated>>
    BY <1>1, <2>2, <2>4 DEF TypeOK, RequestOf, Goto, Stages
  <2>5. QED
    BY <1>4, <2>3, <2>4 DEF CommitRefuses, CommitConflicts
<1>5. QED
  BY <1>3, <1>4 DEF Commit

LEMMA GiveUpIsRequest ==
    ASSUME TypeOK, NEW q \in Quotes, GiveUp(q)
    PROVE  RequestOf(q)
BY RejectIsRequest DEF GiveUp, Pending

LEMMA RequestIsRequest ==
    ASSUME TypeOK, NEW q \in Quotes, Request(q)
    PROVE  RequestOf(q)
BY PriceIsRequest, ReadIsRequest, EvaluateIsRequest, CommitIsRequest, GiveUpIsRequest
   DEF Request

LEMMA RequestTypes ==
    ASSUME TypeOK, NEW q \in Quotes, RequestOf(q), UNCHANGED <<deployment, early>>
    PROVE  TypeOK'
<1>1. ledger' \subseteq {r \in Quotes : stage'[r] = "reserved"}
  BY DEF TypeOK, RequestOf
<1>2. QED
  BY <1>1 DEF TypeOK, RequestOf, chain, Snapshot

LEMMA TickTypes ==
    ASSUME TypeOK, Tick, UNCHANGED <<deployment, early>>
    PROVE  TypeOK'
<1>1. left' \in [Quotes -> Floor .. Ttl]
  <2>1. \A q \in Quotes : left[q] \in Floor .. Ttl
    BY DEF TypeOK
  <2>2. \A n \in Floor .. Ttl : n # Floor => n - 1 \in Floor .. Ttl
    BY Delays
  <2>3. \A q \in Quotes :
           (IF stage[q] \in {"new", "rejected"} \/ left[q] = Floor
            THEN left[q] ELSE left[q] - 1) \in Floor .. Ttl
    BY <2>1, <2>2
  <2>4. QED
    BY <2>3 DEF Tick
<1>2. unbooked' \in [Quotes -> 0 .. BookLag]
  <2>1. \A q \in Quotes : unbooked[q] \in 0 .. BookLag
    BY DEF TypeOK
  <2>2. \A q \in settled \ booked : unbooked[q] # BookLag
    BY DEF Tick, Overdue
  <2>3. \A q \in Quotes : unbooked[q] + (IF q \in settled \ booked THEN 1 ELSE 0) \in 0 .. BookLag
    BY <2>1, <2>2, Delays
  <2>4. QED
    BY <2>3 DEF Tick
<1>3. view' \in [Gateways -> [Kinds -> Snapshot]]
  <2>1. \A g \in Gateways, k \in Kinds : view[g][k] \in Snapshot
    BY DEF TypeOK
  <2>2. \A S \in Snapshot : Older(S) \in Snapshot
    BY Delays DEF Older, Snapshot
  <2>3. \A g \in Gateways, k \in Kinds : Older(view[g][k]) \in Snapshot
    BY <2>1, <2>2
  <2>4. QED
    BY <2>3 DEF Tick
<1>4. load' \in [Gateways -> [Kinds -> [shows : SUBSET Quotes, age : -1 .. LoadTime]]]
  <2> DEFINE Loads == [shows : SUBSET Quotes, age : -1 .. LoadTime]
  <2>1. \A g \in Gateways, k \in Kinds : load[g][k] \in Loads /\ load[g][k].age # LoadTime
    BY DEF TypeOK, Tick, Overdue
  <2>2. \A L \in Loads : L.age # LoadTime => [L EXCEPT !.age = @ + 1] \in Loads
    BY Delays
  <2>3. NoLoad \in Loads
    BY Delays DEF NoLoad
  <2> HIDE DEF Loads
  <2>4. \A g \in Gateways, k \in Kinds :
           (IF load[g][k] = NoLoad THEN NoLoad ELSE [load[g][k] EXCEPT !.age = @ + 1]) \in Loads
    BY <2>1, <2>2, <2>3
  <2>5. load' \in [Gateways -> [Kinds -> Loads]]
    BY <2>4 DEF Tick
  <2>6. QED
    BY <2>5 DEF Loads
<1>5. QED
  BY <1>1, <1>2, <1>3, <1>4 DEF TypeOK, Tick, redis

LEMMA RefreshTypes ==
    ASSUME TypeOK, NEW g \in Gateways, NEW k \in Kinds, UNCHANGED <<deployment, early>>,
           StartLoad(g, k) \/ Publish(g, k) \/ LoadFails(g, k)
    PROVE  TypeOK'
<1> DEFINE Loads == [shows : SUBSET Quotes, age : -1 .. LoadTime]
<1>1. load \in [Gateways -> [Kinds -> Loads]] /\ load[g] \in [Kinds -> Loads] /\ load[g][k] \in Loads
  BY DEF TypeOK
<1>2. NoLoad \in Loads /\ [shows |-> Source(k), age |-> 0] \in Loads
  BY Delays DEF NoLoad, TypeOK, Source
<1>3. [load[g][k] EXCEPT !.age = 0] \in Snapshot
  BY <1>1, Delays DEF Snapshot
<1> HIDE DEF Loads
<1>4. load' \in [Gateways -> [Kinds -> Loads]]
  BY <1>1, <1>2 DEF StartLoad, Publish, LoadFails
<1>5. view' \in [Gateways -> [Kinds -> Snapshot]]
  <2>1. view \in [Gateways -> [Kinds -> Snapshot]]
    BY DEF TypeOK
  <2>2. PICK S \in Snapshot : S = [load[g][k] EXCEPT !.age = 0]
    BY <1>3
  <2>3. CASE view' = [view EXCEPT ![g][k] = S]
    BY <2>1, <2>3
  <2>4. CASE view' = view
    BY <2>1, <2>4
  <2>5. Publish(g, k) => view' = [view EXCEPT ![g][k] = S]
    BY <2>2, Zenon DEF Publish
  <2>6. QED
    BY <2>3, <2>4, <2>5 DEF StartLoad, LoadFails
<1>6. UNCHANGED <<requests, redis, chain>>
  BY DEF StartLoad, Publish, LoadFails
<1>7. QED
  BY <1>4, <1>5, <1>6 DEF TypeOK, requests, redis, chain, Loads

LEMMA SettleTypes ==
    ASSUME TypeOK, NEW q \in Quotes, Settle(q) \/ Book(q), UNCHANGED <<deployment, early>>
    PROVE  TypeOK'
BY Delays DEF TypeOK, Settle, Book, requests, redis, Snapshot

-----------------------------------------------------------------------------
(* Time.                                                                   *)

\* What the facts below need of the types.
LEMMA TypeFacts ==
    ASSUME TypeOK
    PROVE  /\ settled \subseteq Quotes /\ booked \subseteq settled /\ ledger \subseteq Quotes
           /\ generation \in Nat
           /\ \A q \in Quotes :
                  /\ left[q] \in Int /\ left[q] >= Floor /\ left[q] <= Ttl
                  /\ evaluated[q] \in Nat /\ evidence[q] \in SUBSET Quotes
                  /\ unbooked[q] \in Nat /\ unbooked[q] <= BookLag
                  /\ stage[q] \in Stages
           /\ \A g \in Gateways, k \in Kinds :
                  /\ view[g][k].age \in Nat /\ view[g][k].shows \in SUBSET Quotes
                  /\ load[g][k].age \in Int /\ load[g][k].age <= LoadTime
                  /\ load[g][k].shows \in SUBSET Quotes
           /\ deployment.capital \in Nat /\ deployment.limit \in Nat
<1>1. \A q \in Quotes : left[q] \in Floor .. Ttl /\ unbooked[q] \in 0 .. BookLag
  BY DEF TypeOK
<1>2. \A g \in Gateways, k \in Kinds :
         /\ view[g][k] \in Snapshot
         /\ load[g][k] \in [shows : SUBSET Quotes, age : -1 .. LoadTime]
  BY DEF TypeOK
<1>3. deployment \in [capital : Nat, limit : Nat]
  BY HandoverAssumption DEF TypeOK, HandoverAssumption
<1>4. \A g \in Gateways, k \in Kinds :
         /\ view[g][k].age \in Nat /\ view[g][k].shows \in SUBSET Quotes
         /\ load[g][k].age \in Int /\ load[g][k].age <= LoadTime
         /\ load[g][k].shows \in SUBSET Quotes
  BY <1>2, Delays DEF Snapshot
<1>5. QED
  BY <1>1, <1>3, <1>4, Delays DEF TypeOK

LEMMA ShowsMonotone ==
    ASSUME TypeOK, NEW S, NEW n \in Int, NEW m \in Int, n <= m, ShowsAllBut(S, n)
    PROVE  ShowsAllBut(S, m)
BY TypeFacts, Delays DEF ShowsAllBut

LEMMA InitHolds == Init => HandoverInv
<1> SUFFICES ASSUME Init PROVE HandoverInv
  OBVIOUS
<1>1. TypeOK
  <2>1. /\ [g \in Gateways |-> [k \in Kinds |-> [shows |-> {}, age |-> 0]]]
               \in [Gateways -> [Kinds -> Snapshot]]
        /\ [g \in Gateways |-> [k \in Kinds |-> NoLoad]]
               \in [Gateways -> [Kinds -> [shows : SUBSET Quotes, age : -1 .. LoadTime]]]
    BY Delays DEF NoLoad, Snapshot
  <2>2. QED
    BY <2>1, Delays DEF TypeOK, Init, Stages
<1>2. /\ settled = {} /\ Reserved = {} /\ Open = {}
      /\ \A S, n : ShowsAllBut(S, n)
  BY DEF Init, Reserved, Open, MaySettle, ShowsAllBut
<1>3. TimeInv
  BY <1>2 DEF TimeInv, KeptForGrace, BookedInTime, LoadTrue, ViewTrue, EvidenceTrue, Init,
              InTime, Pending
<1>4. \A q \in Quotes : EvaluatedTrue(q)
  BY DEF EvaluatedTrue, Init
<1>5. Covered
  <2>1. Due = {}
    BY <1>2 DEF Due
  <2>2. Paid(Due) = 0
    BY <2>1, PaidNothing, Zenon
  <2>3. QED
    BY <1>1, <2>2, TypeFacts DEF Covered
<1>6. QED
  BY <1>1, <1>3, <1>4, <1>5 DEF HandoverInv

\* What is covered stays covered when nothing joins.
LEMMA CoveredBelow ==
    ASSUME TypeOK, Covered, UNCHANGED deployment, Due' \subseteq Due
    PROVE  Covered'
<1>1. PICK T : T = Due
  OBVIOUS
<1>2. PICK S : S = Due'
  OBVIOUS
<1>3. S \in SUBSET Quotes /\ T \in SUBSET Quotes /\ S \subseteq T
  BY <1>1, <1>2, TypeFacts DEF Due, Open
<1>4. Paid(S) \in Nat /\ Paid(T) \in Nat /\ Paid(S) <= Paid(T)
  BY <1>3, PaidFacts
<1>5. Paid(T) <= deployment.capital /\ Paid(T) <= deployment.limit
  BY <1>1, Zenon DEF Covered
<1>6. Paid(S) <= deployment'.capital /\ Paid(S) <= deployment'.limit
  BY <1>4, <1>5, TypeFacts
<1>7. QED
  BY <1>2, <1>6, Zenon DEF Covered

\* A second later everything is a second older.
LEMMA TickShows ==
    ASSUME TypeOK, Tick, settled \subseteq Reserved,
           NEW S, NEW n \in Int, ShowsAllBut(S, n)
    PROVE  \A q \in settled' \ S : left'[q] + BlockDelay + (n + 1) >= 0
<1> SUFFICES ASSUME NEW q \in settled \ S
             PROVE  left'[q] + BlockDelay + (n + 1) >= 0
  BY DEF Tick
<1>1. left[q] + BlockDelay + n >= 0 /\ q \in Quotes
  BY DEF ShowsAllBut, Reserved
<1>2. left'[q] \in Int /\ left'[q] >= left[q] - 1
  BY <1>1, TypeFacts DEF Tick
<1>3. QED
  BY <1>1, <1>2, TypeFacts, Delays

LEMMA TickLeft ==
    ASSUME TypeOK, Tick, NEW q \in Quotes
    PROVE  /\ left'[q] \in Int /\ left'[q] <= left[q]
           /\ left'[q] >= left[q] - 1
           /\ stage[q] \in {"checked", "evaluated"} /\ left'[q] > 0 => left'[q] = left[q] - 1
BY TypeFacts, Delays DEF Tick

LEMMA TickKeeps ==
    ASSUME HandoverInv, Tick, UNCHANGED <<deployment, early>>
    PROVE  HandoverInv'
<1>1. TypeOK /\ TimeInv /\ settled \subseteq Reserved
  BY DEF HandoverInv, TimeInv
<1>2. TypeOK'
  BY <1>1, TickTypes
<1>3. /\ UNCHANGED <<stage, evidence, evaluated, settled, booked, ledger, generation>>
  BY DEF Tick, redis
<1>4. (settled \subseteq Reserved /\ KeptForGrace)'
  <2>1. Reserved' = Reserved
    BY <1>3 DEF Reserved
  <2>2. \A q \in Reserved \ (ledger \cup early) : left'[q] + Grace <= 0
    BY <1>1, TickLeft, TypeFacts, Delays DEF TimeInv, KeptForGrace, Reserved
  <2>3. QED
    BY <1>1, <1>3, <2>1, <2>2 DEF KeptForGrace
<1>5. BookedInTime'
  <2> SUFFICES ASSUME NEW q \in settled \ booked
               PROVE  left'[q] + BlockDelay + unbooked'[q] >= 0
    BY <1>3 DEF BookedInTime
  <2>1. q \in Quotes /\ left[q] + BlockDelay + unbooked[q] >= 0
    BY <1>1, TypeFacts DEF TimeInv, BookedInTime
  <2>2. unbooked'[q] = unbooked[q] + 1
    BY <2>1 DEF Tick
  <2>3. QED
    BY <1>1, <2>1, <2>2, TickLeft, TypeFacts, Delays
<1>6. ASSUME NEW g \in Gateways, NEW k \in Kinds PROVE LoadTrue(g, k)'
  <2> SUFFICES ASSUME load'[g][k] # NoLoad
               PROVE  load'[g][k].age >= 0 /\ ShowsAllBut(load[g][k].shows, Lag(k) + load[g][k].age)'
    BY DEF LoadTrue
  <2>1. load[g][k] # NoLoad /\ load'[g][k] = [load[g][k] EXCEPT !.age = @ + 1]
    BY DEF Tick
  <2>2. load[g][k] \in [shows : SUBSET Quotes, age : -1 .. LoadTime]
    BY <1>1 DEF TypeOK
  <2>3. load'[g][k].age = load[g][k].age + 1 /\ load'[g][k].shows = load[g][k].shows
    BY <2>1, <2>2
  <2>4. load[g][k].age >= 0 /\ ShowsAllBut(load[g][k].shows, Lag(k) + load[g][k].age)
    BY <1>1, <2>1 DEF TimeInv, LoadTrue
  <2>5. PICK n : n = Lag(k) + load[g][k].age
    OBVIOUS
  <2>6. n \in Int /\ n + 1 = Lag(k) + load'[g][k].age
    BY <1>1, <2>3, <2>5, Delays, TypeFacts
  <2>7. ShowsAllBut(load[g][k].shows, n)
    BY <2>4, <2>5
  <2>8. \A q \in settled' \ load[g][k].shows : left'[q] + BlockDelay + (n + 1) >= 0
    BY <1>1, <2>6, <2>7, TickShows
  <2>9. QED
    BY <1>1, <2>3, <2>4, <2>6, <2>8, TypeFacts DEF ShowsAllBut
<1>7. ASSUME NEW g \in Gateways, NEW k \in Kinds PROVE ViewTrue(g, k)'
  <2> SUFFICES ASSUME view'[g][k].age <= MaxAge
               PROVE  ShowsAllBut(view[g][k].shows, Lag(k) + LoadTime + view[g][k].age)'
    BY DEF ViewTrue, Fresh
  <2>1. view[g][k] \in Snapshot /\ view'[g][k] = Older(view[g][k])
    BY <1>1 DEF Tick, TypeOK
  <2>2. /\ view'[g][k].shows = view[g][k].shows
        /\ view'[g][k].age = IF view[g][k].age > MaxAge THEN view[g][k].age ELSE view[g][k].age + 1
    BY <2>1 DEF Older, Snapshot
  <2>3. view[g][k].age <= MaxAge /\ view'[g][k].age = view[g][k].age + 1
    BY <1>1, <2>2, TypeFacts, Delays
  <2>4. ShowsAllBut(view[g][k].shows, Lag(k) + LoadTime + view[g][k].age)
    BY <1>1, <2>3 DEF TimeInv, ViewTrue, Fresh
  <2>5. PICK n : n = Lag(k) + LoadTime + view[g][k].age
    OBVIOUS
  <2>6. n \in Int /\ n + 1 = Lag(k) + LoadTime + view'[g][k].age
    BY <1>1, <2>3, <2>5, Delays, TypeFacts
  <2>7. ShowsAllBut(view[g][k].shows, n)
    BY <2>4, <2>5
  <2>8. \A q \in settled' \ view[g][k].shows : left'[q] + BlockDelay + (n + 1) >= 0
    BY <1>1, <2>6, <2>7, TickShows
  <2>9. QED
    BY <2>2, <2>6, <2>8 DEF ShowsAllBut
<1>8. ASSUME NEW r \in Quotes PROVE EvidenceTrue(r)'
  <2> SUFFICES ASSUME stage[r] \in {"checked", "evaluated"}, left'[r] > 0
               PROVE  ShowsAllBut(evidence[r], LoadTime + MaxAge + Ttl - left[r])'
    BY <1>3 DEF EvidenceTrue
  <2>1. left'[r] = left[r] - 1 /\ left[r] \in Int
    BY <1>1, TickLeft, TypeFacts
  <2>2. ShowsAllBut(evidence[r], LoadTime + MaxAge + Ttl - left[r])
    BY <1>1, <2>1 DEF TimeInv, EvidenceTrue
  <2>3. PICK n : n = LoadTime + MaxAge + Ttl - left[r]
    OBVIOUS
  <2>4. n \in Int /\ n + 1 = LoadTime + MaxAge + Ttl - left'[r]
    BY <2>1, <2>3, Delays
  <2>5. ShowsAllBut(evidence[r], n)
    BY <2>2, <2>3
  <2>6. \A q \in settled' \ evidence[r] : left'[q] + BlockDelay + (n + 1) >= 0
    BY <1>1, <2>4, <2>5, TickShows
  <2>7. QED
    BY <1>3, <2>4, <2>6 DEF ShowsAllBut
<1>9. TimeInv'
  <2>1. ASSUME NEW q \in Quotes, Pending(q)'
        PROVE  Ttl - left'[q] <= RequestTime
    <3>1. Pending(q)
      BY <1>3, <2>1 DEF Pending
    <3>2. Ttl - left[q] <= RequestTime /\ Ttl - left[q] # RequestTime
      BY <1>1, <3>1 DEF TimeInv, InTime, Tick, Overdue
    <3>3. QED
      BY <1>1, <3>2, TickLeft, TypeFacts, Delays
  <2>2. InTime'
    BY <2>1 DEF InTime
  <2>3. QED
    BY <1>4, <1>5, <1>6, <1>7, <1>8, <2>2 DEF TimeInv
<1>10. \A q \in Quotes : EvaluatedTrue(q)'
  <2>1. \A q \in Quotes : EvaluatedTrue(q)
    BY DEF HandoverInv
  <2>2. Kept' = Kept /\ ledger' = ledger
    BY <1>3 DEF Kept
  <2>3. Paid(Kept \cup ledger)' = Paid(Kept \cup ledger)
    BY <2>2, Zenon
  <2>4. QED
    BY <1>3, <2>1, <2>3 DEF EvaluatedTrue
<1>11. Covered'
  <2>1. Open' \subseteq Open
    BY <1>1, <1>3, TickLeft, TypeFacts, Delays DEF Open, MaySettle
  <2>2. Due' \subseteq Due
    BY <1>3, <2>1 DEF Due
  <2>3. QED
    BY <1>1, <2>2, CoveredBelow DEF HandoverInv
<1>12. QED
  BY <1>2, <1>9, <1>10, <1>11 DEF HandoverInv

\* What may still be settled is in the ledger, or was released.
LEMMA OpenIsReserved ==
    ASSUME GraceCovers, TypeOK, TimeInv
    PROVE  Open \subseteq ledger \cup early
BY TypeFacts, Delays DEF GraceCovers, TimeInv, KeptForGrace, Open, MaySettle, Reserved

LEMMA SettleKeeps ==
    ASSUME GraceCovers, HandoverInv, NEW q \in Quotes, Settle(q), UNCHANGED <<deployment, early>>
    PROVE  HandoverInv'
<1>1. TypeOK /\ TimeInv /\ Covered
  BY DEF HandoverInv
<1>2. TypeOK'
  BY <1>1, SettleTypes
<1>3. /\ settled' = settled \cup {q}
      /\ UNCHANGED <<stage, left, evidence, evaluated, ledger, generation, booked, unbooked, view, load>>
  BY DEF Settle, requests, redis
<1>4. q \in Open /\ q \in ledger \cup early /\ q \in Reserved /\ left[q] + BlockDelay >= 0
  BY <1>1, OpenIsReserved DEF Settle, MaySettle, Open, Reserved
<1>5. ASSUME NEW S, NEW n \in Int, n >= 0, ShowsAllBut(S, n)
      PROVE  \A r \in settled' \ S : left'[r] + BlockDelay + n >= 0
  BY <1>1, <1>3, <1>4, <1>5, TypeFacts, Delays DEF ShowsAllBut
<1>6. (settled \subseteq Reserved /\ KeptForGrace)'
  BY <1>1, <1>3, <1>4 DEF TimeInv, KeptForGrace, Reserved
<1>7. BookedInTime'
  BY <1>1, <1>3, <1>4, TypeFacts, Delays DEF TimeInv, BookedInTime
<1>8. ASSUME NEW g \in Gateways, NEW k \in Kinds PROVE LoadTrue(g, k)'
  <2> SUFFICES ASSUME load[g][k] # NoLoad
               PROVE  load[g][k].age >= 0 /\ ShowsAllBut(load[g][k].shows, Lag(k) + load[g][k].age)'
    BY <1>3 DEF LoadTrue
  <2>1. load[g][k].age >= 0 /\ ShowsAllBut(load[g][k].shows, Lag(k) + load[g][k].age)
    BY <1>1 DEF TimeInv, LoadTrue
  <2>2. \A r \in settled' \ load[g][k].shows : left'[r] + BlockDelay + (Lag(k) + load[g][k].age) >= 0
    BY <1>1, <1>5, <2>1, TypeFacts, Delays
  <2>3. QED
    BY <1>3, <2>1, <2>2 DEF ShowsAllBut
<1>9. ASSUME NEW g \in Gateways, NEW k \in Kinds PROVE ViewTrue(g, k)'
  <2> SUFFICES ASSUME Fresh(g, k)
               PROVE  ShowsAllBut(view[g][k].shows, Lag(k) + LoadTime + view[g][k].age)'
    BY <1>3 DEF ViewTrue, Fresh
  <2>1. ShowsAllBut(view[g][k].shows, Lag(k) + LoadTime + view[g][k].age)
    BY <1>1 DEF TimeInv, ViewTrue
  <2>2. \A r \in settled' \ view[g][k].shows :
            left'[r] + BlockDelay + (Lag(k) + LoadTime + view[g][k].age) >= 0
    BY <1>1, <1>5, <2>1, TypeFacts, Delays
  <2>3. QED
    BY <1>3, <2>2 DEF ShowsAllBut
<1>10. ASSUME NEW r \in Quotes PROVE EvidenceTrue(r)'
  <2> SUFFICES ASSUME stage[r] \in {"checked", "evaluated"}, left[r] > 0
               PROVE  ShowsAllBut(evidence[r], LoadTime + MaxAge + Ttl - left[r])'
    BY <1>3 DEF EvidenceTrue
  <2>1. ShowsAllBut(evidence[r], LoadTime + MaxAge + Ttl - left[r])
    BY <1>1 DEF TimeInv, EvidenceTrue
  <2>2. \A p \in settled' \ evidence[r] :
            left'[p] + BlockDelay + (LoadTime + MaxAge + Ttl - left[r]) >= 0
    BY <1>1, <1>5, <2>1, TypeFacts, Delays
  <2>3. QED
    BY <1>3, <2>2 DEF ShowsAllBut
<1>11. TimeInv'
  <2>1. InTime'
    BY <1>1, <1>3 DEF TimeInv, InTime, Pending
  <2>2. QED
    BY <1>6, <1>7, <1>8, <1>9, <1>10, <2>1 DEF TimeInv
<1>12. \A r \in Quotes : EvaluatedTrue(r)'
  <2>1. \A r \in Quotes : EvaluatedTrue(r)
    BY DEF HandoverInv
  <2>2. Kept' \cup ledger' = Kept \cup ledger
    BY <1>3, <1>4 DEF Kept
  <2>3. Paid(Kept \cup ledger)' = Paid(Kept \cup ledger)
    BY <2>2, Zenon
  <2>4. QED
    BY <1>3, <2>1, <2>3 DEF EvaluatedTrue
<1>13. Covered'
  <2>1. Open' \subseteq Open
    BY <1>3 DEF Open, MaySettle
  <2>2. Due' \subseteq Due
    BY <1>3, <1>4, <2>1 DEF Due
  <2>3. QED
    BY <1>1, <2>2, CoveredBelow
<1>14. QED
  BY <1>2, <1>11, <1>12, <1>13 DEF HandoverInv

\* Booking and refreshing touch no request, no reservation and no settlement.
LEMMA SameRequests ==
    ASSUME HandoverInv, TypeOK', UNCHANGED <<requests, redis, settled, deployment, early>>,
           BookedInTime',
           \A g \in Gateways, k \in Kinds : LoadTrue(g, k)' /\ ViewTrue(g, k)'
    PROVE  HandoverInv'
<1>1. /\ UNCHANGED <<stage, left, evidence, evaluated, ledger, generation, settled, deployment, early>>
      /\ TypeOK /\ TimeInv /\ Covered
  BY DEF requests, redis, HandoverInv
<1>2. (settled \subseteq Reserved /\ KeptForGrace)'
  BY <1>1 DEF TimeInv, KeptForGrace, Reserved
<1>3. \A r \in Quotes : EvidenceTrue(r)'
  BY <1>1 DEF TimeInv, EvidenceTrue, ShowsAllBut
<1>4. TimeInv'
  <2>1. InTime'
    BY <1>1 DEF TimeInv, InTime, Pending
  <2>2. QED
    BY <1>2, <1>3, <2>1 DEF TimeInv
<1>5. \A r \in Quotes : EvaluatedTrue(r)'
  <2>1. \A r \in Quotes : EvaluatedTrue(r)
    BY DEF HandoverInv
  <2>2. Kept' = Kept
    BY <1>1 DEF Kept
  <2>3. Paid(Kept \cup ledger)' = Paid(Kept \cup ledger)
    BY <1>1, <2>2, Zenon
  <2>4. QED
    BY <1>1, <2>1, <2>3 DEF EvaluatedTrue
<1>6. Covered'
  <2>1. Open' = Open
    BY <1>1, TypeFacts DEF Open, MaySettle
  <2>2. Due' \subseteq Due
    BY <1>1, <2>1 DEF Due
  <2>3. QED
    BY <1>1, <2>1, <2>2, CoveredBelow
<1>7. QED
  BY <1>4, <1>5, <1>6 DEF HandoverInv

LEMMA BookKeeps ==
    ASSUME HandoverInv, NEW q \in Quotes, Book(q), UNCHANGED <<deployment, early>>
    PROVE  HandoverInv'
<1>1. TypeOK /\ TimeInv
  BY DEF HandoverInv
<1>2. TypeOK'
  BY <1>1, SettleTypes
<1>3. /\ UNCHANGED <<requests, redis, settled, deployment, early>> /\ view' = view /\ load' = load
      /\ left' = left
  BY DEF Book, requests
<1>4. BookedInTime'
  <2>1. \A r \in settled \ booked' : r \in settled \ booked /\ unbooked'[r] = unbooked[r]
    BY <1>1, TypeFacts DEF Book, TypeOK
  <2>2. QED
    BY <1>1, <1>3, <2>1 DEF TimeInv, BookedInTime
<1>5. \A g \in Gateways, k \in Kinds : LoadTrue(g, k)' /\ ViewTrue(g, k)'
  BY <1>1, <1>3 DEF TimeInv, LoadTrue, ViewTrue, ShowsAllBut, Fresh
<1>6. QED
  BY <1>2, <1>3, <1>4, <1>5, SameRequests

LEMMA RefreshKeeps ==
    ASSUME HandoverInv, NEW g \in Gateways, NEW k \in Kinds, UNCHANGED <<deployment, early>>,
           StartLoad(g, k) \/ Publish(g, k) \/ LoadFails(g, k)
    PROVE  HandoverInv'
<1>1. TypeOK /\ TimeInv
  BY DEF HandoverInv
<1>2. TypeOK'
  BY <1>1, RefreshTypes
<1>3. /\ UNCHANGED <<requests, redis, settled, deployment, early>> /\ left' = left /\ booked' = booked
      /\ unbooked' = unbooked /\ settled' = settled
  BY DEF StartLoad, Publish, LoadFails, requests, chain
<1>4. BookedInTime'
  BY <1>1, <1>3 DEF TimeInv, BookedInTime
<1>5. ASSUME NEW h \in Gateways, NEW j \in Kinds, <<h, j>> # <<g, k>>
      PROVE  LoadTrue(h, j)' /\ ViewTrue(h, j)'
  <2>1. load'[h][j] = load[h][j] /\ view'[h][j] = view[h][j]
    BY <1>1, <1>5 DEF StartLoad, Publish, LoadFails, TypeOK
  <2>2. QED
    BY <1>1, <1>3, <2>1 DEF TimeInv, LoadTrue, ViewTrue, ShowsAllBut, Fresh
<1>6. LoadTrue(g, k)'
  <2>1. CASE load'[g][k] = NoLoad
    BY <2>1 DEF LoadTrue
  <2>2. CASE StartLoad(g, k)
    <3>1. load'[g][k] = [shows |-> Source(k), age |-> 0]
      BY <1>1, <2>2 DEF StartLoad, TypeOK
    <3>2. \A q \in settled \ Source(k) : left[q] + BlockDelay + Lag(k) >= 0
      BY <1>1, TypeFacts, Delays DEF TimeInv, BookedInTime, Source, Lag, Kinds
    <3>3. load'[g][k].shows = Source(k) /\ load'[g][k].age = 0
      BY <3>1
    <3>4. ShowsAllBut(load[g][k].shows, Lag(k) + load[g][k].age)'
      BY <1>3, <3>2, <3>3, Delays DEF ShowsAllBut
    <3>5. QED
      BY <3>3, <3>4 DEF LoadTrue
  <2>3. CASE Publish(g, k) \/ LoadFails(g, k)
    <3>1. load'[g][k] = NoLoad
      BY <1>1, <2>3 DEF Publish, LoadFails, TypeOK
    <3>2. QED
      BY <3>1 DEF LoadTrue
  <2>4. QED
    BY <2>2, <2>3
<1>7. ViewTrue(g, k)'
  <2>1. CASE Publish(g, k)
    <3>1. view'[g][k] = [load[g][k] EXCEPT !.age = 0] /\ load[g][k] # NoLoad
      BY <1>1, <2>1 DEF Publish, TypeOK
    <3>2. load[g][k] \in [shows : SUBSET Quotes, age : -1 .. LoadTime]
      BY <1>1 DEF TypeOK
    <3>3. view'[g][k].shows = load[g][k].shows /\ view'[g][k].age = 0
      BY <3>1, <3>2
    <3>4. ShowsAllBut(load[g][k].shows, Lag(k) + load[g][k].age)
      BY <1>1, <3>1 DEF TimeInv, LoadTrue
    <3>5. \A q \in settled \ load[g][k].shows : left[q] + BlockDelay + (Lag(k) + LoadTime) >= 0
      BY <1>1, <3>4, TypeFacts, Delays DEF ShowsAllBut
    <3>6. ShowsAllBut(view[g][k].shows, Lag(k) + LoadTime + view[g][k].age)'
      BY <1>3, <3>3, <3>5, Delays DEF ShowsAllBut
    <3>7. QED
      BY <3>6 DEF ViewTrue
  <2>2. CASE view' = view
    BY <1>1, <1>3, <2>2 DEF TimeInv, ViewTrue, ShowsAllBut, Fresh
  <2>3. QED
    BY <2>1, <2>2 DEF StartLoad, LoadFails
<1>8. \A h \in Gateways, j \in Kinds : LoadTrue(h, j)' /\ ViewTrue(h, j)'
  BY <1>5, <1>6, <1>7
<1>9. QED
  BY <1>2, <1>3, <1>4, <1>8, SameRequests

-----------------------------------------------------------------------------
(* A request.                                                              *)

\* Its evidence lacks only what is settled shortly before.
LEMMA RequestEvidence ==
    ASSUME TypeOK, TimeInv, NEW q \in Quotes, Request(q), RequestOf(q)
    PROVE  EvidenceTrue(q)'
<1>1. /\ UNCHANGED <<settled, view>> /\ settled \subseteq Reserved
      /\ stage[q] # "reserved"
      /\ \A r \in Quotes \ {q} : left'[r] = left[r]
  BY DEF RequestOf, chain, TimeInv
<1>2. \A r \in settled : r \in Quotes /\ r # q /\ left'[r] = left[r]
  BY <1>1 DEF Reserved
<1>3. CASE stage'[q] \notin {"checked", "evaluated"}
  BY <1>3 DEF EvidenceTrue
<1>4. CASE ReadBalance(q) /\ stage'[q] = "checked"
  <2>1. PICK g : g = GatewayOf[q]
    OBVIOUS
  <2>2. g \in Gateways /\ "balance" \in Kinds
    BY <2>1, HandoverAssumption DEF HandoverAssumption, Kinds
  <2>3. /\ Fresh(g, "balance") /\ evidence'[q] = view[g]["balance"].shows
        /\ left'[q] = left[q]
    BY <1>4, <2>1 DEF ReadBalance, Reject, Goto, TypeOK
  <2>4. ShowsAllBut(view[g]["balance"].shows, Lag("balance") + LoadTime + view[g]["balance"].age)
    BY <2>2, <2>3 DEF TimeInv, ViewTrue
  <2>5. \A r \in settled \ evidence'[q] :
            left'[r] + BlockDelay + (LoadTime + MaxAge + Ttl - left'[q]) >= 0
    BY <1>2, <2>2, <2>3, <2>4, TypeFacts, Delays DEF ShowsAllBut, Fresh, Lag
  <2>6. QED
    BY <1>1, <2>5 DEF EvidenceTrue, ShowsAllBut
<1>5. CASE /\ stage[q] \in {"checked", "evaluated"}
           /\ evidence'[q] = evidence[q] /\ left'[q] = left[q]
  BY <1>1, <1>2, <1>5 DEF TimeInv, EvidenceTrue, ShowsAllBut
<1>6. CASE Price(q) \/ GiveUp(q)
  BY <1>3, <1>6 DEF Price, GiveUp, Reject, Goto, TypeOK
<1>7. CASE ReadBalance(q)
  BY <1>3, <1>4, <1>7 DEF ReadBalance, Reject, Goto, TypeOK
<1>8. CASE Evaluate(q)
  BY <1>3, <1>5, <1>8 DEF Evaluate, Reject, Goto, TypeOK
<1>9. CASE Commit(q)
  BY <1>3, <1>5, <1>9 DEF Commit, CommitReserves, CommitRefuses, CommitConflicts,
                          Reject, Goto, TypeOK
<1>10. QED
  BY <1>6, <1>7, <1>8, <1>9 DEF Request

LEMMA RequestKeepsTime ==
    ASSUME TypeOK, TimeInv, NEW q \in Quotes, Request(q), RequestOf(q), UNCHANGED early
    PROVE  TimeInv'
<1>1. /\ UNCHANGED <<settled, booked, unbooked, view, load>>
      /\ stage[q] # "reserved"
      /\ \A r \in Quotes \ {q} :
             /\ stage'[r] = stage[r] /\ left'[r] = left[r]
             /\ evidence'[r] = evidence[r]
      /\ settled \subseteq Reserved
  BY DEF RequestOf, chain, TimeInv
<1>2. \A r \in settled : r \in Quotes /\ r # q /\ left'[r] = left[r] /\ stage'[r] = "reserved"
  BY <1>1 DEF Reserved
<1>3. \A S, n : ShowsAllBut(S, n) => \A r \in settled' \ S : left'[r] + BlockDelay + n >= 0
  BY <1>1, <1>2 DEF ShowsAllBut
<1>4. (settled \subseteq Reserved)'
  BY <1>1, <1>2 DEF Reserved
<1>5. KeptForGrace'
  BY <1>1, TypeFacts, Delays DEF TimeInv, KeptForGrace, Reserved, RequestOf, Expired
<1>6. BookedInTime'
  BY <1>1, <1>2 DEF TimeInv, BookedInTime
<1>7. ASSUME NEW g \in Gateways, NEW k \in Kinds PROVE LoadTrue(g, k)' /\ ViewTrue(g, k)'
  BY <1>1, <1>3 DEF TimeInv, LoadTrue, ViewTrue, ShowsAllBut, Fresh
<1>8. ASSUME NEW r \in Quotes PROVE EvidenceTrue(r)'
  <2>1. CASE r = q
    BY <2>1, RequestEvidence
  <2>2. CASE r # q
    BY <1>1, <1>3, <2>2 DEF TimeInv, EvidenceTrue, ShowsAllBut
  <2>3. QED
    BY <2>1, <2>2
<1>9. InTime'
  <2>1. \A r \in Quotes \ {q} : Pending(r)' => Ttl - left'[r] <= RequestTime
    BY <1>1 DEF TimeInv, InTime, Pending
  <2>2. \/ left'[q] = Ttl
        \/ Pending(q) /\ left'[q] = left[q]
        \/ ~Pending(q)'
    BY DEF Request, Price, ReadBalance, Evaluate, Commit, CommitReserves, CommitRefuses,
           CommitConflicts, GiveUp, Reject, Goto, Pending, TypeOK
  <2>3. Pending(q)' => Ttl - left'[q] <= RequestTime
    BY <2>2, Delays DEF TimeInv, InTime
  <2>4. QED
    BY <2>1, <2>3 DEF InTime
<1>10. QED
  BY <1>4, <1>5, <1>6, <1>7, <1>8, <1>9 DEF TimeInv

\* While its balance counts, a request has held it no longer than Held.
LEMMA HeldBriefly ==
    ASSUME TypeOK, TimeInv, NEW q \in Quotes, Pending(q), left[q] > 0
    PROVE  Ttl - left[q] <= Held
BY TypeFacts, Delays DEF TimeInv, InTime, Held

\* Positions that may be used show whatever the ledger no longer counts, so that
\* an evaluation counts all there is.
LEMMA EvaluatedAll ==
    ASSUME GraceCovers, TypeOK, TimeInv, NEW q \in Quotes, Evaluate(q), stage'[q] = "evaluated"
    PROVE  /\ settled' = settled /\ ledger' \subseteq Quotes
           /\ Paid(Kept \cup ledger') + Out[q] <= deployment.limit
           /\ evaluated'[q] = generation'
<1>1. PICK g : g = GatewayOf[q]
  OBVIOUS
<1>2. g \in Gateways /\ "positions" \in Kinds
  BY <1>1, HandoverAssumption DEF HandoverAssumption, Kinds
<1>3. PICK C \in {{}, Expired} :
        /\ Change(C, {})
        /\ Fresh(g, "positions")
        /\ Exposure(q, C) <= deployment.limit
        /\ evaluated' = [evaluated EXCEPT ![q] = generation']
  BY <1>1 DEF Evaluate, Reject, Goto, TypeOK
<1>4. PICK P : P = view[g]["positions"].shows
  OBVIOUS
<1>5. PICK L : L = ledger \ C
  OBVIOUS
<1>6. P \in SUBSET Quotes /\ L \in SUBSET Quotes /\ ledger' = L /\ settled' = settled
  BY <1>2, <1>3, <1>4, <1>5, TypeFacts DEF Change, Evaluate, chain
<1>7. ShowsAllBut(P, Lag("positions") + LoadTime + view[g]["positions"].age)
  BY <1>2, <1>3, <1>4 DEF TimeInv, ViewTrue
<1>8. \A r \in settled \ P : r \in Reserved /\ left[r] + Grace > 0
  BY <1>2, <1>3, <1>7, TypeFacts, Delays DEF ShowsAllBut, Fresh, Lag, GraceCovers, TimeInv
<1>9. Kept \subseteq P \cup L
  BY <1>3, <1>5, <1>8, TypeFacts, Delays DEF TimeInv, KeptForGrace, Expired, Kept
<1>10. PICK S : S = Kept \cup L
  OBVIOUS
<1>11. PICK T : T = P \cup L
  OBVIOUS
<1>12. S \in SUBSET Quotes /\ T \in SUBSET Quotes /\ S \subseteq T
  BY <1>6, <1>9, <1>10, <1>11, TypeFacts DEF Kept
<1>13. Paid(S) <= Paid(T) /\ Paid(S) \in Nat /\ Paid(T) \in Nat
  BY <1>12, PaidFacts
<1>14. Paid(T) <= Paid(P) + Paid(L) /\ Paid(P) \in Nat /\ Paid(L) \in Nat
  <2>1. Paid(P \cup L) <= Paid(P) + Paid(L) /\ Paid(P) \in Nat
    BY <1>6, PaidFacts
  <2>2. Paid(L) \in Nat
    BY <1>6, PaidFacts
  <2>3. QED
    BY <1>11, <2>1, <2>2, Zenon
<1>15. Paid(P) + Paid(L) + Out[q] <= deployment.limit
  BY <1>1, <1>3, <1>4, <1>5, Zenon DEF Exposure
<1>16. Out[q] \in Nat /\ deployment.limit \in Nat
  BY HandoverAssumption, TypeFacts DEF HandoverAssumption
<1>17. Paid(S) + Out[q] <= deployment.limit
  BY <1>13, <1>14, <1>15, <1>16
<1>18. evaluated'[q] = generation'
  BY <1>3 DEF TypeOK
<1>19. Paid(Kept \cup ledger') + Out[q] <= deployment.limit
  BY <1>6, <1>10, <1>17, Zenon
<1>20. QED
  BY <1>6, <1>18, <1>19

LEMMA RequestEvaluated ==
    ASSUME GraceCovers, HandoverInv, UNCHANGED <<deployment, early>>,
           NEW q \in Quotes, Request(q), RequestOf(q), NEW r \in Quotes
    PROVE  EvaluatedTrue(r)'
<1>1. /\ TypeOK /\ TimeInv /\ EvaluatedTrue(r) /\ EvaluatedTrue(q)
      /\ Kept' = Kept
      /\ generation' \in Nat /\ generation' >= generation
      /\ generation' = generation => ledger' = ledger
  BY DEF HandoverInv, RequestOf, chain, Kept
<1>2. ASSUME evaluated'[r] = evaluated[r], stage'[r] = stage[r]
      PROVE  EvaluatedTrue(r)'
  <2>1. evaluated'[r] <= generation'
    BY <1>1, <1>2, TypeFacts DEF EvaluatedTrue
  <2>2. ASSUME stage'[r] = "evaluated", evaluated'[r] = generation'
        PROVE  Paid(Kept' \cup ledger') + Out[r] <= deployment'.limit
    <3>1. evaluated[r] = generation /\ ledger' = ledger /\ stage[r] = "evaluated"
      BY <1>1, <1>2, <2>2, TypeFacts DEF EvaluatedTrue
    <3>2. Paid(Kept \cup ledger) + Out[r] <= deployment.limit
      BY <1>1, <3>1 DEF EvaluatedTrue
    <3>3. QED
      BY <1>1, <3>1, <3>2
  <2>3. QED
    BY <2>1, <2>2 DEF EvaluatedTrue
<1>3. CASE r # q
  BY <1>2, <1>3 DEF RequestOf
<1>4. CASE r = q
  <2>1. CASE stage'[q] = "evaluated"
    <3>1. Evaluate(q)
      BY <1>1, <2>1 DEF Request, Price, ReadBalance, GiveUp, Commit, CommitReserves,
                        CommitRefuses, CommitConflicts, Reject, Goto, TypeOK
    <3>2. /\ Paid(Kept \cup ledger') + Out[q] <= deployment.limit
          /\ evaluated'[q] = generation'
      BY <1>1, <2>1, <3>1, EvaluatedAll
    <3>3. Paid(Kept' \cup ledger') + Out[q] <= deployment'.limit
      BY <1>1, <3>2, Zenon
    <3>4. QED
      BY <1>1, <1>4, <3>2, <3>3 DEF EvaluatedTrue
  <2>2. CASE stage'[q] # "evaluated"
    <3>1. evaluated'[q] = evaluated[q] \/ evaluated'[q] = 0
      BY <1>1, <2>2 DEF Request, Price, ReadBalance, GiveUp, Evaluate, Commit, CommitReserves,
                        CommitRefuses, CommitConflicts, Reject, Goto, Forget, TypeOK
    <3>2. evaluated'[q] <= generation'
      BY <1>1, <1>4, <3>1, TypeFacts DEF EvaluatedTrue
    <3>3. QED
      BY <1>4, <2>2, <3>2 DEF EvaluatedTrue
  <2>3. QED
    BY <2>1, <2>2
<1>5. QED
  BY <1>3, <1>4

\* A commit that is not refused leaves room for its quote.
LEMMA CommitCovers ==
    ASSUME GraceCovers, HandoverInv, NEW q \in Quotes, Commit(q), CommitReserves(q)
    PROVE  /\ Paid(Due \cup {q}) <= deployment.capital
           /\ Paid(Due \cup {q}) <= deployment.limit
<1>1. TypeOK /\ TimeInv /\ EvaluatedTrue(q) /\ Open \subseteq ledger \cup early
  BY OpenIsReserved DEF HandoverInv
<1>2. Expired = {} /\ evaluated[q] = generation
  <2>1. ~Conflict(q) /\ evaluated[q] <= generation
    BY <1>1 DEF CommitReserves, EvaluatedTrue
  <2>2. IsFiniteSet(Expired)
    BY <1>1, HandoverAssumption, TypeFacts, FS_Subset DEF HandoverAssumption, Expired
  <2>3. Cardinality(Expired) \in Nat /\ (Cardinality(Expired) = 0 <=> Expired = {})
    BY <2>2, FS_CardinalityType, FS_EmptySet
  <2>4. QED
    BY <1>1, <2>1, <2>3, TypeFacts DEF Conflict
<1>3. stage[q] = "evaluated"
  BY DEF Commit
<1>4. left[q] > 0 /\ Paid(evidence[q]) + Paid(ledger \ Expired) + Out[q] <= deployment.capital
  <2>1. ~Refused(q)
    BY DEF CommitReserves
  <2>2. Paid(evidence[q]) \in Nat
    BY <1>1, TypeFacts, PaidFacts
  <2>3. PICK L \in SUBSET Quotes : L = ledger \ Expired
    BY <1>1, TypeFacts
  <2>4. Paid(L) \in Nat
    BY PaidFacts
  <2>5. Paid(ledger \ Expired) \in Nat
    BY <2>3, <2>4, Zenon
  <2>6. Out[q] \in Nat
    BY HandoverAssumption DEF HandoverAssumption
  <2>7. QED
    BY <1>1, <2>1, <2>2, <2>5, <2>6, TypeFacts DEF Refused
<1>5. PICK E \in SUBSET Quotes : E = evidence[q]
  BY <1>1, TypeFacts
<1>6. PICK L \in SUBSET Quotes : L = ledger /\ L = ledger \ Expired
  BY <1>1, <1>2, TypeFacts
<1>7. PICK S \in SUBSET Quotes : S = Due
  BY <1>1, TypeFacts DEF Due
<1>8. S \subseteq E \cup L
  <2>1. ShowsAllBut(E, LoadTime + MaxAge + Ttl - left[q])
    BY <1>1, <1>3, <1>4, <1>5 DEF TimeInv, EvidenceTrue
  <2>2. Ttl - left[q] <= Held /\ Held \in Int
    BY <1>1, <1>3, <1>4, HeldBriefly, Delays DEF Pending, Held
  <2>3. \A r \in settled \ E : r \in Reserved /\ left[r] + Grace > 0
    BY <1>1, <2>1, <2>2, TypeFacts, Delays DEF ShowsAllBut, GraceCovers, TimeInv
  <2>4. Kept \subseteq E \cup L
    BY <1>1, <1>6, <2>3, TypeFacts, Delays DEF TimeInv, KeptForGrace, Kept
  <2>5. QED
    BY <1>1, <1>6, <1>7, <2>4 DEF Due, Kept
<1>9. Out[q] \in Nat /\ Paid(E) \in Nat /\ Paid(L) \in Nat /\ Paid(S) \in Nat
  <2>1. Out[q] \in Nat
    BY HandoverAssumption DEF HandoverAssumption
  <2>2. QED
    BY <2>1, PaidFacts
<1>10. Paid(S) <= Paid(E) + Paid(L)
  <2>1. PICK T \in SUBSET Quotes : T = E \cup L
    OBVIOUS
  <2>2. Paid(S) <= Paid(T) /\ Paid(T) \in Nat
    BY <1>8, <2>1, PaidFacts
  <2>3. Paid(T) <= Paid(E) + Paid(L)
    <3>1. Paid(E \cup L) <= Paid(E) + Paid(L)
      BY PaidFacts
    <3>2. QED
      BY <2>1, <3>1, Zenon
  <2>4. QED
    BY <1>9, <2>2, <2>3
<1>11. Paid(S \cup {q}) <= Paid(S) + Out[q]
  BY PaidFacts
<1>12. Paid(E) + Paid(L) + Out[q] <= deployment.capital
  BY <1>4, <1>5, <1>6, Zenon
<1>13. Paid(S) + Out[q] <= deployment.limit
  <2>1. PICK T \in SUBSET Quotes : T = Kept \cup ledger
    BY <1>1, TypeFacts DEF Kept
  <2>2. Paid(Kept \cup ledger) + Out[q] <= deployment.limit
    BY <1>1, <1>2, <1>3 DEF EvaluatedTrue
  <2>3. Paid(T) + Out[q] <= deployment.limit
    BY <2>1, <2>2, Zenon
  <2>4. S \subseteq T
    BY <1>1, <1>7, <2>1 DEF Due, Kept
  <2>5. Paid(S) <= Paid(T) /\ Paid(T) \in Nat
    BY <2>4, PaidFacts
  <2>6. QED
    BY <1>1, <1>9, <2>3, <2>5, TypeFacts
<1>14. PICK U \in SUBSET Quotes : U = S \cup {q} /\ U = Due \cup {q}
  BY <1>7
<1>15. Paid(U) \in Nat /\ Paid(U) <= Paid(S) + Out[q]
  <2>1. Paid(U) \in Nat
    BY PaidFacts
  <2>2. QED
    BY <1>11, <1>14, <2>1, Zenon
<1>16. Paid(U) <= deployment.capital /\ Paid(U) <= deployment.limit
  BY <1>1, <1>9, <1>10, <1>12, <1>13, <1>15, TypeFacts
<1>17. QED
  BY <1>14, <1>16, Zenon

LEMMA RequestCovered ==
    ASSUME GraceCovers, HandoverInv, UNCHANGED <<deployment, early>>, TypeOK',
           NEW q \in Quotes, Request(q), RequestOf(q)
    PROVE  Covered'
<1>1. /\ TypeOK /\ TimeInv /\ Covered /\ settled' = settled
      /\ \A r \in Quotes \ {q} : stage'[r] = stage[r] /\ left'[r] = left[r]
  BY DEF HandoverInv, RequestOf, chain
<1>2. Open' \subseteq Open \cup {q} /\ Due \subseteq Quotes /\ Due' \subseteq Due \cup {q}
  <2>1. Open' \subseteq Open \cup {q}
    BY <1>1, TypeFacts DEF Open, MaySettle
  <2>2. QED
    BY <1>1, <2>1, TypeFacts DEF Due, Open
<1>3. CASE stage'[q] # "reserved"
  <2>1. Open' \subseteq Open
    BY <1>1, <1>2, <1>3 DEF Open, MaySettle
  <2>2. Due' \subseteq Due
    BY <1>1, <2>1 DEF Due
  <2>3. QED
    BY <1>1, <1>2, <2>2, CoveredBelow
<1>4. CASE stage'[q] = "reserved"
  <2>1. Commit(q) /\ CommitReserves(q)
    BY <1>1, <1>4 DEF Request, Price, ReadBalance, GiveUp, Evaluate, Commit, CommitReserves,
                      CommitRefuses, CommitConflicts, Reject, Goto, TypeOK
  <2>2. PICK U \in SUBSET Quotes : U = Due \cup {q}
    BY <1>2
  <2>3. PICK S \in SUBSET Quotes : S = Due' /\ S \subseteq U
    BY <1>1, <1>2, <2>2
  <2>4. Paid(U) <= deployment.capital /\ Paid(U) <= deployment.limit
    <3>1. /\ Paid(Due \cup {q}) <= deployment.capital
          /\ Paid(Due \cup {q}) <= deployment.limit
      BY <2>1, CommitCovers
    <3>2. QED
      BY <2>2, <3>1, Zenon
  <2>5. Paid(S) <= Paid(U) /\ Paid(S) \in Nat /\ Paid(U) \in Nat
    BY <2>3, PaidFacts
  <2>6. Paid(S) <= deployment'.capital /\ Paid(S) <= deployment'.limit
    BY <1>1, <2>4, <2>5, TypeFacts
  <2>7. QED
    BY <2>3, <2>6, Zenon DEF Covered
<1>5. QED
  BY <1>3, <1>4

LEMMA RequestKeeps ==
    ASSUME GraceCovers, HandoverInv, UNCHANGED <<deployment, early>>, NEW q \in Quotes, Request(q)
    PROVE  HandoverInv'
<1>1. TypeOK /\ TimeInv /\ RequestOf(q)
  BY RequestIsRequest DEF HandoverInv
<1>2. TypeOK'
  BY <1>1, RequestTypes
<1>3. TimeInv'
  BY <1>1, RequestKeepsTime
<1>4. \A r \in Quotes : EvaluatedTrue(r)'
  BY <1>1, RequestEvaluated
<1>5. Covered'
  BY <1>1, <1>2, RequestCovered
<1>6. QED
  BY <1>2, <1>3, <1>4, <1>5 DEF HandoverInv

-----------------------------------------------------------------------------
(* A reservation leaves the ledger: released, or not signed after all.     *)

Removed(q) ==
    /\ q \in ledger /\ Change({q}, {})
    /\ UNCHANGED <<chain, view, load, deployment>>
    /\ early \subseteq early'
    /\ \A r \in Quotes :
           \/ /\ stage'[r] = stage[r] /\ left'[r] = left[r]
              /\ evidence'[r] = evidence[r] /\ evaluated'[r] = evaluated[r]
           \/ /\ r = q /\ stage'[r] = "rejected" /\ evaluated'[r] = 0
              /\ q \notin settled
    /\ stage'[q] = "reserved" => left'[q] + Grace <= 0 \/ q \in early'

LEMMA ReleaseRemoves ==
    ASSUME TypeOK, NEW q \in Quotes, Release(q), UNCHANGED deployment
    PROVE  Removed(q) /\ TypeOK'
<1>1. /\ q \in ledger /\ q \in Polled /\ Change({q}, {})
      /\ UNCHANGED <<chain, view, load, deployment>>
      /\ UNCHANGED <<stage, left, evidence, evaluated>>
      /\ early' = IF left[q] + Grace > 0 THEN early \cup {q} ELSE early
  BY DEF Release, requests
<1>2. left[q] + Grace \in Int
  BY TypeFacts, Delays
<1>3. left'[q] + Grace <= 0 \/ q \in early'
  BY <1>1, <1>2
<1>4. ledger' = ledger \ {q} /\ generation' \in Nat
  <2>1. {q} \in SUBSET ledger /\ {} \in SUBSET Quotes
    BY <1>1
  <2>2. ledger' = (ledger \ {q}) \cup {} /\ generation' \in Nat
    BY <1>1, <2>1, ChangeFacts
  <2>3. QED
    BY <2>2
<1>5. Removed(q)
  BY <1>1, <1>3 DEF Removed
<1>6. TypeOK'
  BY <1>1, <1>4 DEF TypeOK, chain, Snapshot
<1>7. QED
  BY <1>5, <1>6

LEMMA SigningFailsRemoves ==
    ASSUME TypeOK, NEW q \in Quotes, SigningFails(q), UNCHANGED <<deployment, early>>
    PROVE  Removed(q) /\ TypeOK'
<1>1. /\ q \in ledger /\ q \notin settled /\ Change({q}, {}) /\ Reject(q)
      /\ UNCHANGED <<chain, view, load, deployment, early>>
  BY DEF SigningFails
<1>2. ledger' = ledger \ {q} /\ generation' \in Nat
  <2>1. {q} \in SUBSET ledger /\ {} \in SUBSET Quotes
    BY <1>1
  <2>2. ledger' = (ledger \ {q}) \cup {} /\ generation' \in Nat
    BY <1>1, <2>1, ChangeFacts
  <2>3. QED
    BY <2>2
<1>3. /\ stage'[q] = "rejected" /\ evaluated'[q] = 0
      /\ \A r \in Quotes \ {q} :
             /\ stage'[r] = stage[r] /\ left'[r] = left[r]
             /\ evidence'[r] = evidence[r] /\ evaluated'[r] = evaluated[r]
  BY <1>1 DEF TypeOK, Reject, Goto, Forget
<1>4. Removed(q)
  BY <1>1, <1>3 DEF Removed
<1>5. TypeOK'
  <2>1. /\ stage' \in [Quotes -> Stages] /\ left' \in [Quotes -> Floor .. Ttl]
        /\ evidence' \in [Quotes -> SUBSET Quotes] /\ evaluated' \in [Quotes -> Nat]
    BY <1>1, RejectTypes
  <2>2. ledger' \subseteq {r \in Quotes : stage'[r] = "reserved"}
    BY <1>2, <1>3 DEF TypeOK
  <2>3. QED
    BY <1>1, <1>2, <2>1, <2>2 DEF TypeOK, chain, Snapshot
<1>6. QED
  BY <1>4, <1>5

LEMMA RemovalKeeps ==
    ASSUME HandoverInv, TypeOK', NEW q \in Quotes, Removed(q)
    PROVE  HandoverInv'
<1>1. /\ TypeOK /\ TimeInv /\ Covered
      /\ q \in ledger /\ early \subseteq early'
      /\ UNCHANGED <<settled, booked, unbooked, view, load, deployment>>
  BY DEF HandoverInv, Removed, chain
<1>2. /\ ledger' = ledger \ {q}
      /\ generation' \in Nat /\ generation' > generation
  <2>1. {q} \in SUBSET ledger /\ {} \in SUBSET Quotes /\ Change({q}, {})
    BY <1>1 DEF Removed
  <2>2. /\ ledger' = (ledger \ {q}) \cup {}
        /\ generation' \in Nat /\ generation' >= generation /\ generation \in Nat
        /\ generation' = generation => {q} = {}
    BY <1>1, <2>1, ChangeFacts, TypeFacts
  <2>3. QED
    BY <2>2
<1>3. \A r \in Quotes :
          \/ /\ stage'[r] = stage[r] /\ left'[r] = left[r]
             /\ evidence'[r] = evidence[r] /\ evaluated'[r] = evaluated[r]
          \/ /\ r = q /\ stage'[r] = "rejected" /\ evaluated'[r] = 0
             /\ q \notin settled
  BY DEF Removed
<1>4. \A r \in settled : r \in Quotes /\ left'[r] = left[r] /\ stage'[r] = "reserved"
  BY <1>1, <1>3 DEF TimeInv, Reserved
<1>5. \A S, n : ShowsAllBut(S, n) => \A r \in settled' \ S : left'[r] + BlockDelay + n >= 0
  BY <1>1, <1>4 DEF ShowsAllBut
<1>6. (settled \subseteq Reserved)'
  BY <1>1, <1>4 DEF Reserved
<1>7. KeptForGrace'
  <2> SUFFICES ASSUME NEW r \in Quotes, stage'[r] = "reserved", r \notin ledger', r \notin early'
               PROVE  left'[r] + Grace <= 0
    BY DEF KeptForGrace, Reserved
  <2>1. CASE r = q
    BY <2>1 DEF Removed
  <2>2. CASE r # q
    BY <1>1, <1>2, <1>3, <2>2 DEF TimeInv, KeptForGrace, Reserved
  <2>3. QED
    BY <2>1, <2>2
<1>8. BookedInTime'
  BY <1>1, <1>4 DEF TimeInv, BookedInTime
<1>9. ASSUME NEW g \in Gateways, NEW k \in Kinds PROVE LoadTrue(g, k)' /\ ViewTrue(g, k)'
  BY <1>1, <1>5 DEF TimeInv, LoadTrue, ViewTrue, ShowsAllBut, Fresh
<1>10. ASSUME NEW r \in Quotes PROVE EvidenceTrue(r)'
  BY <1>1, <1>3, <1>5 DEF TimeInv, EvidenceTrue, ShowsAllBut
<1>11. InTime'
  BY <1>1, <1>3 DEF TimeInv, InTime, Pending
<1>12. TimeInv'
  BY <1>6, <1>7, <1>8, <1>9, <1>10, <1>11 DEF TimeInv
<1>13. ASSUME NEW r \in Quotes PROVE EvaluatedTrue(r)'
  <2>1. evaluated[r] <= generation /\ evaluated[r] \in Nat /\ generation \in Nat
    BY <1>1, TypeFacts DEF HandoverInv, EvaluatedTrue
  <2>2. evaluated'[r] < generation' /\ evaluated'[r] \in Nat
    BY <1>2, <1>3, <2>1
  <2>3. QED
    BY <1>2, <2>2 DEF EvaluatedTrue
<1>14. Covered'
  <2>1. Open' \subseteq Open
    BY <1>1, <1>3 DEF Open, MaySettle
  <2>2. Due' \subseteq Due
    BY <1>1, <2>1 DEF Due
  <2>3. QED
    BY <1>1, <2>2, CoveredBelow
<1>15. QED
  BY <1>12, <1>13, <1>14 DEF HandoverInv

-----------------------------------------------------------------------------
(* The theorems.                                                           *)

LEMMA TypeKeeps == TypeOK /\ [Next]_vars => TypeOK'
<1> SUFFICES ASSUME TypeOK, [Next]_vars PROVE TypeOK'
  OBVIOUS
<1>1. CASE UNCHANGED vars
  BY <1>1 DEF TypeOK, vars, requests, redis, chain, Snapshot
<1>2. CASE Tick /\ UNCHANGED <<deployment, early>>
  BY <1>2, TickTypes
<1>3. CASE Refresh /\ UNCHANGED <<deployment, early>>
  BY <1>3, RefreshTypes DEF Refresh
<1>4. ASSUME NEW q \in Quotes, Request(q) \/ Settle(q) \/ Book(q), UNCHANGED <<deployment, early>>
      PROVE  TypeOK'
  BY <1>4, RequestIsRequest, RequestTypes, SettleTypes
<1>5. ASSUME NEW q \in Quotes, SigningFails(q), UNCHANGED <<deployment, early>>
      PROVE  TypeOK'
  BY <1>5, SigningFailsRemoves
<1>6. ASSUME NEW q \in Quotes, Release(q), UNCHANGED deployment
      PROVE  TypeOK'
  BY <1>6, ReleaseRemoves
<1>7. QED
  BY <1>1, <1>2, <1>3, <1>4, <1>5, <1>6 DEF Next

LEMMA NextKeeps == GraceCovers /\ HandoverInv /\ [Next]_vars => HandoverInv'
<1> SUFFICES ASSUME GraceCovers, HandoverInv, [Next]_vars PROVE HandoverInv'
  OBVIOUS
<1>1. CASE UNCHANGED vars
  <2>1. TypeOK'
    BY <1>1, TypeKeeps DEF HandoverInv
  <2>2. /\ UNCHANGED <<requests, redis, settled, deployment, early>>
        /\ UNCHANGED <<left, booked, unbooked, view, load>>
    BY <1>1 DEF vars, chain, requests
  <2>3. BookedInTime' /\ \A g \in Gateways, k \in Kinds : LoadTrue(g, k)' /\ ViewTrue(g, k)'
    BY <2>2 DEF HandoverInv, TimeInv, BookedInTime, LoadTrue, ViewTrue, ShowsAllBut, Fresh
  <2>4. QED
    BY <2>1, <2>2, <2>3, SameRequests
<1>2. CASE Tick /\ UNCHANGED <<deployment, early>>
  BY <1>2, TickKeeps
<1>3. CASE Refresh /\ UNCHANGED <<deployment, early>>
  BY <1>3, RefreshKeeps DEF Refresh
<1>4. ASSUME NEW q \in Quotes, Request(q) \/ Settle(q) \/ Book(q), UNCHANGED <<deployment, early>>
      PROVE  HandoverInv'
  BY <1>4, RequestKeeps, SettleKeeps, BookKeeps
<1>5. ASSUME NEW q \in Quotes, SigningFails(q), UNCHANGED <<deployment, early>>
      PROVE  HandoverInv'
  BY <1>5, SigningFailsRemoves, RemovalKeeps DEF HandoverInv
<1>6. ASSUME NEW q \in Quotes, Release(q), UNCHANGED deployment
      PROVE  HandoverInv'
  BY <1>6, ReleaseRemoves, RemovalKeeps DEF HandoverInv
<1>7. QED
  BY <1>1, <1>2, <1>3, <1>4, <1>5, <1>6 DEF Next

\* Every state is of the types the module declares: quotes, reservations,
\* snapshots and loads, whatever the delays are.
THEOREM HandoverTypes == Spec => []TypeOK
<1>1. Init => TypeOK
  BY InitHolds DEF HandoverInv
<1>2. TypeOK /\ [Next]_vars => TypeOK'
  BY TypeKeeps
<1>3. QED
  BY <1>1, <1>2, PTL DEF Spec

LEMMA Invariance ==
    ASSUME GraceCovers
    PROVE  Spec => []HandoverInv
<1>1. HandoverInv /\ [Next]_vars => HandoverInv'
  BY NextKeeps
<1>2. QED
  BY <1>1, InitHolds, PTL DEF Spec

\* A grace that outlasts the delays hands a settlement over without a gap: when
\* the ledger drops a reservation whose quote was settled, and not before its
\* grace has passed, every fresh snapshot and every balance a request still
\* holds shows the settlement.
THEOREM SettledCounted ==
    ASSUME GraceCovers
    PROVE  Spec => []SettledIsCounted
<1>1. ASSUME HandoverInv PROVE SettledIsCounted
  <2> SUFFICES ASSUME NEW q \in settled \ (ledger \cup early)
               PROVE  PositionsShow(q) /\ BalancesShow(q)
    BY DEF SettledIsCounted
  <2>1. TypeOK /\ TimeInv
    BY <1>1 DEF HandoverInv
  <2>2. q \in Quotes /\ left[q] + Grace <= 0
    BY <2>1, TypeFacts DEF TimeInv, KeptForGrace, Reserved
  <2>3. ASSUME NEW g \in Gateways, NEW k \in Kinds, Fresh(g, k), q \notin view[g][k].shows
        PROVE  FALSE
    <3>1. ShowsAllBut(view[g][k].shows, Lag(k) + LoadTime + view[g][k].age)
      BY <2>1, <2>3 DEF TimeInv, ViewTrue
    <3>2. Lag(k) <= BookLag \/ Lag(k) = 0
      BY Delays DEF Lag
    <3>3. QED
      BY <2>1, <2>2, <2>3, <3>1, <3>2, TypeFacts, Delays DEF ShowsAllBut, Fresh, GraceCovers
  <2>4. ASSUME NEW r \in Quotes,
               stage[r] \in {"checked", "evaluated"}, left[r] > 0, q \notin evidence[r]
        PROVE  FALSE
    <3>1. ShowsAllBut(evidence[r], LoadTime + MaxAge + Ttl - left[r])
      BY <2>1, <2>4 DEF TimeInv, EvidenceTrue
    <3>2. Ttl - left[r] <= Held /\ Held \in Int
      BY <2>1, <2>4, HeldBriefly, Delays DEF Pending, Held
    <3>3. QED
      BY <2>1, <2>2, <2>4, <3>1, <3>2, TypeFacts, Delays DEF ShowsAllBut, GraceCovers
  <2>5. QED
    BY <2>3, <2>4 DEF PositionsShow, BalancesShow, Kinds
<1>2. QED
  BY <1>1, Invariance, PTL

\* Under such a grace no commit oversells the Treasury: whatever balance each
\* quote was admitted on, it holds what all that can still be settled pay out,
\* but for the quotes released before their grace had passed.
THEOREM NothingOversold ==
    ASSUME GraceCovers
    PROVE  Spec => []NoOversell
<1>1. HandoverInv => NoOversell
  <2>1. Covered => NoOversell
    BY Zenon DEF Covered, Due, NoOversell
  <2>2. QED
    BY <2>1 DEF HandoverInv
<1>2. QED
  BY <1>1, Invariance, PTL

\* Nor does the exposure, settled and open, ever exceed the hard limit, though
\* evaluation, commit and settlement see ledger and positions at three moments,
\* but for the same quotes.
THEOREM LimitKept ==
    ASSUME GraceCovers
    PROVE  Spec => []WithinLimit
<1>1. HandoverInv => WithinLimit
  <2>1. Covered => WithinLimit
    BY Zenon DEF Covered, Due, WithinLimit
  <2>2. QED
    BY <2>1 DEF HandoverInv
<1>2. QED
  BY <1>1, Invariance, PTL

\* The early releases are the whole of it: with such a grace, and when nobody
\* asks about a quote past its deadline, the Treasury can pay all that can still
\* be settled, and no settlement is dropped between ledger and positions.
THEOREM SolventUnlessPolled ==
    ASSUME GraceCovers, Polled = {}
    PROVE  Spec => [](Solvent /\ PositionsCount)
<1>1. ASSUME HandoverInv PROVE early = {} /\ Solvent
  <2>1. /\ TypeOK /\ Covered /\ settled \subseteq Quotes /\ deployment.capital \in Nat
        /\ early = {}
    BY <1>1, TypeFacts DEF HandoverInv, TypeOK
  <2>2. PICK S \in SUBSET Quotes : S = Open
    BY DEF Open
  <2>3. PICK T \in SUBSET Quotes : T = settled
    BY <2>1
  <2>4. S \cap T = {} /\ S \cup T = Due
    BY <2>1, <2>2, <2>3 DEF Open, MaySettle, Due
  <2>5. Paid(S) \in Nat /\ Paid(S \cup T) = Paid(S) + Paid(T)
    BY <2>4, PaidFacts
  <2>6. Paid(T) \in Nat
    BY PaidFacts
  <2>7. Paid(S \cup T) <= deployment.capital
    BY <2>1, <2>4, Zenon DEF Covered
  <2>8. Paid(S) <= deployment.capital - Paid(T)
    BY <2>1, <2>5, <2>6, <2>7
  <2>9. Solvent
    BY <2>2, <2>3, <2>8, Zenon DEF Solvent
  <2>10. QED
    BY <2>1, <2>9
<1>2. HandoverInv /\ SettledIsCounted => Solvent /\ PositionsCount
  BY <1>1 DEF SettledIsCounted, PositionsCount
<1>3. QED
  BY <1>2, Invariance, SettledCounted, PTL
===============================================================================
