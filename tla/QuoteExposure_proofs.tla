------------------------ MODULE QuoteExposure_proofs ------------------------
(***************************************************************************)
(* Proofs about QuoteExposure for any set of quotes and gateways, any      *)
(* amounts, limits and cleanup batch, and any interleaving of commits,     *)
(* resent and late commits, releases, expiries and restarts: the sums the  *)
(* ledger keeps are those of its reservations, and the compare-and-set on  *)
(* generation keeps every reservation on a true state of them.             *)
(***************************************************************************)
EXTENDS QuoteExposure, SumTheorems

\* The types the proof needs: none of the sums.
Shapes ==
    /\ records \subseteq Quotes
    /\ gone \subseteq Quotes
    /\ late \subseteq Quotes
    /\ generation \in Nat
    /\ DOMAIN cache = Gateways
    /\ DOMAIN view = Quotes
    /\ step \in [Quotes -> Steps]
    /\ reply \in [Quotes -> Answers \cup {"none"}]
    /\ age \in [Quotes -> {"open", "closed", "over"}]
    /\ releasing \in [Gateways -> Release]

\* A state s of the ledger is of the past, or it is the net position n of now.
TrueAt(s, n, now) ==
    /\ s.generation \in Int
    /\ s.generation <= now
    /\ s.generation = now => s.net = n

CachesTrue == \A g \in Gateways : TrueAt(cache[g], net, generation)

ViewTrue(q) == TrueAt(view[q].state, net, generation)

Current(q) == view[q].state.generation = generation

\* A view that found the reservation in the ledger is right while current.
ExistingThere(q) == view[q].existing /\ Current(q) => q \in records

\* A commit was preceded by an evaluation of the state it will compare.
Evaluated(q) ==
    step[q] \in {"commit", "recommit"} \/ q \in late =>
        view[q].existing \/ Acceptable(view[q].state.net + Delta[q])

\* What an accepted reservation will put into the cache is true or past.
AcceptedTrue(q) ==
    step[q] = "replied" /\ reply[q] = "reserved" =>
        /\ view[q].state.generation + 1 <= generation
        /\ view[q].state.generation + 1 = generation =>
               net = view[q].state.net + Delta[q]

Fresh(q) == step[q] = "start" => q \notin records \cup gone

LateEnded(q) == q \in late => step[q] = "error"

\* A reservation that was in the ledger cannot be made again: its commit is on
\* an old state, knows of it, or has passed its deadline.
OnceOnly(q) ==
    q \in records \cup gone /\ (Active(q) \/ q \in late) /\ Current(q) =>
        view[q].existing \/ age[q] # "open"

GoneClosed(q) == q \in gone /\ Active(q) => age[q] # "open"

GoneForGood(q) == ~(q \in records /\ q \in gone)

ViewInv(q) == ViewTrue(q) /\ ExistingThere(q) /\ Evaluated(q) /\ AcceptedTrue(q)

OnceInv(q) ==
    Fresh(q) /\ LateEnded(q) /\ OnceOnly(q) /\ GoneClosed(q) /\ GoneForGood(q)

QuoteInv(q) == ViewInv(q) /\ OnceInv(q)

\* A release is of a reservation that has ended or expired.
Justified(q) == age[q] # "open" \/ step[q] \in {"reserved", "error"}

ReleasesJustified ==
    \A g \in Gateways : releasing[g].step # "idle" =>
        releasing[g].quote \in Quotes /\ Justified(releasing[g].quote)

ExposureInv ==
    /\ Shapes
    /\ CachesTrue
    /\ \A q \in Quotes : QuoteInv(q)
    /\ ReleasesJustified
-----------------------------------------------------------------------------
\* What any script leaves of the ledger: a later generation, or nothing changed.
Advances ==
    /\ generation' \in Nat
    /\ generation' >= generation
    /\ generation' = generation =>
           net' = net /\ records' = records /\ gone' = gone

LEMMA RemoveFacts ==
    ASSUME Shapes, NEW C \in SUBSET records, Remove(C)
    PROVE  /\ Advances
           /\ records' = records \ C
           /\ gone' = gone \cup C
<1>1. IsFiniteSet(C)
  BY ExposureAssumption, FS_Subset DEF ExposureAssumption, Shapes
<1>2. Cardinality(C) \in Nat /\ (Cardinality(C) = 0 <=> C = {})
  BY <1>1, FS_CardinalityType, FS_EmptySet
<1>3. generation' \in Nat /\ generation' >= generation
  BY <1>2 DEF Shapes, Remove
<1>4. generation' = generation => C = {}
  BY <1>2 DEF Shapes, Remove
<1>5. C = {} => net' = net /\ records' = records /\ gone' = gone
  BY DEF Remove, Without
<1>6. QED
  BY <1>3, <1>4, <1>5 DEF Advances, Remove

\* Some reservations leave the ledger, all of them ended or expired; maybe none.
Loses ==
    \E C \in SUBSET records :
        /\ \A q \in C : Justified(q)
        /\ records' = records \ C
        /\ gone' = gone \cup C

\* A new reservation of q was made on the state that q was evaluated on.
Makes(q) ==
    /\ Current(q)
    /\ q \notin records
    /\ age[q] = "open"
    /\ records' = records \cup {q}
    /\ net' = net + Delta[q]
    /\ generation' = generation + 1
    /\ gone' = gone

LEMMA ExecuteFacts ==
    ASSUME Shapes, NEW q \in Quotes, ViewTrue(q), NEW a \in Answers,
           Execute(q, view[q].state, a)
    PROVE  /\ Advances
           /\ IF a = "reserved" THEN Makes(q) ELSE Loses
<1> DEFINE v == view[q].state
<1>1. PICK C \in SUBSET Overdue :
          /\ a \in Verdicts(q, v, C)
          /\ IF a = "reserved" THEN Add(q, C) ELSE Remove(C)
  BY DEF Execute
<1>2. C \subseteq records
  BY DEF Overdue
<1>3. IsFiniteSet(C)
  BY <1>2, ExposureAssumption, FS_Subset DEF ExposureAssumption, Shapes
<1>4. Cardinality(C) \in Nat /\ (Cardinality(C) = 0 <=> C = {})
  BY <1>3, FS_CardinalityType, FS_EmptySet
<1>5. CASE a = "reserved"
  <2>1. /\ q \notin records \ C
        /\ generation + Cardinality(C) = v.generation
        /\ age[q] = "open"
    BY <1>1, <1>5 DEF Verdicts
  <2>2. v.generation \in Int /\ v.generation <= generation
    BY DEF ViewTrue, TrueAt
  <2>3. C = {} /\ v.generation = generation
    BY <1>4, <2>1, <2>2 DEF Shapes
  <2>4. Cardinality(C) = 0
    BY <1>4, <2>3
  <2>5. Add(q, {}) /\ generation' = generation + Cardinality(C) + 1
    BY <1>1, <1>5, <2>3 DEF Add
  <2>6. /\ records' = records \cup {q}
        /\ net' = net + Delta[q]
        /\ generation' = generation + 1
        /\ gone' = gone
    BY <2>4, <2>5 DEF Add, Without, Shapes
  <2>7. QED
    BY <1>5, <2>1, <2>3, <2>6 DEF Makes, Current, Advances, Shapes
<1>6. CASE a # "reserved"
  <2>1. Remove(C)
    BY <1>1, <1>6
  <2>2. Advances /\ records' = records \ C /\ gone' = gone \cup C
    BY <1>2, <2>1, RemoveFacts
  <2>3. QED
    BY <1>2, <1>6, <2>2 DEF Loses, Overdue, Justified
<1>7. QED
  BY <1>5, <1>6

\* A state that was true or past stays so.
LEMMA TrueKept ==
    ASSUME Shapes, Advances, NEW s, TrueAt(s, net, generation)
    PROVE  TrueAt(s, net', generation')
  BY DEF TrueAt, Advances, Shapes

\* What a step of others, or of time, may do to the reservation of q.
Spared(q) ==
    /\ q \in records' => q \in records /\ q \notin gone' \ gone
    /\ q \in gone' => q \in gone \/ (q \in records /\ Justified(q))
    /\ age[q] # "open" => age'[q] # "open"

LEMMA Bystander ==
    ASSUME Shapes, Advances, NEW q \in Quotes, QuoteInv(q), Spared(q),
           step'[q] = step[q], view'[q] = view[q], reply'[q] = reply[q],
           q \in late' => q \in late
    PROVE  QuoteInv(q)'
<1> USE DEF Current
<1>1. ViewTrue(q)'
  BY TrueKept DEF QuoteInv, ViewInv, ViewTrue
<1>2. /\ generation \in Nat /\ generation' \in Nat
      /\ view[q].state.generation \in Int
      /\ view[q].state.generation <= generation
      /\ generation <= generation'
  BY DEF QuoteInv, ViewInv, ViewTrue, TrueAt, Advances, Shapes
<1>3. view[q].state.generation = generation' =>
          Current(q) /\ records' = records /\ gone' = gone
  BY <1>2 DEF Advances
<1>4. ExistingThere(q)'
  BY <1>3 DEF QuoteInv, ViewInv, ExistingThere
<1>5. Evaluated(q)'
  BY DEF QuoteInv, ViewInv, Evaluated, Acceptable
<1>6. AcceptedTrue(q)'
  BY <1>2 DEF QuoteInv, ViewInv, AcceptedTrue, Advances
<1>7. Active(q)' <=> Active(q)
  BY DEF Active
<1>8. OnceOnly(q)'
  BY <1>3, <1>7 DEF QuoteInv, OnceInv, OnceOnly, Spared
<1>9. GoneClosed(q)'
  BY <1>7 DEF QuoteInv, OnceInv, GoneClosed, Spared, Justified, Active
<1>10. Fresh(q)' /\ LateEnded(q)' /\ GoneForGood(q)'
  BY <1>3 DEF QuoteInv, OnceInv, Fresh, LateEnded, GoneForGood, Spared, Justified
<1>11. QED
  BY <1>1, <1>4, <1>5, <1>6, <1>8, <1>9, <1>10 DEF QuoteInv, ViewInv, OnceInv
-----------------------------------------------------------------------------
LEMMA LosesSpares ==
    ASSUME Shapes, Loses, NEW q \in Quotes, QuoteInv(q),
           age[q] # "open" => age'[q] # "open"
    PROVE  Spared(q)
  BY DEF Loses, Spared, QuoteInv, OnceInv, GoneForGood

LEMMA QuietFacts ==
    ASSUME Shapes, UNCHANGED redis
    PROVE  Advances /\ Loses
<1>1. Advances
  BY DEF redis, Advances, Shapes
<1>2. records' = records \ {} /\ gone' = gone \cup {}
  BY DEF redis
<1>3. QED
  BY <1>1, <1>2 DEF Loses

\* The state of q's reservation at its gateway is left alone.
Waits(q) ==
    /\ step'[q] = step[q]
    /\ view'[q] = view[q]
    /\ reply'[q] = reply[q]
    /\ q \in late' => q \in late

\* A step of q's reservation has to be looked at for q only.
LEMMA Locally ==
    ASSUME ExposureInv, NEW q \in Quotes, Shapes', Advances,
           \A p \in Quotes \ {q} : Spared(p) /\ Waits(p),
           QuoteInv(q)', CachesTrue', UNCHANGED <<releasing, age>>,
           step[q] \in {"reserved", "error"} => step'[q] = step[q]
    PROVE  ExposureInv'
<1>1. ASSUME NEW p \in Quotes \ {q}
      PROVE  QuoteInv(p)'
  BY <1>1, Bystander DEF ExposureInv, Waits
<1>2. ReleasesJustified'
  BY DEF ExposureInv, ReleasesJustified, Justified, Waits
<1>3. QED
  BY <1>1, <1>2 DEF ExposureInv

\* Neither has a step that moves no reservation at its gateway.
LEMMA Remotely ==
    ASSUME ExposureInv, Shapes', Advances, Loses, CachesTrue', ReleasesJustified',
           UNCHANGED <<step, view, reply, late>>,
           \A q \in Quotes : age[q] # "open" => age'[q] # "open"
    PROVE  ExposureInv'
<1>1. ASSUME NEW q \in Quotes
      PROVE  QuoteInv(q)'
  BY <1>1, Bystander, LosesSpares DEF ExposureInv
<1>2. QED
  BY <1>1 DEF ExposureInv

LEMMA CachesKept ==
    ASSUME Shapes, Advances, CachesTrue, UNCHANGED cache
    PROVE  CachesTrue'
  BY TrueKept DEF CachesTrue

LEMMA UnknownTrue ==
    ASSUME NEW n, NEW now \in Nat
    PROVE  TrueAt(Unknown, n, now) /\ TrueAt(NoView.state, n, now)
  BY DEF TrueAt, Unknown, NoView
-----------------------------------------------------------------------------
LEMMA StartKeeps ==
    ASSUME ExposureInv, NEW q \in Quotes, Start(q)
    PROVE  ExposureInv'
<1>1. Advances /\ Loses
  BY QuietFacts DEF ExposureInv, Start
<1>2. GatewayOf[q] \in Gateways
  BY ExposureAssumption DEF ExposureAssumption
<1>3. Shapes'
  BY DEF ExposureInv, Shapes, Start, Goto, redis, Steps
<1>4. \A p \in Quotes \ {q} : Spared(p) /\ Waits(p)
  BY <1>1, LosesSpares DEF ExposureInv, Shapes, Start, Goto, Waits
<1>5. CachesTrue'
  BY <1>1, CachesKept DEF ExposureInv, Start
<1>6. /\ step'[q] \in {"read", "evaluate"}
      /\ q \notin late'
      /\ q \notin records' \cup gone'
      /\ view'[q] = view[q] \/ (view'[q].state = cache[GatewayOf[q]] /\ ~view'[q].existing)
  BY DEF ExposureInv, Shapes, QuoteInv, OnceInv, Fresh, LateEnded, Start, Goto, redis
<1>7. ViewTrue(q)'
  BY <1>1, <1>2, <1>6, TrueKept DEF ExposureInv, CachesTrue, QuoteInv, ViewInv, ViewTrue
<1>8. ExistingThere(q)'
  BY <1>6 DEF ExposureInv, QuoteInv, ViewInv, ExistingThere, Current, Start, redis
<1>9. QuoteInv(q)'
  BY <1>6, <1>7, <1>8
     DEF QuoteInv, ViewInv, OnceInv, Evaluated, AcceptedTrue, Fresh, LateEnded, OnceOnly,
         GoneClosed, GoneForGood
<1>10. QED
  BY <1>1, <1>3, <1>4, <1>5, <1>9, Locally DEF ExposureInv, Start

LEMMA ReadKeeps ==
    ASSUME ExposureInv, NEW q \in Quotes, Read(q)
    PROVE  ExposureInv'
<1>1. PICK C \in SUBSET Overdue :
          /\ Remove(C)
          /\ IF C # Overdue
             THEN UNCHANGED <<step, view>>
             ELSE /\ Goto(q, "evaluate")
                  /\ view' = [view EXCEPT ![q] =
                        [state |-> [net |-> net', generation |-> generation'],
                         cached |-> FALSE, existing |-> q \in records']]
  BY DEF Read
<1>2. C \subseteq records /\ \A p \in C : age[p] = "over"
  BY DEF Overdue
<1>3. Advances /\ records' = records \ C /\ gone' = gone \cup C
  BY <1>1, <1>2, RemoveFacts DEF ExposureInv
<1>4. Loses
  BY <1>2, <1>3 DEF Loses, Justified
<1>5. UNCHANGED <<cache, age, reply, late, releasing>> /\ step[q] = "read"
  BY DEF Read
<1>6. Shapes'
  BY <1>1, <1>2, <1>3, <1>5 DEF ExposureInv, Shapes, Advances, Goto, Steps
<1>7. \A p \in Quotes : Spared(p)
  BY <1>4, <1>5, LosesSpares DEF ExposureInv
<1>8. CachesTrue'
  BY <1>3, <1>5, CachesKept DEF ExposureInv
<1>9. CASE C # Overdue
  BY <1>1, <1>3, <1>4, <1>5, <1>6, <1>8, <1>9, Remotely
     DEF ExposureInv, ReleasesJustified, Justified
<1>10. CASE C = Overdue
  <2>1. /\ view'[q].state.net = net'
        /\ view'[q].state.generation = generation'
        /\ view'[q].existing = (q \in records')
        /\ step'[q] = "evaluate"
        /\ \A p \in Quotes \ {q} : Waits(p)
    BY <1>1, <1>5, <1>10 DEF ExposureInv, Shapes, Goto, Waits
  <2>2. view'[q].existing <=> q \in records'
    BY <2>1, Zenon
  <2>3. q \notin late'
    BY <1>5 DEF ExposureInv, QuoteInv, OnceInv, LateEnded
  <2>4. ViewInv(q)'
    BY <1>3, <2>1, <2>2, <2>3
       DEF ViewInv, ViewTrue, TrueAt, Advances, ExistingThere, Evaluated, AcceptedTrue
  <2>5. q \in gone' => age'[q] # "open"
    BY <1>2, <1>3, <1>5 DEF ExposureInv, QuoteInv, OnceInv, GoneClosed, Active
  <2>6. OnceInv(q)'
    BY <1>3, <2>1, <2>2, <2>3, <2>5
       DEF ExposureInv, QuoteInv, OnceInv, Fresh, LateEnded, OnceOnly, GoneClosed,
           GoneForGood
  <2>7. QED
    BY <1>3, <1>5, <1>6, <1>7, <1>8, <2>1, <2>4, <2>6, Locally DEF QuoteInv
<1>11. QED
  BY <1>9, <1>10

LEMMA EvaluateKeeps ==
    ASSUME ExposureInv, NEW q \in Quotes, Evaluate(q)
    PROVE  ExposureInv'
<1> DEFINE v == view[q]
           ok == v.existing \/ Acceptable(v.state.net + Delta[q])
<1>1. Advances /\ Loses
  BY QuietFacts DEF ExposureInv, Evaluate
<1>2. Shapes'
  BY DEF ExposureInv, Shapes, Evaluate, Goto, DropView, redis, Steps
<1>3. \A p \in Quotes \ {q} : Spared(p) /\ Waits(p)
  BY <1>1, LosesSpares DEF ExposureInv, Shapes, Evaluate, Goto, DropView, Waits
<1>4. ViewTrue(q) /\ q \notin late /\ ExistingThere(q) /\ Active(q)
  BY DEF ExposureInv, QuoteInv, ViewInv, OnceInv, LateEnded, Evaluate, Active
<1>5. \A g \in Gateways : TrueAt(cache'[g], net, generation)
  BY <1>4 DEF ExposureInv, Shapes, CachesTrue, ViewTrue, Evaluate
<1>6. CachesTrue'
  BY <1>5 DEF CachesTrue, Evaluate, redis
<1>7. \/ ok /\ step'[q] = "commit" /\ view'[q] = v
      \/ step'[q] \in {"read", "rejected", "error"} /\ view'[q] = NoView
  BY DEF ExposureInv, Shapes, Evaluate, Goto, DropView
<1>8. UNCHANGED <<records, gone, generation, net, age, late>>
  BY DEF Evaluate, redis
<1>9. TrueAt(NoView.state, net, generation) /\ ~NoView.existing
  BY UnknownTrue DEF ExposureInv, Shapes, NoView
<1>10. ViewInv(q)'
  BY <1>4, <1>7, <1>8, <1>9
     DEF ViewInv, ViewTrue, ExistingThere, Current, Evaluated, AcceptedTrue
<1>11. NoView.state.generation # generation
  BY DEF NoView, Unknown, ExposureInv, Shapes
<1>12. OnceInv(q)'
  BY <1>4, <1>7, <1>8, <1>11
     DEF ExposureInv, QuoteInv, OnceInv, Fresh, LateEnded, OnceOnly, GoneClosed,
         GoneForGood, Current
<1>13. QED
  BY <1>1, <1>2, <1>3, <1>6, <1>10, <1>12, Locally DEF QuoteInv, Evaluate

\* What the commit script leaves of the reservations of others and of its own.
LEMMA ExecuteKeeps ==
    ASSUME ExposureInv, NEW q \in Quotes, NEW a \in Answers,
           Execute(q, view[q].state, a), UNCHANGED <<age, cache>>,
           step[q] \in {"commit", "recommit"} \/ q \in late
    PROVE  /\ Advances
           /\ records' \subseteq Quotes /\ gone' \subseteq Quotes
           /\ CachesTrue'
           /\ \A p \in Quotes \ {q} : Spared(p)
           /\ q \in records' => q \notin gone'
           /\ q \in gone' => q \in gone \/ age[q] # "open" \/ step[q] \in {"reserved", "error"}
           /\ a # "reserved" => Spared(q)
           /\ a = "reserved" => Makes(q)
<1>1. Advances /\ IF a = "reserved" THEN Makes(q) ELSE Loses
  BY ExecuteFacts DEF ExposureInv, QuoteInv, ViewInv
<1>2. CachesTrue'
  BY <1>1, CachesKept DEF ExposureInv
<1>3. CASE a # "reserved"
  <2>1. Loses
    BY <1>1, <1>3
  <2>2. \A p \in Quotes : Spared(p)
    BY <2>1, LosesSpares DEF ExposureInv
  <2>3. records' \subseteq Quotes /\ gone' \subseteq Quotes
    BY <2>1 DEF Loses, ExposureInv, Shapes
  <2>4. q \in records' => q \notin gone'
    BY <2>2 DEF ExposureInv, QuoteInv, OnceInv, GoneForGood, Spared
  <2>5. QED
    BY <1>1, <1>2, <1>3, <2>2, <2>3, <2>4 DEF Spared, Justified
<1>4. CASE a = "reserved"
  <2>1. Makes(q)
    BY <1>1, <1>4
  <2>2. records' \subseteq Quotes /\ gone' \subseteq Quotes
    BY <2>1 DEF Makes, ExposureInv, Shapes
  <2>3. \A p \in Quotes \ {q} : Spared(p)
    BY <2>1 DEF Makes, Spared
  <2>4. q \notin gone
    BY <2>1 DEF Makes, ExposureInv, QuoteInv, ViewInv, OnceInv, OnceOnly, ExistingThere,
                Active
  <2>5. QED
    BY <1>1, <1>2, <1>4, <2>1, <2>2, <2>3, <2>4 DEF Makes
<1>5. QED
  BY <1>3, <1>4

LEMMA CommitKeeps ==
    ASSUME ExposureInv, NEW q \in Quotes, Commit(q)
    PROVE  ExposureInv'
<1>1. PICK a \in Answers :
          /\ Execute(q, view[q].state, a)
          /\ \/ Goto(q, "replied") /\ reply' = [reply EXCEPT ![q] = a] /\ UNCHANGED late
             \/ Goto(q, "recommit") /\ UNCHANGED <<late, reply>>
             \/ Goto(q, "error") /\ late' = late \cup {q} /\ UNCHANGED reply
  BY DEF Commit
<1>2. step[q] \in {"commit", "recommit"} /\ UNCHANGED <<age, cache, view, releasing>>
  BY DEF Commit
<1>3. /\ Advances
      /\ records' \subseteq Quotes /\ gone' \subseteq Quotes
      /\ CachesTrue'
      /\ \A p \in Quotes \ {q} : Spared(p)
      /\ q \in records' => q \notin gone'
      /\ q \in gone' => q \in gone \/ age[q] # "open" \/ step[q] \in {"reserved", "error"}
      /\ a # "reserved" => Spared(q)
      /\ a = "reserved" => Makes(q)
  BY <1>1, <1>2, ExecuteKeeps
<1>4. Shapes'
  BY <1>1, <1>2, <1>3 DEF ExposureInv, Shapes, Advances, Goto, Steps
<1>5. \A p \in Quotes \ {q} : Spared(p) /\ Waits(p)
  BY <1>1, <1>2, <1>3 DEF ExposureInv, Shapes, Goto, Waits
<1>6. /\ step'[q] \in {"replied", "recommit", "error"}
      /\ view'[q] = view[q]
      /\ age'[q] = age[q]
      /\ step'[q] = "replied" => reply'[q] = a
      /\ q \in late' => step'[q] = "error"
  BY <1>1, <1>2 DEF ExposureInv, Shapes, Goto, QuoteInv, OnceInv, LateEnded
<1>7. QuoteInv(q)
  BY DEF ExposureInv
<1>8. ViewTrue(q)'
  BY <1>3, <1>6, <1>7, TrueKept DEF ExposureInv, QuoteInv, ViewInv, ViewTrue
<1>9. Evaluated(q)'
  BY <1>2, <1>6, <1>7 DEF QuoteInv, ViewInv, Evaluated, Acceptable
<1>10. /\ generation \in Nat /\ generation' \in Nat
       /\ view[q].state.generation \in Int
       /\ view[q].state.generation <= generation
       /\ generation <= generation'
  BY <1>3, <1>7 DEF ExposureInv, Shapes, Advances, QuoteInv, ViewInv, ViewTrue, TrueAt
<1>11. ASSUME a = "reserved"
       PROVE  QuoteInv(q)'
  <2>1. Makes(q)
    BY <1>3, <1>11
  <2>2. /\ view[q].state.generation + 1 = generation'
        /\ net' = view[q].state.net + Delta[q]
    BY <1>7, <1>10, <2>1 DEF Makes, Current, QuoteInv, ViewInv, ViewTrue, TrueAt
  <2>3. AcceptedTrue(q)'
    BY <1>6, <1>10, <2>2 DEF AcceptedTrue
  <2>4. ~Current(q)'
    BY <1>6, <1>10, <2>2 DEF Current
  <2>5. GoneClosed(q)'
    BY <1>2, <1>6, <1>7, <2>1 DEF Makes, QuoteInv, OnceInv, GoneClosed, Active
  <2>6. QED
    BY <1>3, <1>6, <1>8, <1>9, <2>3, <2>4, <2>5
       DEF QuoteInv, ViewInv, OnceInv, ExistingThere, Fresh, LateEnded, OnceOnly, GoneForGood
<1>12. ASSUME a # "reserved"
       PROVE  QuoteInv(q)'
  <2>1. Spared(q)
    BY <1>3, <1>12
  <2>2. view'[q].state.generation = generation' =>
            Current(q) /\ records' = records /\ gone' = gone
    BY <1>3, <1>6, <1>10 DEF Advances, Current
  <2>3. ExistingThere(q)' /\ OnceOnly(q)'
    BY <1>2, <1>6, <1>7, <2>2
       DEF QuoteInv, ViewInv, OnceInv, ExistingThere, OnceOnly, Current, Active
  <2>4. GoneClosed(q)'
    BY <1>2, <1>3, <1>6, <1>7 DEF QuoteInv, OnceInv, GoneClosed, Active
  <2>5. AcceptedTrue(q)'
    BY <1>6, <1>12 DEF AcceptedTrue
  <2>6. QED
    BY <1>3, <1>6, <1>8, <1>9, <2>3, <2>4, <2>5
       DEF QuoteInv, ViewInv, OnceInv, Fresh, LateEnded, GoneForGood
<1>13. QuoteInv(q)'
  BY <1>11, <1>12
<1>14. QED
  BY <1>2, <1>3, <1>4, <1>5, <1>13, Locally

LEMMA LateCommitKeeps ==
    ASSUME ExposureInv, NEW q \in Quotes, LateCommit(q)
    PROVE  ExposureInv'
<1>1. PICK a \in Answers : Execute(q, view[q].state, a)
  BY DEF LateCommit
<1>2. /\ q \in late /\ late' = late \ {q} /\ view' = [view EXCEPT ![q] = NoView]
      /\ UNCHANGED <<age, cache, step, reply, releasing>>
  BY DEF LateCommit, DropView
<1>3. /\ Advances
      /\ records' \subseteq Quotes /\ gone' \subseteq Quotes
      /\ CachesTrue'
      /\ \A p \in Quotes \ {q} : Spared(p)
      /\ q \in records' => q \notin gone'
  BY <1>1, <1>2, ExecuteKeeps
<1>4. Shapes'
  BY <1>2, <1>3 DEF ExposureInv, Shapes, Advances
<1>5. \A p \in Quotes \ {q} : Spared(p) /\ Waits(p)
  BY <1>2, <1>3 DEF ExposureInv, Shapes, Waits
<1>6. view'[q] = NoView /\ step'[q] = "error" /\ q \notin late'
  BY <1>2 DEF ExposureInv, Shapes, QuoteInv, OnceInv, LateEnded
<1>7. /\ TrueAt(NoView.state, net', generation')
      /\ ~NoView.existing
  BY <1>3, UnknownTrue DEF Advances, NoView
<1>8. QuoteInv(q)'
  BY <1>3, <1>6, <1>7
     DEF QuoteInv, ViewInv, OnceInv, ViewTrue, ExistingThere, Evaluated, AcceptedTrue,
         Fresh, LateEnded, OnceOnly, GoneClosed, GoneForGood, Active
<1>9. QED
  BY <1>2, <1>3, <1>4, <1>5, <1>8, Locally

LEMMA AbandonKeeps ==
    ASSUME ExposureInv, NEW q \in Quotes, Abandon(q)
    PROVE  ExposureInv'
<1>1. Advances /\ Loses
  BY QuietFacts DEF ExposureInv, Abandon
<1>2. /\ step' = [step EXCEPT ![q] = "error"]
      /\ late' = IF step[q] = "read" THEN late ELSE late \cup {q}
      /\ UNCHANGED <<records, gone, generation, net, age, cache, view, reply, releasing>>
      /\ step[q] \in {"read", "commit", "recommit"}
  BY DEF Abandon, Goto, redis
<1>3. Shapes'
  BY <1>2 DEF ExposureInv, Shapes, Steps
<1>4. \A p \in Quotes \ {q} : Spared(p) /\ Waits(p)
  BY <1>1, <1>2, LosesSpares DEF ExposureInv, Shapes, Waits
<1>5. CachesTrue'
  BY <1>1, <1>2, CachesKept DEF ExposureInv
<1>6. step'[q] = "error"
  BY <1>2 DEF ExposureInv, Shapes
<1>7. QuoteInv(q)
  BY DEF ExposureInv
<1>8. ViewInv(q)'
  BY <1>2, <1>6, <1>7
     DEF QuoteInv, ViewInv, ViewTrue, ExistingThere, Current, Evaluated, AcceptedTrue
<1>9. OnceInv(q)'
  BY <1>2, <1>6, <1>7
     DEF QuoteInv, OnceInv, Fresh, LateEnded, OnceOnly, GoneClosed, GoneForGood, Active,
         Current
<1>10. QED
  BY <1>1, <1>2, <1>3, <1>4, <1>5, <1>8, <1>9, Locally DEF QuoteInv

LEMMA TakeReplyKeeps ==
    ASSUME ExposureInv, NEW q \in Quotes, TakeReply(q)
    PROVE  ExposureInv'
<1>1. Advances /\ Loses
  BY QuietFacts DEF ExposureInv, TakeReply
<1>2. GatewayOf[q] \in Gateways
  BY ExposureAssumption DEF ExposureAssumption
<1>3. /\ step[q] = "replied"
      /\ view' = [view EXCEPT ![q] = NoView]
      /\ reply' = [reply EXCEPT ![q] = "none"]
      /\ UNCHANGED <<records, gone, generation, net, age, late, releasing>>
  BY DEF TakeReply, DropView, redis
<1>4. \E s \in {"read", "reserved", "rejected", "error"} : step' = [step EXCEPT ![q] = s]
  BY DEF TakeReply, TakeReserved, TakeDuplicate, TakeConflict, TakeRefusal, Accepted, Goto
<1>5. DOMAIN cache' = Gateways /\ CachesTrue'
  <2>1. CASE TakeReserved(q)
    <3> DEFINE c == [net |-> view[q].state.net + Delta[q],
                     generation |-> view[q].state.generation + 1]
    <3>1. cache' = [cache EXCEPT ![GatewayOf[q]] = c] /\ reply[q] = "reserved"
      BY <2>1 DEF TakeReserved
    <3>2. /\ c.generation \in Int
          /\ c.generation <= generation
          /\ c.generation = generation => c.net = net
      BY <1>3, <3>1
         DEF ExposureInv, QuoteInv, ViewInv, AcceptedTrue, ViewTrue, TrueAt
    <3>3. TrueAt(c, net, generation)
      BY <3>2 DEF TrueAt
    <3>4. \A g \in Gateways : TrueAt(cache'[g], net, generation)
      BY <3>1, <3>3 DEF ExposureInv, Shapes, CachesTrue
    <3>5. QED
      BY <1>3, <3>1, <3>4 DEF CachesTrue, ExposureInv, Shapes
  <2>2. CASE cache' = [cache EXCEPT ![GatewayOf[q]] = Unknown]
    <3>1. TrueAt(Unknown, net, generation)
      BY UnknownTrue DEF ExposureInv, Shapes
    <3>2. \A g \in Gateways : TrueAt(cache'[g], net, generation)
      BY <2>2, <3>1 DEF ExposureInv, Shapes, CachesTrue
    <3>3. QED
      BY <1>3, <2>2, <3>2 DEF CachesTrue, ExposureInv, Shapes
  <2>3. CASE UNCHANGED cache
    BY <1>1, <2>3, CachesKept DEF ExposureInv, Shapes
  <2>4. QED
    BY <2>1, <2>2, <2>3 DEF TakeReply, TakeDuplicate, TakeConflict, TakeRefusal, Forget
<1>6. Shapes'
  BY <1>3, <1>4, <1>5 DEF ExposureInv, Shapes, Steps
<1>7. \A p \in Quotes \ {q} : Spared(p) /\ Waits(p)
  BY <1>1, <1>3, <1>4, LosesSpares DEF ExposureInv, Shapes, Waits
<1>8. /\ step'[q] \in {"read", "reserved", "rejected", "error"}
      /\ view'[q] = NoView
      /\ q \notin late'
  BY <1>3, <1>4 DEF ExposureInv, Shapes, QuoteInv, OnceInv, LateEnded
<1>9. /\ TrueAt(NoView.state, net, generation)
      /\ NoView.state.generation # generation
      /\ ~NoView.existing
  BY UnknownTrue DEF ExposureInv, Shapes, NoView, Unknown
<1>10. ViewInv(q)'
  BY <1>3, <1>8, <1>9
     DEF ViewInv, ViewTrue, ExistingThere, Current, Evaluated, AcceptedTrue
<1>11. OnceInv(q)'
  BY <1>3, <1>8, <1>9
     DEF ExposureInv, QuoteInv, OnceInv, Fresh, LateEnded, OnceOnly, GoneClosed,
         GoneForGood, Active, Current
<1>12. QED
  BY <1>1, <1>3, <1>5, <1>6, <1>7, <1>10, <1>11, Locally DEF QuoteInv
-----------------------------------------------------------------------------
LEMMA ReleaseStepKeeps ==
    ASSUME ExposureInv, NEW g \in Gateways, ReleaseStep(g)
    PROVE  ExposureInv'
<1> USE DEF ExposureInv, Shapes
<1>1. CASE TakeLock(g) \/ LockTimeout(g)
  <2>1. Advances /\ Loses
    BY <1>1, QuietFacts DEF TakeLock, LockTimeout
  <2>2. Shapes' /\ ReleasesJustified'
    BY <1>1 DEF TakeLock, LockTimeout, Idle, Release, redis, ReleasesJustified, Justified
  <2>3. CachesTrue'
    BY <1>1, <2>1, CachesKept DEF TakeLock, LockTimeout
  <2>4. QED
    BY <1>1, <2>1, <2>2, <2>3, Remotely DEF TakeLock, LockTimeout
<1>2. CASE ReleaseScript(g)
  <2>1. UNCHANGED <<age, cache, step, view, reply, late>> /\ releasing[g].step = "script"
    BY <1>2 DEF ReleaseScript
  <2>2. \/ releasing' = [releasing EXCEPT ![g] = Idle]
        \/ releasing' = [releasing EXCEPT ![g].step = "replied"]
        \/ UNCHANGED releasing
    BY <1>2 DEF ReleaseScript, LockLost, ReleaseRefused, Released
  <2>3. Advances /\ Loses
    <3>1. CASE UNCHANGED redis
      BY <3>1, QuietFacts
    <3>2. CASE Remove({releasing[g].quote} \cap records)
      <4> DEFINE C == {releasing[g].quote} \cap records
      <4>1. C \in SUBSET records /\ \A q \in C : Justified(q)
        BY <2>1 DEF ReleasesJustified
      <4>2. Advances /\ records' = records \ C /\ gone' = gone \cup C
        BY <3>2, <4>1, RemoveFacts
      <4>3. QED
        BY <4>1, <4>2 DEF Loses
    <3>3. QED
      BY <1>2, <3>1, <3>2 DEF ReleaseScript, LockLost, ReleaseRefused, Released
  <2>4. Shapes' /\ ReleasesJustified'
    BY <2>1, <2>2, <2>3
       DEF Advances, Loses, Idle, Release, ReleasesJustified, Justified
  <2>5. CachesTrue'
    BY <2>1, <2>3, CachesKept
  <2>6. QED
    BY <2>1, <2>3, <2>4, <2>5, Remotely
<1>3. CASE ReleaseReply(g)
  <2>1. Advances /\ Loses
    BY <1>3, QuietFacts DEF ReleaseReply
  <2>2. Shapes' /\ ReleasesJustified'
    BY <1>3 DEF ReleaseReply, Forget, Idle, Release, redis, ReleasesJustified, Justified
  <2>3. TrueAt(Unknown, net, generation)
    BY UnknownTrue
  <2>4. CachesTrue'
    BY <1>3, <2>3 DEF ReleaseReply, Forget, redis, CachesTrue
  <2>5. QED
    BY <1>3, <2>1, <2>2, <2>4, Remotely DEF ReleaseReply
<1>4. QED
  BY <1>1, <1>2, <1>3 DEF ReleaseStep

LEMMA ProbeKeeps ==
    ASSUME ExposureInv, NEW g \in Gateways, NEW q \in Quotes, Probe(g, q)
    PROVE  ExposureInv'
<1>1. Advances /\ Loses
  BY QuietFacts DEF ExposureInv, Probe
<1>2. Shapes'
  BY DEF ExposureInv, Shapes, Probe, redis, Release
<1>3. ReleasesJustified'
  BY DEF ExposureInv, Shapes, Probe, ReleasesJustified, Justified
<1>4. CachesTrue'
  BY <1>1, CachesKept DEF ExposureInv, Probe
<1>5. QED
  BY <1>1, <1>2, <1>3, <1>4, Remotely DEF Probe

LEMMA PassTimeKeeps ==
    ASSUME ExposureInv, NEW q \in Quotes, PassTime(q)
    PROVE  ExposureInv'
<1>1. Advances /\ Loses
  BY QuietFacts DEF ExposureInv, PassTime
<1>2. Shapes'
  BY DEF ExposureInv, Shapes, PassTime, redis
<1>3. \A p \in Quotes : age[p] # "open" => age'[p] # "open"
  BY DEF ExposureInv, Shapes, PassTime
<1>4. ReleasesJustified'
  BY <1>3 DEF ExposureInv, PassTime, ReleasesJustified, Justified
<1>5. CachesTrue'
  BY <1>1, CachesKept DEF ExposureInv, PassTime
<1>6. QED
  BY <1>1, <1>2, <1>3, <1>4, <1>5, Remotely DEF PassTime

LEMMA LockExpiresKeeps ==
    ASSUME ExposureInv, LockExpires
    PROVE  ExposureInv'
<1>1. Advances /\ Loses
  BY QuietFacts DEF ExposureInv, LockExpires
<1>2. Shapes' /\ ReleasesJustified'
  BY DEF ExposureInv, Shapes, LockExpires, redis, ReleasesJustified, Justified
<1>3. CachesTrue'
  BY <1>1, CachesKept DEF ExposureInv, LockExpires
<1>4. QED
  BY <1>1, <1>2, <1>3, Remotely DEF LockExpires

LEMMA RestartKeeps ==
    ASSUME ExposureInv, NEW g \in Gateways, Restart(g)
    PROVE  ExposureInv'
<1> DEFINE running == {q \in Quotes : GatewayOf[q] = g /\ Active(q)}
           sent == {q \in running : step[q] \in {"commit", "recommit"}}
<1>1. /\ step' = [q \in Quotes |-> IF q \in running THEN "error" ELSE step[q]]
      /\ late' = late \cup sent
      /\ view' = [q \in Quotes |-> IF q \in running \ sent THEN NoView ELSE view[q]]
      /\ reply' = [q \in Quotes |-> IF q \in running THEN "none" ELSE reply[q]]
      /\ releasing' = [releasing EXCEPT ![g] = Idle]
      /\ cache' = [cache EXCEPT ![g] = Unknown]
      /\ UNCHANGED <<records, gone, generation, net, age>>
  BY DEF Restart, Forget, redis
<1>2. Advances /\ Loses
  BY QuietFacts DEF ExposureInv, Restart
<1>3. Shapes'
  BY <1>1 DEF ExposureInv, Shapes, Steps, Idle, Release
<1>4. TrueAt(Unknown, net, generation) /\ TrueAt(NoView.state, net, generation)
  BY UnknownTrue DEF ExposureInv, Shapes
<1>5. CachesTrue'
  BY <1>1, <1>4 DEF ExposureInv, Shapes, CachesTrue
<1>6. ASSUME NEW q \in Quotes \ running
      PROVE  QuoteInv(q)'
  <2>1. Spared(q)
    BY <1>1, <1>2, LosesSpares DEF ExposureInv
  <2>2. /\ step'[q] = step[q] /\ view'[q] = view[q] /\ reply'[q] = reply[q]
        /\ q \in late' => q \in late
    BY <1>1
  <2>3. QED
    BY <1>2, <2>1, <2>2, Bystander DEF ExposureInv
<1>7. ASSUME NEW q \in running
      PROVE  QuoteInv(q)'
  <2>1. /\ step'[q] = "error"
        /\ q \in sent => view'[q] = view[q]
        /\ q \notin sent => view'[q] = NoView
    BY <1>1
  <2>2. QuoteInv(q) /\ Active(q) /\ q \notin late
    BY DEF ExposureInv, QuoteInv, OnceInv, LateEnded, Active
  <2>3. q \in late' => q \in sent
    BY <1>1, <2>2
  <2>4. NoView.state.generation # generation /\ ~NoView.existing
    BY DEF NoView, Unknown, ExposureInv, Shapes
  <2>5. ViewInv(q)'
    BY <1>1, <1>4, <2>1, <2>2, <2>3, <2>4
       DEF QuoteInv, ViewInv, ViewTrue, ExistingThere, Current, Evaluated, AcceptedTrue
  <2>6. OnceInv(q)'
    BY <1>1, <2>1, <2>2, <2>3, <2>4
       DEF QuoteInv, OnceInv, Fresh, LateEnded, OnceOnly, GoneClosed, GoneForGood, Active,
           Current
  <2>7. QED
    BY <2>5, <2>6 DEF QuoteInv
<1>8. ReleasesJustified'
  BY <1>1 DEF ExposureInv, Shapes, ReleasesJustified, Justified, Idle
<1>9. QED
  BY <1>3, <1>5, <1>6, <1>7, <1>8 DEF ExposureInv
-----------------------------------------------------------------------------
LEMMA InitEstablishes == Init => ExposureInv
<1> SUFFICES ASSUME Init
             PROVE  ExposureInv
  OBVIOUS
<1>1. Shapes /\ ReleasesJustified
  BY DEF Init, Shapes, Steps, Answers, Idle, Release, ReleasesJustified
<1>2. TrueAt(Unknown, net, generation) /\ TrueAt(NoView.state, net, generation)
  BY <1>1, UnknownTrue DEF Shapes
<1>3. CachesTrue
  BY <1>2 DEF Init, CachesTrue
<1>4. ASSUME NEW q \in Quotes
      PROVE  QuoteInv(q)
  BY <1>2 DEF Init, NoView, QuoteInv, ViewInv, OnceInv, ViewTrue, ExistingThere, Evaluated,
              AcceptedTrue, Fresh, LateEnded, OnceOnly, GoneClosed, GoneForGood
<1>5. QED
  BY <1>1, <1>3, <1>4 DEF ExposureInv

LEMMA NextKeeps == ExposureInv /\ [Next]_vars => ExposureInv'
<1> SUFFICES ASSUME ExposureInv, [Next]_vars
             PROVE  ExposureInv'
  OBVIOUS
<1>1. ASSUME NEW q \in Quotes, Reserve(q)
      PROVE  ExposureInv'
  BY <1>1, StartKeeps, ReadKeeps, EvaluateKeeps, CommitKeeps, TakeReplyKeeps DEF Reserve
<1>2. ASSUME NEW q \in Quotes, Abandon(q) \/ LateCommit(q) \/ PassTime(q)
      PROVE  ExposureInv'
  BY <1>2, AbandonKeeps, LateCommitKeeps, PassTimeKeeps
<1>3. ASSUME NEW g \in Gateways,
             ReleaseStep(g) \/ Restart(g) \/ \E q \in Quotes : Probe(g, q)
      PROVE  ExposureInv'
  BY <1>3, ReleaseStepKeeps, RestartKeeps, ProbeKeeps
<1>4. CASE LockExpires
  BY <1>4, LockExpiresKeeps
<1>5. CASE UNCHANGED vars
  <2>1. Advances /\ Loses
    BY <1>5, QuietFacts DEF vars, ExposureInv
  <2>2. Shapes' /\ ReleasesJustified'
    BY <1>5 DEF vars, redis, ExposureInv, Shapes, ReleasesJustified, Justified
  <2>3. CachesTrue'
    BY <1>5, <2>1, CachesKept DEF vars, ExposureInv
  <2>4. QED
    BY <1>5, <2>1, <2>2, <2>3, Remotely DEF vars
<1>6. QED
  BY <1>1, <1>2, <1>3, <1>4, <1>5 DEF Next

LEMMA LedgerInvariant == Spec => []ExposureInv
  BY InitEstablishes, NextKeeps, PTL DEF Spec

(***************************************************************************)
(* cacheHotState and cacheAcceptedReservation never leave in hotStates a   *)
(* state that a compare-and-set would take for the ledger's and is not.    *)
(***************************************************************************)
THEOREM CacheIsSound == Spec => []CacheSound
<1>1. ExposureInv => CacheSound
  BY DEF ExposureInv, CachesTrue, TrueAt, CacheSound
<1>2. QED
  BY <1>1, LedgerInvariant, PTL

(***************************************************************************)
(* A reservation removed by a release or the expiry cleanup is not made    *)
(* again by the commit script, resent by the driver or arriving late.      *)
(***************************************************************************)
THEOREM GoneIsGone == Spec => []NeverResurrected
<1>1. ExposureInv => NeverResurrected
  BY DEF ExposureInv, Shapes, QuoteInv, OnceInv, GoneForGood, NeverResurrected
<1>2. QED
  BY <1>1, LedgerInvariant, PTL
-----------------------------------------------------------------------------
AllLand == \A q \in Quotes : q \in records' \ records => Acceptable(net')

LEMMA ExecuteLands ==
    ASSUME ExposureInv, NEW q \in Quotes, NEW a \in Answers,
           Execute(q, view[q].state, a),
           step[q] \in {"commit", "recommit"} \/ q \in late
    PROVE  AllLand
<1>1. QuoteInv(q)
  BY DEF ExposureInv
<1>2. IF a = "reserved" THEN Makes(q) ELSE Loses
  BY <1>1, ExecuteFacts DEF ExposureInv, QuoteInv, ViewInv
<1>3. CASE a = "reserved"
  <2>1. Makes(q)
    BY <1>2, <1>3
  <2>2. ~view[q].existing /\ view[q].state.net = net
    BY <1>1, <2>1
       DEF Makes, Current, QuoteInv, ViewInv, ExistingThere, ViewTrue, TrueAt
  <2>3. Acceptable(view[q].state.net + Delta[q])
    BY <1>1, <2>2 DEF QuoteInv, ViewInv, Evaluated
  <2>4. net' = view[q].state.net + Delta[q]
    BY <2>1, <2>2 DEF Makes
  <2>5. Acceptable(net')
    BY <2>3, <2>4 DEF Acceptable
  <2>6. QED
    BY <2>1, <2>5 DEF Makes, AllLand
<1>4. CASE a # "reserved"
  BY <1>2, <1>4 DEF Loses, AllLand
<1>5. QED
  BY <1>3, <1>4

LEMMA StepLands == ExposureInv /\ [Next]_vars => AllLand
<1> SUFFICES ASSUME ExposureInv, [Next]_vars
             PROVE  AllLand
  OBVIOUS
<1>1. ASSUME NEW q \in Quotes, Commit(q) \/ LateCommit(q)
      PROVE  AllLand
  BY <1>1, ExecuteLands DEF Commit, LateCommit
<1>2. ASSUME NEW C, Remove(C)
      PROVE  AllLand
  BY <1>2 DEF Remove, AllLand
<1>3. ASSUME UNCHANGED redis
      PROVE  AllLand
  BY <1>3 DEF redis, AllLand
<1>4. ASSUME NEW q \in Quotes, Start(q) \/ Read(q) \/ Evaluate(q) \/ TakeReply(q)
                               \/ Abandon(q) \/ PassTime(q)
      PROVE  AllLand
  BY <1>2, <1>3, <1>4 DEF Start, Read, Evaluate, TakeReply, Abandon, PassTime
<1>5. ASSUME NEW g \in Gateways,
             ReleaseStep(g) \/ Restart(g) \/ \E q \in Quotes : Probe(g, q)
      PROVE  AllLand
  BY <1>2, <1>3, <1>5
     DEF ReleaseStep, TakeLock, LockTimeout, ReleaseScript, LockLost, ReleaseRefused, Released,
         ReleaseReply, Restart, Probe
<1>6. CASE LockExpires \/ UNCHANGED vars
  BY <1>3, <1>6 DEF LockExpires, vars
<1>7. QED
  BY <1>1, <1>4, <1>5, <1>6 DEF Next, Reserve

(***************************************************************************)
(* evaluateReservation runs in the gateway on a state that may be stale by *)
(* the time the commit script runs; even so the script adds a reservation  *)
(* only where the band portfolio evaluation allows is kept.                *)
(***************************************************************************)
THEOREM BandIsKept == Spec => LandsInBand
<1>1. ExposureInv /\ [Next]_vars =>
          [\A q \in Quotes : q \in records' \ records => Acceptable(net')]_vars
  BY StepLands DEF AllLand
<1>2. QED
  BY <1>1, LedgerInvariant, PTL DEF Spec, LandsInBand
-----------------------------------------------------------------------------
(* The sums.                                                               *)

LEMMA UsedFacts ==
    ASSUME NEW b \in Buckets, NEW S \in SUBSET Quotes
    PROVE  /\ Used(S, b) \in Nat
           /\ \A C \in SUBSET S : /\ Used(S, b) = Used(S \ C, b) + Used(C, b)
                                  /\ Used(C, b) <= Used(S, b)
           /\ \A q \in S : Used(S, b) = Uses[q][b] + Used(S \ {q}, b)
<1>1. PICK u \in [Quotes -> Nat] : u = Usage(b)
  BY ExposureAssumption DEF ExposureAssumption, Usage
<1>2. \A q \in Quotes : u[q] = Uses[q][b]
  BY <1>1 DEF Usage
<1>3. \A T : Used(T, b) = Sum(u, T)
  <2>1. \A T : Used(T, b) = Sum(Usage(b), T)
    BY Zenon DEF Used, Sum
  <2>2. QED
    BY <1>1, <2>1, Zenon
<1>4. IsFiniteSet(S) /\ u \in [Quotes -> Int]
  BY ExposureAssumption, FS_Subset DEF ExposureAssumption
<1>5. Sum(u, S) \in Nat
  BY <1>4, SumType
<1>6. \A C \in SUBSET S : Sum(u, S) = Sum(u, S \ C) + Sum(u, C)
  BY <1>4, SumSplit
<1>7. \A C \in SUBSET S : Sum(u, C) <= Sum(u, S)
  BY <1>4, SumMonotone
<1>8. \A q \in S : Sum(u, S) = u[q] + Sum(u, S \ {q})
  BY <1>4, SumRemove
<1>9. QED
  BY <1>2, <1>3, <1>5, <1>6, <1>7, <1>8

LEMMA ShiftFacts ==
    ASSUME NEW S \in SUBSET Quotes
    PROVE  /\ Shift(S) \in Int
           /\ \A C \in SUBSET S : Shift(S) = Shift(S \ C) + Shift(C)
           /\ \A q \in S : Shift(S) = Delta[q] + Shift(S \ {q})
<1>1. \A T : Shift(T) = Sum(Delta, T)
  BY Zenon DEF Shift, Sum
<1>2. IsFiniteSet(S) /\ Delta \in [Quotes -> Int]
  BY ExposureAssumption, FS_Subset DEF ExposureAssumption
<1>3. Sum(Delta, S) \in Int
  BY <1>2, SumType
<1>4. \A C \in SUBSET S : Sum(Delta, S) = Sum(Delta, S \ C) + Sum(Delta, C)
  BY <1>2, SumSplit
<1>5. \A q \in S : Sum(Delta, S) = Delta[q] + Sum(Delta, S \ {q})
  BY <1>2, SumRemove
<1>6. QED
  BY <1>1, <1>3, <1>4, <1>5

LEMMA SumsOfNone == Shift({}) = 0 /\ \A b : Used({}, b) = 0
<1>1. Shift({}) = 0
  <2>1. Shift({}) = Sum(Delta, {})
    BY Zenon DEF Shift, Sum
  <2>2. QED
    BY <2>1, SumEmpty
<1>2. ASSUME NEW b PROVE Used({}, b) = 0
  <2>1. Used({}, b) = Sum(Usage(b), {})
    BY Zenon DEF Used, Sum
  <2>2. QED
    BY <2>1, SumEmpty
<1>3. QED
  BY <1>1, <1>2

LEMMA WithoutShifts ==
    ASSUME NEW n \in Int, NEW C
    PROVE  Without(n, C) = n - Shift(C)
<1>1. CASE C = {}
  <2>1. Shift(C) = 0
    BY <1>1, SumsOfNone, Zenon
  <2>2. QED
    BY <1>1, <2>1 DEF Without
<1>2. CASE C # {}
  BY <1>2 DEF Without
<1>3. QED
  BY <1>1, <1>2

-----------------------------------------------------------------------------
(* The ledger balances.                                                    *)

LedgerTypes ==
    /\ records \subseteq Quotes
    /\ totals \in [Buckets -> Nat]
    /\ net \in Int
    /\ generation \in Nat
    /\ gone \subseteq Quotes

Balanced ==
    /\ net = Shift(records)
    /\ \A b \in Buckets : totals[b] = Used(records, b)

\* Whatever of the ledger remains, one of it was admitted with all of that open.
Admitted ==
    \A b \in Buckets, S \in SUBSET records :
        \/ Used(S, b) = 0
        \/ \E q \in S : Counts(q, b) /\ Used(S, b) <= Bound[q][b]

LedgerInv == LedgerTypes /\ Balanced /\ Admitted

LEMMA RemoveBalances ==
    ASSUME LedgerInv, NEW C \in SUBSET records, Remove(C)
    PROVE  LedgerInv'
<1>1. /\ records' = records \ C /\ gone' = gone \cup C
      /\ totals' = [b \in Buckets |-> totals[b] - Used(C, b)]
      /\ net' = Without(net, C)
      /\ generation' = generation + Cardinality(C)
  BY DEF Remove
<1>2. records \in SUBSET Quotes /\ C \in SUBSET Quotes /\ records' \in SUBSET records
  BY <1>1 DEF LedgerInv, LedgerTypes
<1>3. Shift(records) = Shift(records') + Shift(C) /\ Shift(records') \in Int /\ Shift(C) \in Int
  BY <1>1, <1>2, ShiftFacts
<1>4. net' = Shift(records')
  <2>1. net' = net - Shift(C) /\ net = Shift(records)
    BY <1>1, WithoutShifts DEF LedgerInv, LedgerTypes, Balanced
  <2>2. QED
    BY <1>3, <2>1
<1>5. ASSUME NEW b \in Buckets
      PROVE  totals'[b] = Used(records', b) /\ totals'[b] \in Nat
  <2>1. Used(records, b) = Used(records \ C, b) + Used(C, b)
    BY <1>2, UsedFacts
  <2>2. Used(records', b) \in Nat /\ Used(C, b) \in Nat
    BY <1>2, UsedFacts
  <2>3. totals'[b] = totals[b] - Used(C, b) /\ totals[b] = Used(records, b)
    BY <1>1 DEF LedgerInv, Balanced
  <2>4. Used(records \ C, b) = Used(records', b)
    BY <1>1, Zenon
  <2>5. QED
    BY <2>1, <2>2, <2>3, <2>4
<1>6. IsFiniteSet(C)
  BY <1>2, ExposureAssumption, FS_Subset DEF ExposureAssumption
<1>7. LedgerTypes'
  <2>1. totals' \in [Buckets -> Nat]
    BY <1>1, <1>5
  <2>2. generation' \in Nat
    BY <1>1, <1>6, FS_CardinalityType DEF LedgerInv, LedgerTypes
  <2>3. QED
    BY <1>1, <1>2, <1>3, <1>4, <2>1, <2>2 DEF LedgerInv, LedgerTypes
<1>8. Balanced'
  BY <1>4, <1>5 DEF Balanced
<1>9. Admitted'
  BY <1>2 DEF LedgerInv, Admitted
<1>10. QED
  BY <1>7, <1>8, <1>9 DEF LedgerInv

LEMMA AddBalances ==
    ASSUME LedgerInv, NEW C \in SUBSET records, NEW q \in Quotes, q \notin records \ C,
           Fits(q, C), Add(q, C)
    PROVE  LedgerInv'
<1>1. /\ records' = (records \ C) \cup {q} /\ gone' = gone \cup C
      /\ totals' = [b \in Buckets |-> totals[b] - Used(C, b) + Uses[q][b]]
      /\ net' = Without(net, C) + Delta[q]
      /\ generation' = generation + Cardinality(C) + 1
  BY DEF Add
<1>2. PICK K \in SUBSET records : K = records \ C
  OBVIOUS
<1>3. /\ records \in SUBSET Quotes /\ C \in SUBSET Quotes /\ K \in SUBSET Quotes
      /\ records' \in SUBSET Quotes /\ q \in records' /\ records' \ {q} = K
  BY <1>1, <1>2 DEF LedgerInv, LedgerTypes
<1>4. Delta[q] \in Int /\ \A b \in Buckets : Uses[q][b] \in Nat
  BY ExposureAssumption DEF ExposureAssumption
<1>5. net' = Shift(records') /\ net' \in Int
  <2>1. Shift(records) = Shift(K) + Shift(C)
    BY <1>2, <1>3, ShiftFacts
  <2>2. Shift(records') = Delta[q] + Shift(K)
    <3>1. Shift(records') = Delta[q] + Shift(records' \ {q})
      BY <1>3, ShiftFacts
    <3>2. QED
      BY <1>3, <3>1, Zenon
  <2>3. Shift(K) \in Int /\ Shift(C) \in Int /\ Shift(records') \in Int
    BY <1>3, ShiftFacts
  <2>4. net' = net - Shift(C) + Delta[q]
    BY <1>1, <2>3, WithoutShifts DEF LedgerInv, LedgerTypes
  <2>5. QED
    BY <1>4, <2>1, <2>2, <2>3, <2>4 DEF LedgerInv, Balanced
<1>6. ASSUME NEW b \in Buckets
      PROVE  totals'[b] = Used(records', b) /\ totals'[b] \in Nat
  <2>1. Used(records, b) = Used(K, b) + Used(C, b)
    <3>1. Used(records, b) = Used(records \ C, b) + Used(C, b)
      BY <1>3, UsedFacts
    <3>2. QED
      BY <1>2, <3>1, Zenon
  <2>2. Used(records', b) = Uses[q][b] + Used(K, b)
    <3>1. Used(records', b) = Uses[q][b] + Used(records' \ {q}, b)
      BY <1>3, UsedFacts
    <3>2. QED
      BY <1>3, <3>1, Zenon
  <2>3. Used(K, b) \in Nat /\ Used(C, b) \in Nat /\ Used(records', b) \in Nat
    BY <1>3, UsedFacts
  <2>4. totals'[b] = totals[b] - Used(C, b) + Uses[q][b] /\ totals[b] = Used(records, b)
    BY <1>1 DEF LedgerInv, Balanced
  <2>5. QED
    BY <1>4, <2>1, <2>2, <2>3, <2>4
<1>7. LedgerTypes'
  <2>1. totals' \in [Buckets -> Nat]
    BY <1>1, <1>6
  <2>2. IsFiniteSet(C)
    BY <1>3, ExposureAssumption, FS_Subset DEF ExposureAssumption
  <2>3. generation' \in Nat
    BY <1>1, <2>2, FS_CardinalityType DEF LedgerInv, LedgerTypes
  <2>4. QED
    BY <1>1, <1>3, <1>5, <2>1, <2>3 DEF LedgerInv, LedgerTypes
<1>8. Balanced'
  BY <1>5, <1>6 DEF Balanced
<1>9. ASSUME NEW b \in Buckets, NEW S \in SUBSET records', Used(S, b) # 0
      PROVE  \E p \in S : Counts(p, b) /\ Used(S, b) <= Bound[p][b]
  <2>1. PICK T : T = S \ {q}
    OBVIOUS
  <2>2. T \in SUBSET records
    BY <1>1, <2>1
  <2>3. CASE q \in S /\ Counts(q, b)
    <3>1. Used(S, b) <= Used(records', b)
      BY <1>3, UsedFacts
    <3>2. totals'[b] <= Bound[q][b]
      BY <1>1, <2>3 DEF Fits
    <3>3. Used(S, b) \in Nat /\ Bound[q][b] \in Nat
      BY <1>3, UsedFacts, ExposureAssumption DEF ExposureAssumption
    <3>4. QED
      BY <1>6, <2>3, <3>1, <3>2, <3>3
  <2>4. CASE q \notin S
    BY <1>1, <1>9, <2>4 DEF LedgerInv, Admitted
  <2>5. CASE q \in S /\ ~Counts(q, b)
    <3>1. Used(S, b) = Uses[q][b] + Used(S \ {q}, b)
      BY <1>3, <2>5, UsedFacts
    <3>2. Used(S, b) = Uses[q][b] + Used(T, b)
      BY <2>1, <3>1, Zenon
    <3>3. Used(T, b) \in Nat /\ Uses[q][b] = 0
      BY <1>3, <1>4, <2>2, <2>5, UsedFacts DEF Counts
    <3>4. Used(T, b) = Used(S, b)
      BY <3>2, <3>3
    <3>5. PICK p \in T : Counts(p, b) /\ Used(T, b) <= Bound[p][b]
      BY <1>9, <2>2, <3>4 DEF LedgerInv, Admitted
    <3>6. QED
      BY <2>1, <3>4, <3>5
  <2>6. QED
    BY <2>3, <2>4, <2>5
<1>10. QED
  BY <1>7, <1>8, <1>9 DEF LedgerInv, Admitted

\* What a step may do to the ledger.
LedgerStep ==
    \/ UNCHANGED redis
    \/ \E C \in SUBSET records : Remove(C)
    \/ \E q \in Quotes, C \in SUBSET records : q \notin records \ C /\ Fits(q, C) /\ Add(q, C)

LEMMA ExecuteIsLedgerStep ==
    ASSUME NEW q \in Quotes, NEW v, NEW a, Execute(q, v, a)
    PROVE  LedgerStep
<1>1. PICK C \in SUBSET Overdue : /\ a \in Verdicts(q, v, C)
                                  /\ IF a = "reserved" THEN Add(q, C) ELSE Remove(C)
  BY DEF Execute
<1>2. C \in SUBSET records
  BY DEF Overdue
<1>3. CASE a = "reserved"
  <2>1. q \notin records \ C /\ Fits(q, C)
    BY <1>1, <1>3 DEF Verdicts
  <2>2. QED
    BY <1>1, <1>2, <1>3, <2>1 DEF LedgerStep
<1>4. CASE a # "reserved"
  BY <1>1, <1>2, <1>4 DEF LedgerStep
<1>5. QED
  BY <1>3, <1>4

LEMMA NextIsLedgerStep == [Next]_vars => LedgerStep
<1> SUFFICES ASSUME [Next]_vars PROVE LedgerStep
  OBVIOUS
<1>1. ASSUME NEW q \in Quotes, Reserve(q) \/ Abandon(q) \/ LateCommit(q) \/ PassTime(q)
      PROVE  LedgerStep
  <2>1. CASE Read(q)
    BY <2>1 DEF Read, LedgerStep, Overdue
  <2>2. CASE Commit(q) \/ LateCommit(q)
    BY <2>2, ExecuteIsLedgerStep DEF Commit, LateCommit
  <2>3. CASE Start(q) \/ Evaluate(q) \/ TakeReply(q) \/ Abandon(q) \/ PassTime(q)
    BY <2>3 DEF Start, Evaluate, TakeReply, Abandon, PassTime, LedgerStep
  <2>4. QED
    BY <1>1, <2>1, <2>2, <2>3 DEF Reserve
<1>2. ASSUME NEW g \in Gateways,
             ReleaseStep(g) \/ Restart(g) \/ \E q \in Quotes : Probe(g, q)
      PROVE  LedgerStep
  <2>1. CASE ReleaseScript(g)
    BY <2>1 DEF ReleaseScript, LockLost, ReleaseRefused, Released, LedgerStep
  <2>2. CASE TakeLock(g) \/ LockTimeout(g) \/ ReleaseReply(g) \/ Restart(g)
             \/ \E q \in Quotes : Probe(g, q)
    BY <2>2 DEF TakeLock, LockTimeout, ReleaseReply, Restart, Probe, LedgerStep
  <2>3. QED
    BY <1>2, <2>1, <2>2 DEF ReleaseStep
<1>3. CASE LockExpires \/ UNCHANGED vars
  BY <1>3 DEF LockExpires, vars, LedgerStep
<1>4. QED
  BY <1>1, <1>2, <1>3 DEF Next

LEMMA LedgerKept == LedgerInv /\ [Next]_vars => LedgerInv'
<1> SUFFICES ASSUME LedgerInv, [Next]_vars PROVE LedgerInv'
  OBVIOUS
<1>1. LedgerStep
  BY NextIsLedgerStep
<1>2. CASE UNCHANGED redis
  BY <1>2 DEF redis, LedgerInv, LedgerTypes, Balanced, Admitted
<1>3. ASSUME NEW C \in SUBSET records, Remove(C) PROVE LedgerInv'
  BY <1>3, RemoveBalances
<1>4. ASSUME NEW q \in Quotes, NEW C \in SUBSET records, q \notin records \ C, Fits(q, C),
             Add(q, C)
      PROVE  LedgerInv'
  BY <1>4, AddBalances
<1>5. QED
  BY <1>1, <1>2, <1>3, <1>4 DEF LedgerStep

LEMMA LedgerStarts == Init => LedgerInv
<1> SUFFICES ASSUME Init PROVE LedgerInv
  OBVIOUS
<1>1. /\ records = {} /\ totals = [b \in Buckets |-> 0] /\ net = 0 /\ generation = 0
      /\ gone = {}
  BY DEF Init
<1>2. Balanced
  BY <1>1, SumsOfNone DEF Balanced
<1>3. ASSUME NEW b \in Buckets, NEW S \in SUBSET records PROVE Used(S, b) = 0
  <2>1. S = {}
    BY <1>1
  <2>2. QED
    BY <2>1, SumsOfNone
<1>4. QED
  BY <1>1, <1>2, <1>3 DEF LedgerInv, LedgerTypes, Admitted

(***************************************************************************)
(* commitQuoteExposureReservationScript, the releases and the cleanups     *)
(* keep the running totals and the net position equal to the sums over the *)
(* reservations, and every total within a bound that a reservation of its  *)
(* bucket was admitted under.                                              *)
(***************************************************************************)
THEOREM LedgerBalances == Spec => []LedgerBalanced
<1>1. LedgerInv => LedgerBalanced
  BY DEF LedgerInv, LedgerTypes, Balanced, Admitted, LedgerBalanced
<1>2. QED
  BY <1>1, LedgerStarts, LedgerKept, PTL DEF Spec

-----------------------------------------------------------------------------
(* Types.                                                                  *)

OtherTypes ==
    /\ lock \in Gateways \cup {None}
    /\ age \in [Quotes -> {"open", "closed", "over"}]
    /\ cache \in [Gateways -> States]
    /\ step \in [Quotes -> Steps]
    /\ view \in [Quotes -> Views]
    /\ reply \in [Quotes -> Answers \cup {"none"}]
    /\ late \subseteq Quotes
    /\ releasing \in [Gateways -> Release]
    /\ faults \in 0 .. MaxFaults

LEMMA Constants ==
    /\ NoView \in Views /\ Unknown \in States /\ Idle \in Release /\ NoView.state \in States
    /\ MaxFaults \in Nat
    /\ \A q \in Quotes : GatewayOf[q] \in Gateways /\ Delta[q] \in Int
    /\ \A v \in Views : v.state \in States
    /\ \A s \in States : s.net \in Int /\ s.generation \in Int
BY ExposureAssumption
   DEF ExposureAssumption, NoView, Views, Unknown, States, Idle, Release

LEMMA FaultTypes ==
    ASSUME faults \in 0 .. MaxFaults, Fault \/ UNCHANGED faults
    PROVE  faults' \in 0 .. MaxFaults
BY Constants DEF Fault

LEMMA ReserveTypes ==
    ASSUME LedgerTypes, LedgerTypes', OtherTypes, NEW q \in Quotes,
           Reserve(q) \/ Abandon(q) \/ LateCommit(q) \/ PassTime(q)
    PROVE  OtherTypes'
<1>1. CASE Start(q)
  <2>1. GatewayOf[q] \in Gateways
    BY Constants
  <2>2. PICK w : w = [state |-> cache[GatewayOf[q]], cached |-> TRUE, existing |-> FALSE]
    OBVIOUS
  <2>3. w \in Views
    BY <2>1, <2>2 DEF OtherTypes, Views
  <2>4. view' = view \/ view' = [view EXCEPT ![q] = w]
    BY <1>1, <2>2, Zenon DEF Start
  <2>5. view' \in [Quotes -> Views]
    BY <2>3, <2>4 DEF OtherTypes
  <2>6. step' \in [Quotes -> Steps]
    BY <1>1 DEF Start, Goto, OtherTypes, Steps
  <2>7. QED
    BY <1>1, <2>5, <2>6 DEF Start, OtherTypes
<1>2. CASE Read(q)
  <2>1. PICK ns : ns = [net |-> net', generation |-> generation']
    OBVIOUS
  <2>2. ns \in States
    BY <2>1 DEF LedgerTypes, States
  <2>3. PICK e : e = (q \in records')
    OBVIOUS
  <2>4. PICK w : w = [state |-> ns, cached |-> FALSE, existing |-> e]
    OBVIOUS
  <2>5. w \in Views
    <3>1. e \in BOOLEAN
      BY <2>3
    <3>2. QED
      BY <2>2, <2>4, <3>1 DEF Views
  <2>6. view' = view \/ view' = [view EXCEPT ![q] = w]
    BY <1>2, <2>1, <2>3, <2>4, Zenon DEF Read
  <2>7. view' \in [Quotes -> Views]
    BY <2>5, <2>6 DEF OtherTypes
  <2>8. step' \in [Quotes -> Steps]
    BY <1>2 DEF Read, Goto, OtherTypes, Steps
  <2>9. QED
    BY <1>2, <2>7, <2>8 DEF Read, OtherTypes
<1>3. CASE Evaluate(q)
  <2>1. view[q].state \in States
    BY Constants DEF OtherTypes
  <2>2. cache' \in [Gateways -> States]
    BY <1>3, <2>1 DEF Evaluate, OtherTypes
  <2>3. view' \in [Quotes -> Views]
    BY <1>3, Constants DEF Evaluate, DropView, OtherTypes
  <2>4. step' \in [Quotes -> Steps]
    BY <1>3 DEF Evaluate, Goto, OtherTypes, Steps
  <2>5. faults' \in 0 .. MaxFaults
    BY <1>3, FaultTypes DEF Evaluate, OtherTypes
  <2>6. QED
    BY <1>3, <2>2, <2>3, <2>4, <2>5 DEF Evaluate, OtherTypes
<1>4. CASE Commit(q)
  <2>1. PICK a \in Answers :
          \/ /\ Goto(q, "replied") /\ reply' = [reply EXCEPT ![q] = a]
             /\ UNCHANGED <<late, faults>>
          \/ /\ Fault
             /\ \/ Goto(q, "recommit") /\ UNCHANGED late
                \/ Goto(q, "error") /\ late' = late \cup {q}
             /\ UNCHANGED reply
    BY <1>4 DEF Commit
  <2>2. faults' \in 0 .. MaxFaults
    BY <2>1, FaultTypes DEF OtherTypes
  <2>3. step' \in [Quotes -> Steps] /\ reply' \in [Quotes -> Answers \cup {"none"}]
        /\ late' \subseteq Quotes
    BY <2>1 DEF Goto, OtherTypes, Steps
  <2>4. QED
    BY <1>4, <2>2, <2>3 DEF Commit, OtherTypes
<1>5. CASE TakeReply(q)
  <2>1. TakeReserved(q) \/ TakeDuplicate(q) \/ TakeConflict(q) \/ TakeRefusal(q)
    BY <1>5 DEF TakeReply
  <2>2. cache' \in [Gateways -> States]
    <3>1. CASE TakeReserved(q)
      <4>1. PICK ns : ns = [net |-> view[q].state.net + Delta[q],
                            generation |-> view[q].state.generation + 1]
        OBVIOUS
      <4>2. ns \in States
        BY <4>1, Constants DEF OtherTypes, States
      <4>3. cache' = [cache EXCEPT ![GatewayOf[q]] = ns]
        BY <3>1, <4>1, Zenon DEF TakeReserved
      <4>4. QED
        BY <4>2, <4>3 DEF OtherTypes
    <3>2. CASE TakeDuplicate(q) \/ TakeConflict(q) \/ TakeRefusal(q)
      BY <3>2, Constants DEF TakeDuplicate, TakeConflict, TakeRefusal, Forget, OtherTypes
    <3>3. QED
      BY <2>1, <3>1, <3>2
  <2>3. step' \in [Quotes -> Steps] /\ faults' \in 0 .. MaxFaults
    <3>1. faults' \in 0 .. MaxFaults
      BY <2>1, FaultTypes DEF TakeReserved, TakeDuplicate, TakeConflict, TakeRefusal, Accepted,
                              OtherTypes
    <3>2. PICK s \in Steps : Goto(q, s)
      <4>1. \/ Goto(q, "reserved") \/ Goto(q, "error") \/ Goto(q, "read")
            \/ reply[q] \in {"rejected", "error"} /\ Goto(q, reply[q])
        BY <2>1 DEF TakeReserved, TakeDuplicate, TakeConflict, TakeRefusal, Accepted
      <4>2. QED
        BY <4>1 DEF Steps
    <3>3. QED
      BY <3>1, <3>2 DEF Goto, OtherTypes
  <2>4. view' \in [Quotes -> Views] /\ reply' \in [Quotes -> Answers \cup {"none"}]
    BY <1>5, Constants DEF TakeReply, DropView, OtherTypes
  <2>5. QED
    BY <1>5, <2>2, <2>3, <2>4 DEF TakeReply, OtherTypes
<1>6. CASE Abandon(q)
  <2>1. faults' \in 0 .. MaxFaults
    BY <1>6, FaultTypes DEF Abandon, OtherTypes
  <2>2. QED
    BY <1>6, <2>1 DEF Abandon, Goto, OtherTypes, Steps
<1>7. CASE LateCommit(q)
  BY <1>7, Constants DEF LateCommit, DropView, OtherTypes
<1>8. CASE PassTime(q)
  BY <1>8 DEF PassTime, OtherTypes
<1>9. QED
  BY <1>1, <1>2, <1>3, <1>4, <1>5, <1>6, <1>7, <1>8 DEF Reserve

LEMMA ReleaseTypes ==
    ASSUME OtherTypes, NEW g \in Gateways,
           ReleaseStep(g) \/ Restart(g) \/ \E q \in Quotes : Probe(g, q)
    PROVE  OtherTypes'
<1>1. \A r \in Release : [r EXCEPT !.step = "script"] \in Release
                         /\ [r EXCEPT !.step = "replied"] \in Release
  BY DEF Release
<1>2. releasing[g] \in Release
  BY DEF OtherTypes
<1>3. PICK s \in Release, r \in Release :
        s = [releasing[g] EXCEPT !.step = "script"] /\ r = [releasing[g] EXCEPT !.step = "replied"]
  BY <1>1, <1>2
<1>4. CASE TakeLock(g)
  <2>1. faults' \in 0 .. MaxFaults
    BY <1>4, FaultTypes DEF TakeLock, OtherTypes
  <2>2. releasing' = releasing \/ releasing' = [releasing EXCEPT ![g] = s]
    BY <1>3, <1>4, Zenon DEF TakeLock
  <2>3. releasing' \in [Gateways -> Release]
    BY <2>2 DEF OtherTypes
  <2>4. QED
    BY <1>4, <2>1, <2>3 DEF TakeLock, OtherTypes
<1>5. CASE LockTimeout(g)
  BY <1>5, Constants DEF LockTimeout, OtherTypes
<1>6. CASE ReleaseScript(g)
  <2>1. LockLost(g) \/ ReleaseRefused(g) \/ Released(g)
    BY <1>6 DEF ReleaseScript
  <2>2. faults' \in 0 .. MaxFaults
    BY <2>1, FaultTypes DEF LockLost, ReleaseRefused, Released, OtherTypes
  <2>3. \/ releasing' = releasing \/ releasing' = [releasing EXCEPT ![g] = Idle]
        \/ releasing' = [releasing EXCEPT ![g] = r]
    BY <1>3, <2>1, Zenon DEF LockLost, ReleaseRefused, Released
  <2>4. releasing' \in [Gateways -> Release]
    BY <2>3, Constants DEF OtherTypes
  <2>5. lock' \in Gateways \cup {None}
    BY <2>1 DEF LockLost, ReleaseRefused, Released, OtherTypes
  <2>6. QED
    BY <1>6, <2>2, <2>4, <2>5 DEF ReleaseScript, OtherTypes
<1>7. CASE ReleaseReply(g)
  BY <1>7, Constants DEF ReleaseReply, Forget, OtherTypes
<1>8. CASE Restart(g)
  <2>1. faults' \in 0 .. MaxFaults
    BY <1>8, FaultTypes DEF Restart, OtherTypes
  <2>2. cache' \in [Gateways -> States] /\ releasing' \in [Gateways -> Release]
    BY <1>8, Constants DEF Restart, Forget, OtherTypes
  <2>3. view' \in [Quotes -> Views]
    BY <1>8, Constants DEF Restart, OtherTypes
  <2>4. /\ step' \in [Quotes -> Steps] /\ reply' \in [Quotes -> Answers \cup {"none"}]
        /\ late' \subseteq Quotes
    BY <1>8 DEF Restart, OtherTypes, Steps
  <2>5. QED
    BY <1>8, <2>1, <2>2, <2>3, <2>4 DEF Restart, OtherTypes
<1>9. ASSUME NEW q \in Quotes, Probe(g, q) PROVE OtherTypes'
  <2>1. [step |-> "lock", quote |-> q] \in Release
    BY DEF Release
  <2>2. QED
    BY <1>9, <2>1 DEF Probe, OtherTypes
<1>10. QED
  BY <1>4, <1>5, <1>6, <1>7, <1>8, <1>9 DEF ReleaseStep

(***************************************************************************)
(* The ledger, the gateways' caches and the requests keep their types; in  *)
(* particular no total of a user, pair or token becomes negative.          *)
(***************************************************************************)
THEOREM ExposureTypes == Spec => []TypeOK
<1>1. Init => LedgerInv /\ OtherTypes
  <2> SUFFICES ASSUME Init PROVE OtherTypes
    BY LedgerStarts
  <2>1. cache \in [Gateways -> States] /\ view \in [Quotes -> Views]
        /\ releasing \in [Gateways -> Release] /\ faults \in 0 .. MaxFaults
    BY Constants DEF Init
  <2>2. QED
    BY <2>1 DEF Init, OtherTypes, Steps
<1>2. LedgerInv /\ OtherTypes /\ [Next]_vars => (LedgerInv /\ OtherTypes)'
  <2> SUFFICES ASSUME LedgerInv, OtherTypes, [Next]_vars PROVE LedgerInv' /\ OtherTypes'
    OBVIOUS
  <2>1. LedgerInv' /\ LedgerTypes /\ LedgerTypes'
    <3>1. LedgerInv'
      BY LedgerKept
    <3>2. QED
      BY <3>1 DEF LedgerInv
  <2>2. CASE UNCHANGED vars
    BY <2>1, <2>2 DEF vars, OtherTypes
  <2>3. CASE LockExpires
    <3>1. Fault \/ UNCHANGED faults
      BY <2>3 DEF LockExpires
    <3>2. faults' \in 0 .. MaxFaults
      BY <3>1, FaultTypes DEF OtherTypes
    <3>3. QED
      BY <2>1, <2>3, <3>2 DEF LockExpires, OtherTypes
  <2>4. ASSUME NEW q \in Quotes, Reserve(q) \/ Abandon(q) \/ LateCommit(q) \/ PassTime(q)
        PROVE  OtherTypes'
    BY <2>1, <2>4, ReserveTypes
  <2>5. ASSUME NEW g \in Gateways,
               ReleaseStep(g) \/ Restart(g) \/ \E q \in Quotes : Probe(g, q)
        PROVE  OtherTypes'
    BY <2>5, ReleaseTypes
  <2>6. QED
    BY <2>1, <2>2, <2>3, <2>4, <2>5 DEF Next
<1>3. LedgerInv /\ OtherTypes => TypeOK
  BY DEF LedgerInv, LedgerTypes, OtherTypes, TypeOK
<1>4. QED
  BY <1>1, <1>2, <1>3, PTL DEF Spec
=============================================================================
