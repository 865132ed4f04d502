------------------------ MODULE QuoteProjection_proofs ------------------------
(***************************************************************************)
(* Proofs about QuoteProjection for any quotes, any mirrors, batches of    *)
(* any size and any number of faults: nothing of the journal is lost, the  *)
(* marker is a barrier, and the rows agree with the ledger.  The invariant *)
(* says what the stream of one quote looks like, that whatever is recorded *)
(* is covered by the version of its row, and that a mirror marks only what *)
(* is recorded and acknowledges only what is marked.                       *)
(***************************************************************************)
EXTENDS QuoteProjection, SumTheorems

Final == {"succeeded", "failed"}

\* The events of a quote are those of a decision and then of its outcome, the
\* last of them tells its stage, and a verdict on its key is final.
StreamTrue ==
    /\ \A e \in Positions :
           /\ stream[e].quoted =>
                  \/ stream[e].stage = stage[stream[e].q]
                  \/ stream[e].stage = "authorized" /\ stage[stream[e].q] \in {"finalized", "failed"}
           /\ stream[e].key \in Final => stream[e].key = key[stream[e].q]
    /\ \A e, f \in Positions :
           e < f /\ stream[e].q = stream[f].q /\ stream[e].quoted /\ stream[f].quoted =>
               stream[e].stage = "authorized" /\ stream[f].stage \in {"finalized", "failed"}

\* The version of a row is an event of it.
VersionTrue(q) == version[q] # 0 => stream[version[q]].q = q /\ stream[version[q]].quoted

\* The version of a row is at a stage s or past it.
Covers(q, s) == version[q] # 0 /\ Rank(s) <= Rank(stream[version[q]].stage)

RecordedTrue == \A e \in recorded : stream[e].quoted => Covers(stream[e].q, stream[e].stage)

MarkerTrue(q) == marker[q] # "absent" => Covers(q, marker[q])

RowTrue(q) ==
    \/ status[q] \in StatusesOf(IF version[q] = 0 THEN "absent" ELSE stream[version[q]].stage)
    \/ q \in GatewayMarks /\ status[q] = "failed" /\ version[q] # 0

KeyTrue(q) == keyState[q] \in Final => keyState[q] = key[q]

Marked(e) == stream[e].quoted => Rank(stream[e].stage) <= Rank(marker[stream[e].q])

\* A mirror marks and acknowledges what is recorded, and marked before.
MirrorTrue(m) ==
    /\ batch[m] \subseteq 1 .. delivered
    /\ step[m] \in {"mark", "ack"} => batch[m] # {} /\ First(m) \in recorded
    /\ step[m] = "ack" => Marked(First(m))

DeliveredTrue ==
    /\ UNION pending \subseteq 1 .. delivered
    /\ \A e \in Acknowledged : e \in recorded /\ Marked(e)

ProjectionInv ==
    /\ TypeOK
    /\ StreamTrue
    /\ RecordedTrue
    /\ \A q \in Quotes : VersionTrue(q) /\ MarkerTrue(q) /\ RowTrue(q) /\ KeyTrue(q)
    /\ \A m \in Mirrors : MirrorTrue(m)
    /\ DeliveredTrue
-----------------------------------------------------------------------------
(* Types and ranks.                                                        *)

LEMMA RankFacts ==
    /\ Rank("absent") = 0 /\ Rank("authorized") = 2 /\ Rank("declined") = 2
    /\ Rank("failed") = 3 /\ Rank("finalized") = 4
    /\ \A s \in Stages : Rank(s) \in Nat /\ (Rank(s) = 0 => s = "absent")
BY DEF Rank, Stages

\* What the proofs need of the types.
LEMMA Facts ==
    ASSUME TypeOK
    PROVE  /\ Len(stream) \in Nat /\ delivered \in Nat /\ delivered <= Len(stream)
           /\ 1 .. delivered \subseteq Positions
           /\ \A e \in Positions :
                  /\ e \in Nat /\ e # 0 /\ e <= Len(stream)
                  /\ stream[e].q \in Quotes
                  /\ stream[e].stage \in Stages \ {"absent"}
                  /\ stream[e].key \in KeyStates
           /\ \A q \in Quotes : version[q] # 0 => version[q] \in Positions
           /\ \A q \in Quotes : version[q] \in Nat
           /\ \A q \in Quotes : marker[q] \in Stages /\ stage[q] \in Stages
           /\ recorded \subseteq Positions
<1>1. Len(stream) \in Nat /\ delivered \in 0 .. Len(stream)
  BY DEF TypeOK
<1>2. \A e \in Positions : stream[e] \in Event /\ e \in Nat /\ e # 0 /\ e <= Len(stream)
  BY <1>1 DEF TypeOK, Positions
<1>3. \A e \in Positions : /\ stream[e].q \in Quotes
                           /\ stream[e].stage \in Stages \ {"absent"}
                           /\ stream[e].key \in KeyStates
  BY <1>2 DEF Event
<1>4. \A q \in Quotes : version[q] \in 0 .. Len(stream)
  BY DEF TypeOK
<1>5. QED
  BY <1>1, <1>2, <1>3, <1>4 DEF TypeOK, Positions

LEMMA FirstFact ==
    ASSUME TypeOK, NEW m \in Mirrors, batch[m] # {}
    PROVE  First(m) \in batch[m] /\ First(m) \in Positions
<1>1. batch[m] \in SUBSET Positions
  BY DEF TypeOK
<1>2. batch[m] \in SUBSET Nat
  BY <1>1, Facts
<1>3. \E e \in batch[m] : \A f \in batch[m] : e <= f
  BY <1>2, LeastNatural
<1>4. First(m) \in batch[m]
  BY <1>3 DEF First
<1>5. QED
  BY <1>1, <1>4

-----------------------------------------------------------------------------
(* The ledger.                                                             *)

\* What a script does: it appends the event x, of a later stage or of none.
Appends(q, x) ==
    /\ x \in Event /\ x.q = q
    /\ stream' = Append(stream, x)
    /\ stage' \in [Quotes -> Stages] /\ key' \in [Quotes -> KeyStates]
    /\ \A p \in Quotes \ {q} : stage'[p] = stage[p] /\ key'[p] = key[p]
    /\ x.quoted =>
           /\ x.stage = stage'[q]
           /\ \/ stage[q] = "absent" /\ x.stage \in {"authorized", "declined"}
              \/ stage[q] = "authorized" /\ x.stage \in {"finalized", "failed"}
    /\ ~x.quoted => stage'[q] = stage[q]
    /\ x.key \in Final => x.key = key'[q]
    /\ key[q] \in Final => key'[q] = key[q]
    /\ UNCHANGED <<group, batch, step, postgres, marker, faults>>

LEMMA LedgerAppends ==
    ASSUME TypeOK, NEW q \in Quotes, Ledger(q)
    PROVE  \E x : Appends(q, x)
<1>1. stage \in [Quotes -> Stages] /\ key \in [Quotes -> KeyStates]
  BY DEF TypeOK
<1>2. ASSUME Authorize(q) PROVE \E x : Appends(q, x)
  <2>1. PICK s \in {"authorized", "declined"} :
          /\ stage[q] = "absent" /\ key[q] \in {"none", "processing"} /\ key' = key
          /\ stage' = [stage EXCEPT ![q] = s]
          /\ Publish(q, s, key[q], TRUE)
    BY <1>2 DEF Authorize
  <2>2. PICK x : x = [q |-> q, stage |-> s, key |-> key[q], quoted |-> TRUE]
    OBVIOUS
  <2>3. x \in Event /\ x.q = q /\ x.stage = s /\ x.key = key[q] /\ x.quoted
    BY <1>1, <2>1, <2>2 DEF Event, Stages
  <2>4. stream' = Append(stream, x) /\ UNCHANGED <<group, batch, step, postgres, marker, faults>>
    BY <2>1, <2>2 DEF Publish
  <2>5. Appends(q, x)
    BY <1>1, <2>1, <2>3, <2>4 DEF Appends, Final, Stages
  <2>6. QED
    BY <2>5
<1>3. ASSUME Finalize(q) PROVE \E x : Appends(q, x)
  <2>1. /\ stage[q] = "authorized" /\ key[q] \in {"none", "processing"}
        /\ stage' = [stage EXCEPT ![q] = "finalized"]
        /\ key' = IF q \in Keyed THEN [key EXCEPT ![q] = "succeeded"] ELSE key
        /\ Publish(q, "finalized", key'[q], TRUE)
    BY <1>3 DEF Finalize
  <2>2. PICK x : x = [q |-> q, stage |-> "finalized", key |-> key'[q], quoted |-> TRUE]
    OBVIOUS
  <2>3. key' \in [Quotes -> KeyStates] /\ \A p \in Quotes \ {q} : key'[p] = key[p]
    BY <1>1, <2>1 DEF KeyStates
  <2>4. x \in Event /\ x.q = q /\ x.stage = "finalized" /\ x.key = key'[q] /\ x.quoted
    BY <2>2, <2>3 DEF Event, Stages
  <2>5. stream' = Append(stream, x) /\ UNCHANGED <<group, batch, step, postgres, marker, faults>>
    BY <2>1, <2>2 DEF Publish
  <2>6. Appends(q, x)
    BY <1>1, <2>1, <2>3, <2>4, <2>5 DEF Appends, Final, Stages
  <2>7. QED
    BY <2>6
<1>4. ASSUME FailKey(q) PROVE \E x : Appends(q, x)
  <2>1. /\ key[q] = "processing" /\ key' = [key EXCEPT ![q] = "failed"]
        /\ stage' = IF stage[q] = "authorized" THEN [stage EXCEPT ![q] = "failed"] ELSE stage
        /\ Publish(q, "failed", "failed", stage[q] = "authorized")
    BY <1>4 DEF FailKey
  <2>2. PICK x : x = [q |-> q, stage |-> "failed", key |-> "failed",
                      quoted |-> stage[q] = "authorized"]
    OBVIOUS
  <2>3. /\ x \in Event /\ x.q = q /\ x.stage = "failed" /\ x.key = "failed"
        /\ x.quoted <=> stage[q] = "authorized"
    BY <2>2 DEF Event, Stages, KeyStates
  <2>4. stream' = Append(stream, x) /\ UNCHANGED <<group, batch, step, postgres, marker, faults>>
    BY <2>1, <2>2 DEF Publish
  <2>5. stage' \in [Quotes -> Stages] /\ key' \in [Quotes -> KeyStates]
    BY <1>1, <2>1 DEF Stages, KeyStates
  <2>6. Appends(q, x)
    BY <1>1, <2>1, <2>3, <2>4, <2>5 DEF Appends, Final
  <2>7. QED
    BY <2>6
<1>5. QED
  BY <1>2, <1>3, <1>4 DEF Ledger

LEMMA LedgerKeeps ==
    ASSUME ProjectionInv, NEW q \in Quotes, Ledger(q)
    PROVE  ProjectionInv'
<1>1. PICK x : Appends(q, x)
  BY LedgerAppends DEF ProjectionInv
<1>2. TypeOK /\ StreamTrue
  BY DEF ProjectionInv
<1>3. PICK n : n = Len(stream) + 1
  OBVIOUS
<1>4. /\ Len(stream') = n /\ Positions' = Positions \cup {n} /\ n \notin Positions
      /\ n \in Nat /\ (\A e \in Positions : e < n)
      /\ \A e \in Positions : stream'[e] = stream[e]
      /\ stream'[n] = x /\ stream' \in Seq(Event)
  <2>1. stream \in Seq(Event) /\ x \in Event /\ stream' = Append(stream, x)
    BY <1>1, <1>2 DEF Appends, TypeOK
  <2>2. Len(stream) \in Nat
    BY <2>1
  <2>3. /\ Len(stream') = n /\ stream'[n] = x /\ stream' \in Seq(Event)
        /\ \A e \in 1 .. Len(stream) : stream'[e] = stream[e]
    BY <1>3, <2>1, <2>2
  <2>4. QED
    BY <1>3, <2>2, <2>3 DEF Positions
<1>5. UNCHANGED <<delivered, pending, batch, step, recorded, version, status, keyState, marker, faults>>
  BY <1>1 DEF Appends, group, postgres
<1>6. TypeOK'
  <2>1. stage' \in [Quotes -> Stages] /\ key' \in [Quotes -> KeyStates]
    BY <1>1 DEF Appends
  <2>2. delivered' \in 0 .. Len(stream') /\ version' \in [Quotes -> 0 .. Len(stream')]
    BY <1>2, <1>3, <1>4, <1>5, Facts DEF TypeOK
  <2>3. pending' \subseteq SUBSET Positions' /\ batch' \in [Mirrors -> SUBSET Positions']
        /\ recorded' \subseteq Positions'
    BY <1>2, <1>4, <1>5 DEF TypeOK
  <2>4. QED
    BY <1>2, <1>4, <1>5, <2>1, <2>2, <2>3 DEF TypeOK
<1>7. ASSUME NEW e \in Positions
      PROVE  /\ stream'[e] = stream[e]
             /\ stream[e].quoted =>
                  \/ stream[e].stage = stage'[stream[e].q]
                  \/ /\ stream[e].stage = "authorized"
                     /\ stage'[stream[e].q] \in {"finalized", "failed"}
             /\ stream[e].key \in Final => stream[e].key = key'[stream[e].q]
             /\ x.quoted /\ stream[e].quoted /\ stream[e].q = q =>
                  stream[e].stage = "authorized" /\ x.stage \in {"finalized", "failed"}
  <2>1. stream[e].q \in Quotes /\ stream[e].stage \in Stages \ {"absent"}
    BY <1>2, Facts
  <2>2. /\ stream[e].quoted =>
             \/ stream[e].stage = stage[stream[e].q]
             \/ stream[e].stage = "authorized" /\ stage[stream[e].q] \in {"finalized", "failed"}
        /\ stream[e].key \in Final => stream[e].key = key[stream[e].q]
    BY <1>2 DEF StreamTrue
  <2>3. x.quoted /\ stream[e].quoted /\ stream[e].q = q =>
             stream[e].stage = "authorized" /\ x.stage \in {"finalized", "failed"}
    BY <1>1, <2>1, <2>2 DEF Appends
  <2>4. QED
    BY <1>1, <1>4, <2>1, <2>2, <2>3 DEF Appends
<1>8. StreamTrue'
  <2>1. ASSUME NEW e \in Positions'
        PROVE  /\ stream'[e].quoted =>
                    \/ stream'[e].stage = stage'[stream'[e].q]
                    \/ /\ stream'[e].stage = "authorized"
                       /\ stage'[stream'[e].q] \in {"finalized", "failed"}
               /\ stream'[e].key \in Final => stream'[e].key = key'[stream'[e].q]
    <3>1. CASE e \in Positions
      BY <1>7, <3>1
    <3>2. CASE e = n
      BY <1>1, <1>4, <3>2 DEF Appends
    <3>3. QED
      BY <1>4, <3>1, <3>2
  <2>2. ASSUME NEW e \in Positions', NEW f \in Positions', e < f, stream'[e].q = stream'[f].q,
               stream'[e].quoted, stream'[f].quoted
        PROVE  stream'[e].stage = "authorized" /\ stream'[f].stage \in {"finalized", "failed"}
    <3>1. e \in Positions
      BY <1>2, <1>4, <2>2, Facts
    <3>2. CASE f \in Positions
      BY <1>2, <1>4, <2>2, <3>1, <3>2 DEF StreamTrue
    <3>3. CASE f = n
      <4>1. stream'[e] = stream[e] /\ stream'[f] = x /\ x.q = q
        BY <1>1, <1>4, <3>1, <3>3 DEF Appends
      <4>2. x.quoted /\ stream[e].quoted /\ stream[e].q = q
        BY <2>2, <4>1
      <4>3. stream[e].stage = "authorized" /\ x.stage \in {"finalized", "failed"}
        BY <1>7, <3>1, <4>2
      <4>4. QED
        BY <4>1, <4>3
    <3>4. QED
      BY <1>4, <3>2, <3>3
  <2>3. QED
    BY <2>1, <2>2 DEF StreamTrue
<1>9. RecordedTrue'
  BY <1>2, <1>4, <1>5, Facts DEF ProjectionInv, RecordedTrue, Covers
<1>10. ASSUME NEW p \in Quotes
       PROVE  (VersionTrue(p) /\ MarkerTrue(p) /\ RowTrue(p) /\ KeyTrue(p))'
  <2>1. VersionTrue(p) /\ MarkerTrue(p) /\ RowTrue(p) /\ KeyTrue(p)
    BY DEF ProjectionInv
  <2>2. version[p] # 0 => stream'[version[p]] = stream[version[p]]
    BY <1>2, <1>4, Facts
  <2>3. KeyTrue(p)'
    BY <1>1, <1>5, <2>1 DEF KeyTrue, Appends
  <2>4. RowTrue(p)'
    BY <1>5, <2>1, <2>2 DEF RowTrue
  <2>5. QED
    BY <1>5, <2>1, <2>2, <2>3, <2>4 DEF VersionTrue, MarkerTrue, Covers
<1>11. \A e \in Positions : Marked(e) => Marked(e)'
  BY <1>4, <1>5 DEF Marked
<1>12. ASSUME NEW m \in Mirrors PROVE MirrorTrue(m)'
  <2>1. MirrorTrue(m) /\ First(m)' = First(m)
    BY <1>5 DEF ProjectionInv, First
  <2>2. QED
    BY <1>2, <1>5, <1>11, <2>1, FirstFact DEF MirrorTrue
<1>13. DeliveredTrue'
  BY <1>2, <1>5, <1>11, Facts DEF ProjectionInv, DeliveredTrue, Acknowledged
<1>14. QED
  BY <1>6, <1>8, <1>9, <1>10, <1>12, <1>13 DEF ProjectionInv

-----------------------------------------------------------------------------
(* The quotes table and the delivery.                                      *)

\* What neither the ledger nor a projection changes stays true.
LEMMA PostgresKept ==
    ASSUME ProjectionInv, UNCHANGED <<ledger, recorded, version, keyState, marker>>
    PROVE  /\ StreamTrue' /\ RecordedTrue'
           /\ \A q \in Quotes : (VersionTrue(q) /\ MarkerTrue(q) /\ KeyTrue(q))'
           /\ \A q \in Quotes : status'[q] = status[q] => RowTrue(q)'
           /\ \A e : Marked(e)' = Marked(e)
<1>1. /\ stream' = stream /\ stage' = stage /\ key' = key
      /\ UNCHANGED <<recorded, version, keyState, marker>>
  BY DEF ledger
<1>2. StreamTrue'
  BY <1>1 DEF ProjectionInv, StreamTrue, Positions
<1>3. RecordedTrue'
  BY <1>1 DEF ProjectionInv, RecordedTrue, Covers
<1>4. \A q \in Quotes : (VersionTrue(q) /\ MarkerTrue(q) /\ KeyTrue(q))'
  BY <1>1 DEF ProjectionInv, VersionTrue, MarkerTrue, KeyTrue, Covers
<1>5. \A q \in Quotes : status'[q] = status[q] => RowTrue(q)'
  BY <1>1 DEF ProjectionInv, RowTrue
<1>6. \A e : Marked(e)' = Marked(e)
  BY <1>1 DEF Marked
<1>7. QED
  BY <1>2, <1>3, <1>4, <1>5, <1>6

LEMMA StatusKeeps ==
    ASSUME ProjectionInv, NEW q \in Quotes, MarkFailed(q) \/ Submit(q) \/ Expire(q)
    PROVE  ProjectionInv'
<1>1. TypeOK /\ RowTrue(q)
  BY DEF ProjectionInv
<1>2. PICK s \in {"failed", "submitted", "expired"} : WriteStatus(q, s)
  BY DEF MarkFailed, Submit, Expire
<1>3. /\ UNCHANGED <<ledger, group, batch, step, recorded, version, keyState, marker, faults>>
      /\ UNCHANGED <<stream, stage, key, delivered, pending>>
      /\ status' = [status EXCEPT ![q] = s]
  BY <1>2 DEF WriteStatus, ledger, group
<1>4. status' \in [Quotes -> Statuses] /\ \A p \in Quotes \ {q} : status'[p] = status[p]
  BY <1>1, <1>3 DEF TypeOK, Statuses
<1>5. TypeOK'
  BY <1>1, <1>3, <1>4 DEF TypeOK, Positions
<1>6. RowTrue(q)'
  <2>1. version[q] = 0 => status[q] = "absent"
    BY <1>1 DEF RowTrue, StatusesOf
  <2>2. version[q] # 0 => stream[version[q]].stage \in Stages \ {"absent"}
    BY <1>1, Facts
  <2>3. CASE MarkFailed(q)
    <3>1. q \in GatewayMarks /\ status'[q] = "failed" /\ status[q] \in {"requested", "signed"}
      BY <1>1, <2>3 DEF MarkFailed, WriteStatus, TypeOK
    <3>2. QED
      BY <1>3, <2>1, <3>1 DEF RowTrue
  <2>4. CASE Submit(q) \/ Expire(q)
    <3>1. status[q] = "signed" /\ status'[q] \in {"submitted", "expired"}
      BY <1>1, <2>4 DEF Submit, Expire, WriteStatus, TypeOK
    <3>2. version[q] # 0 /\ stream[version[q]].stage = "finalized"
      BY <1>1, <2>1, <2>2, <3>1 DEF RowTrue, StatusesOf, Stages
    <3>3. QED
      BY <1>3, <3>1, <3>2 DEF RowTrue, StatusesOf
  <2>5. QED
    BY <2>3, <2>4
<1>7. ASSUME NEW m \in Mirrors PROVE MirrorTrue(m)'
  BY <1>3, PostgresKept DEF ProjectionInv, MirrorTrue, First
<1>8. DeliveredTrue'
  BY <1>3, PostgresKept DEF ProjectionInv, DeliveredTrue, Acknowledged
<1>9. QED
  BY <1>3, <1>4, <1>5, <1>6, <1>7, <1>8, PostgresKept DEF ProjectionInv

\* A mirror other than m is where it was.
LEMMA MirrorsKept ==
    ASSUME TypeOK, NEW m \in Mirrors, MirrorTrue(m), delivered' \in Nat, delivered <= delivered',
           batch'[m] = batch[m], step'[m] = step[m], recorded \subseteq recorded',
           \A e \in Positions : Marked(e) => Marked(e)'
    PROVE  MirrorTrue(m)'
<1>1. First(m)' = First(m)
  BY DEF First
<1>2. 1 .. delivered \subseteq 1 .. delivered'
  BY Facts
<1>3. batch'[m] # {} => First(m) \in Positions
  BY FirstFact
<1>4. QED
  BY <1>1, <1>2, <1>3 DEF MirrorTrue

\* A batch that was just fetched, or dropped.
LEMMA MirrorStarts ==
    ASSUME NEW m \in Mirrors, batch'[m] \subseteq 1 .. delivered', step'[m] = "apply"
    PROVE  MirrorTrue(m)'
BY DEF MirrorTrue

\* The next n entries of the stream.
LEMMA FirstOfNext ==
    ASSUME NEW d \in Nat, NEW l \in Nat, d < l, NEW n \in Nat, n # 0
    PROVE  LET S == FirstOf((d + 1) .. l, n) IN
           Cardinality(S) \in Nat /\ d + Cardinality(S) <= l /\ S = (d + 1) .. (d + Cardinality(S))
<1> DEFINE last == IF d + n <= l THEN d + n ELSE l
<1>1. last \in Nat /\ d <= last /\ last <= l /\ (\A e \in Nat : e <= last <=> e <= l /\ e - 1 - d < n)
  OBVIOUS
<1> HIDE DEF last
<1>2. ASSUME NEW e \in (d + 1) .. l
      PROVE  Cardinality({f \in (d + 1) .. l : f < e}) = e - 1 - d
  <2>1. {f \in (d + 1) .. l : f < e} = (d + 1) .. (e - 1)
    OBVIOUS
  <2>2. Cardinality((d + 1) .. (e - 1)) = IF d + 1 > e - 1 THEN 0 ELSE (e - 1) - (d + 1) + 1
    BY FS_Interval
  <2>3. Cardinality({f \in (d + 1) .. l : f < e}) = Cardinality((d + 1) .. (e - 1))
    BY <2>1, Zenon
  <2>4. QED
    BY <2>2, <2>3
<1>3. FirstOf((d + 1) .. l, n) = (d + 1) .. last
  BY <1>1, <1>2 DEF FirstOf
<1>4. Cardinality((d + 1) .. last) = last - d
  <2>1. Cardinality((d + 1) .. last) = IF d + 1 > last THEN 0 ELSE last - (d + 1) + 1
    BY <1>1, FS_Interval
  <2>2. QED
    BY <1>1, <2>1
<1>5. PICK S : S = FirstOf((d + 1) .. l, n)
  OBVIOUS
<1>6. Cardinality(S) = last - d /\ S = (d + 1) .. last
  BY <1>3, <1>4, <1>5
<1>7. d + Cardinality(S) = last
  BY <1>1, <1>6
<1>8. QED
  BY <1>1, <1>5, <1>6, <1>7

LEMMA FetchKeeps ==
    ASSUME ProjectionInv, NEW m \in Mirrors, Fetch(m)
    PROVE  ProjectionInv'
<1>1. TypeOK /\ DeliveredTrue
  BY DEF ProjectionInv
<1>2. PICK entries :
        /\ batch' = [batch EXCEPT ![m] = entries] /\ step' = [step EXCEPT ![m] = "apply"]
        /\ delivered' \in Nat /\ delivered <= delivered' /\ delivered' <= Len(stream)
        /\ entries \subseteq 1 .. delivered'
        /\ UNION pending' \subseteq 1 .. delivered'
        /\ \A e \in 1 .. delivered' : e \notin UNION pending' => e \in Acknowledged
        /\ UNCHANGED <<ledger, postgres, marker, faults>>
  <2>1. CASE ReadNew(m)
    <3>1. PICK S : S = FirstOf((delivered + 1) .. Len(stream), BatchSize)
      OBVIOUS
    <3>2. /\ delivered < Len(stream) /\ delivered' = delivered + Cardinality(S)
          /\ pending' = pending \cup {S} /\ Receive(m, S)
      BY <2>1, <3>1 DEF ReadNew
    <3>3. /\ Cardinality(S) \in Nat /\ delivered + Cardinality(S) <= Len(stream)
          /\ S = (delivered + 1) .. (delivered + Cardinality(S))
      <4>1. BatchSize \in Nat /\ BatchSize # 0 /\ delivered \in Nat /\ Len(stream) \in Nat
        BY <1>1, Facts, ProjectionAssumption DEF ProjectionAssumption
      <4>2. QED
        BY <3>1, <3>2, <4>1, FirstOfNext
    <3>4. /\ delivered' \in Nat /\ delivered <= delivered' /\ delivered' <= Len(stream)
          /\ 1 .. delivered' = (1 .. delivered) \cup S
      BY <1>1, <3>2, <3>3, Facts
    <3>5. UNION pending' = S \cup UNION pending
      BY <3>2
    <3>6. QED
      BY <1>1, <3>2, <3>4, <3>5 DEF Receive, DeliveredTrue, Acknowledged
  <2>2. CASE ReadClaimed(m)
    <3>1. PICK idle \in SUBSET pending :
            /\ pending' = ((pending \ idle) \cup {p \ FirstOf(UNION idle, BatchSize) : p \in idle}
                             \cup {FirstOf(UNION idle, BatchSize)}) \ {{}}
            /\ Receive(m, FirstOf(UNION idle, BatchSize)) /\ delivered' = delivered
      BY <2>2 DEF ReadClaimed
    <3>2. PICK S : S = FirstOf(UNION idle, BatchSize)
      OBVIOUS
    <3>3. S \subseteq UNION idle
      BY <3>2 DEF FirstOf
    <3>4. /\ pending' = ((pending \ idle) \cup {p \ S : p \in idle} \cup {S}) \ {{}}
          /\ Receive(m, S) /\ delivered' = delivered
      BY <3>1, <3>2
    <3>5. UNION pending' = UNION pending
      <4>1. ASSUME NEW e, e \in UNION pending PROVE e \in UNION pending'
        <5>1. PICK p \in pending : e \in p
          BY <4>1
        <5>2. CASE e \in S
          BY <3>4, <5>2
        <5>3. CASE p \in idle /\ e \notin S
          <6>1. p \ S \in pending'
            BY <3>4, <5>1, <5>3
          <6>2. QED
            BY <5>1, <5>3, <6>1
        <5>4. CASE p \notin idle
          BY <3>4, <5>1, <5>4
        <5>5. QED
          BY <5>2, <5>3, <5>4
      <4>2. ASSUME NEW e, e \in UNION pending' PROVE e \in UNION pending
        <5>1. PICK p \in pending' : e \in p
          BY <4>2
        <5>2. p \in pending \/ p = S \/ \E r \in idle : p = r \ S
          BY <3>4, <5>1
        <5>3. QED
          BY <3>3, <5>1, <5>2
      <4>3. QED
        BY <4>1, <4>2
    <3>6. S \subseteq 1 .. delivered /\ UNION pending' \subseteq 1 .. delivered
      BY <1>1, <3>3, <3>5 DEF DeliveredTrue
    <3>7. \A e \in 1 .. delivered : e \notin UNION pending' => e \in Acknowledged
      BY <3>5 DEF Acknowledged
    <3>8. delivered \in Nat /\ delivered <= Len(stream)
      BY <1>1, Facts
    <3>9. /\ batch' = [batch EXCEPT ![m] = S] /\ step' = [step EXCEPT ![m] = "apply"]
          /\ UNCHANGED <<ledger, postgres, marker, faults>>
      BY <3>4 DEF Receive
    <3>10. /\ delivered' \in Nat /\ delivered <= delivered' /\ delivered' <= Len(stream)
           /\ S \subseteq 1 .. delivered' /\ UNION pending' \subseteq 1 .. delivered'
           /\ \A e \in 1 .. delivered' : e \notin UNION pending' => e \in Acknowledged
      BY <3>4, <3>6, <3>7, <3>8
    <3>11. QED
      BY <3>9, <3>10, Zenon
  <2>3. QED
    BY <2>1, <2>2 DEF Fetch
<1>3. UNCHANGED <<stream, stage, key, recorded, version, status, keyState, marker, faults>>
  BY <1>2 DEF ledger, postgres
<1>4. TypeOK'
  <2>1. 1 .. delivered' \subseteq Positions
    BY <1>1, <1>2, Facts DEF Positions
  <2>2. pending' \subseteq SUBSET Positions /\ entries \in SUBSET Positions
    BY <1>2, <2>1
  <2>3. batch' \in [Mirrors -> SUBSET Positions]
        /\ step' \in [Mirrors -> {"apply", "mark", "ack"}]
    BY <1>1, <1>2, <2>2 DEF TypeOK
  <2>4. delivered' \in 0 .. Len(stream)
    BY <1>1, <1>2, Facts
  <2>5. QED
    BY <1>1, <1>3, <2>2, <2>3, <2>4 DEF TypeOK, Positions
<1>5. ASSUME NEW n \in Mirrors PROVE MirrorTrue(n)'
  <2>1. CASE n = m
    <3>1. batch'[m] = entries /\ step'[m] = "apply"
      BY <1>1, <1>2 DEF TypeOK
    <3>2. QED
      BY <1>2, <2>1, <3>1, MirrorStarts
  <2>2. CASE n # m
    <3>1. batch'[n] = batch[n] /\ step'[n] = step[n] /\ MirrorTrue(n)
      BY <1>1, <1>2, <2>2 DEF TypeOK, ProjectionInv
    <3>2. \A e \in Positions : Marked(e) => Marked(e)'
      BY <1>2, <1>3, PostgresKept
    <3>3. QED
      BY <1>1, <1>2, <1>3, <3>1, <3>2, MirrorsKept
  <2>3. QED
    BY <2>1, <2>2
<1>6. DeliveredTrue'
  BY <1>1, <1>2, <1>3, PostgresKept DEF DeliveredTrue, Acknowledged
<1>7. QED
  BY <1>2, <1>3, <1>4, <1>5, <1>6, PostgresKept DEF ProjectionInv

-----------------------------------------------------------------------------
(* Processing.                                                             *)

\* The mirror m has moved on; the ledger and the rows are as they were.
LEMMA MirrorMoves ==
    ASSUME ProjectionInv, NEW m \in Mirrors,
           UNCHANGED <<ledger, delivered, postgres, marker>>,
           faults' \in 0 .. MaxFaults,
           pending' \subseteq SUBSET Positions,
           batch' \in [Mirrors -> SUBSET Positions],
           step' \in [Mirrors -> {"apply", "mark", "ack"}],
           \A n \in Mirrors \ {m} : batch'[n] = batch[n] /\ step'[n] = step[n],
           MirrorTrue(m)', DeliveredTrue'
    PROVE  ProjectionInv'
<1>1. TypeOK
  BY DEF ProjectionInv
<1>2. UNCHANGED <<stream, stage, key, recorded, version, status, keyState, delivered, marker>>
  BY DEF ledger, postgres
<1>3. TypeOK'
  BY <1>1, <1>2 DEF TypeOK, Positions
<1>4. \A e \in Positions : Marked(e) => Marked(e)'
  BY <1>2 DEF Marked
<1>5. ASSUME NEW n \in Mirrors \ {m} PROVE MirrorTrue(n)'
  <2>1. MirrorTrue(n) /\ delivered' \in Nat /\ delivered <= delivered'
    BY <1>1, <1>2, Facts DEF ProjectionInv
  <2>2. QED
    BY <1>1, <1>2, <1>4, <2>1, MirrorsKept
<1>6. QED
  BY <1>2, <1>3, <1>5, PostgresKept DEF ProjectionInv

LEMMA DropKeeps ==
    ASSUME ProjectionInv, NEW m \in Mirrors, Reject(m) \/ Interrupt(m)
    PROVE  ProjectionInv'
<1>1. TypeOK
  BY DEF ProjectionInv
<1>2. /\ UNCHANGED <<ledger, delivered, pending, postgres, marker>>
      /\ batch' = [batch EXCEPT ![m] = {}] /\ step' = [step EXCEPT ![m] = "apply"]
  BY DEF Reject, Interrupt, Drop, group
<1>3. faults' \in 0 .. MaxFaults
  BY <1>1, ProjectionAssumption DEF Reject, Interrupt, TypeOK, ProjectionAssumption
<1>4. /\ batch' \in [Mirrors -> SUBSET Positions]
      /\ step' \in [Mirrors -> {"apply", "mark", "ack"}]
      /\ batch'[m] = {} /\ step'[m] = "apply"
      /\ \A n \in Mirrors \ {m} : batch'[n] = batch[n] /\ step'[n] = step[n]
  BY <1>1, <1>2 DEF TypeOK
<1>5. MirrorTrue(m)'
  BY <1>4, MirrorStarts
<1>6. UNCHANGED <<ledger, recorded, version, keyState, marker, delivered, pending>>
  BY <1>2 DEF postgres
<1>7. DeliveredTrue'
  BY <1>6, PostgresKept DEF ProjectionInv, DeliveredTrue, Acknowledged
<1>8. pending' \subseteq SUBSET Positions
  BY <1>1, <1>6 DEF TypeOK
<1>9. QED
  BY <1>2, <1>3, <1>4, <1>5, <1>7, <1>8, MirrorMoves

LEMMA AcknowledgeKeeps ==
    ASSUME ProjectionInv, NEW m \in Mirrors, Acknowledge(m)
    PROVE  ProjectionInv'
<1>1. TypeOK /\ MirrorTrue(m) /\ DeliveredTrue /\ step[m] = "ack"
  BY DEF ProjectionInv, Acknowledge
<1>2. PICK e : e = First(m)
  OBVIOUS
<1>3. e \in batch[m] /\ e \in Positions /\ e \in recorded /\ Marked(e)
  BY <1>1, <1>2, FirstFact DEF MirrorTrue
<1>4. /\ UNCHANGED <<ledger, delivered, postgres, marker, faults>>
      /\ UNCHANGED <<recorded, version, keyState>>
  BY DEF Acknowledge, postgres
<1>5. /\ UNION pending' \subseteq UNION pending
      /\ UNION pending \subseteq (UNION pending') \cup {e}
      /\ pending' \subseteq SUBSET Positions
  <2>1. CASE pending' = {p \ {e} : p \in pending} \ {{}}
    <3>1. ASSUME NEW f \in UNION pending, f # e PROVE f \in UNION pending'
      <4>1. PICK p \in pending : f \in p
        OBVIOUS
      <4>2. p \ {e} \in pending'
        BY <2>1, <3>1, <4>1
      <4>3. QED
        BY <3>1, <4>1, <4>2
    <3>2. \A p \in pending' : \E r \in pending : p = r \ {e}
      BY <2>1
    <3>3. UNION pending' \subseteq UNION pending
      BY <3>2
    <3>4. pending' \subseteq SUBSET Positions
      BY <1>1, <3>2 DEF TypeOK
    <3>5. QED
      BY <3>1, <3>3, <3>4
  <2>2. CASE pending' = pending
    BY <1>1, <2>2 DEF TypeOK
  <2>3. QED
    BY <1>2, <2>1, <2>2 DEF Acknowledge
<1>6. /\ step' = [step EXCEPT ![m] = "apply"]
      /\ batch' = [batch EXCEPT ![m] = batch[m] \ {e}] \/ batch' = [batch EXCEPT ![m] = {}]
  BY <1>2 DEF Acknowledge, Drop
<1>7. /\ batch' \in [Mirrors -> SUBSET Positions]
      /\ step' \in [Mirrors -> {"apply", "mark", "ack"}]
      /\ batch'[m] \subseteq batch[m] /\ step'[m] = "apply"
      /\ \A n \in Mirrors \ {m} : batch'[n] = batch[n] /\ step'[n] = step[n]
  BY <1>1, <1>6 DEF TypeOK
<1>8. MirrorTrue(m)'
  BY <1>1, <1>4, <1>7, MirrorStarts DEF MirrorTrue
<1>9. DeliveredTrue'
  <2>1. ASSUME NEW f \in Acknowledged', f # e PROVE f \in Acknowledged
    <3>1. f \in 1 .. delivered /\ f \notin UNION pending'
      BY <1>4 DEF Acknowledged
    <3>2. f \notin UNION pending
      BY <1>5, <2>1, <3>1
    <3>3. QED
      BY <3>1, <3>2 DEF Acknowledged
  <2>2. \A f : Marked(f)' = Marked(f)
    BY <1>4, PostgresKept
  <2>3. QED
    BY <1>1, <1>3, <1>4, <1>5, <2>1, <2>2 DEF DeliveredTrue
<1>10. faults' \in 0 .. MaxFaults
  BY <1>1, <1>4 DEF TypeOK
<1>11. QED
  BY <1>4, <1>5, <1>7, <1>8, <1>9, <1>10, MirrorMoves

LEMMA MarkKeeps ==
    ASSUME ProjectionInv, NEW m \in Mirrors, Mark(m)
    PROVE  ProjectionInv'
<1>1. TypeOK /\ MirrorTrue(m) /\ DeliveredTrue /\ step[m] = "mark"
  BY DEF ProjectionInv, Mark
<1>2. PICK e : e = First(m)
  OBVIOUS
<1>3. e \in batch[m] /\ e \in Positions /\ e \in recorded /\ batch[m] # {}
  BY <1>1, <1>2, FirstFact DEF MirrorTrue
<1>4. PICK q \in Quotes : q = stream[e].q
  BY <1>1, <1>3, Facts
<1>5. stream[e].stage \in Stages \ {"absent"} /\ marker[q] \in Stages
  BY <1>1, <1>3, Facts
<1>6. /\ marker' = IF stream[e].quoted /\ Rank(marker[q]) <= Rank(stream[e].stage)
                   THEN [marker EXCEPT ![q] = stream[e].stage] ELSE marker
      /\ step' = [step EXCEPT ![m] = "ack"]
      /\ UNCHANGED <<ledger, group, batch, postgres, faults>>
  BY <1>2, <1>4 DEF Mark, MarkProjected
<1>7. UNCHANGED <<stream, stage, key, delivered, pending, batch, recorded, version, status,
                  keyState, faults>>
  BY <1>6 DEF ledger, group, postgres
<1>8. /\ marker' \in [Quotes -> Stages]
      /\ \A p \in Quotes \ {q} : marker'[p] = marker[p]
      /\ Rank(marker[q]) <= Rank(marker'[q])
      /\ stream[e].quoted => Rank(stream[e].stage) <= Rank(marker'[q])
      /\ marker'[q] = marker[q] \/ (stream[e].quoted /\ marker'[q] = stream[e].stage)
  <2>1. marker \in [Quotes -> Stages] /\ Rank(marker[q]) \in Nat /\ Rank(stream[e].stage) \in Nat
    BY <1>1, <1>5, RankFacts DEF TypeOK
  <2>2. QED
    BY <1>5, <1>6, <2>1
<1>9. TypeOK'
  BY <1>1, <1>6, <1>7, <1>8 DEF TypeOK, Positions
<1>10. StreamTrue' /\ RecordedTrue'
  BY <1>7 DEF ProjectionInv, StreamTrue, RecordedTrue, Covers, Positions
<1>11. ASSUME NEW p \in Quotes
       PROVE  (VersionTrue(p) /\ MarkerTrue(p) /\ RowTrue(p) /\ KeyTrue(p))'
  <2>1. VersionTrue(p) /\ MarkerTrue(p) /\ RowTrue(p) /\ KeyTrue(p)
    BY DEF ProjectionInv
  <2>2. stream[e].quoted => Covers(q, stream[e].stage)
    BY <1>3, <1>4 DEF ProjectionInv, RecordedTrue
  <2>3. MarkerTrue(p)'
    BY <1>7, <1>8, <2>1, <2>2 DEF MarkerTrue, Covers
  <2>4. QED
    BY <1>7, <2>1, <2>3 DEF VersionTrue, RowTrue, KeyTrue
<1>12. ASSUME NEW f \in Positions, Marked(f) PROVE Marked(f)'
  <2>1. stream[f].q \in Quotes /\ stream[f].stage \in Stages
    BY <1>1, Facts
  <2>2. Rank(marker[stream[f].q]) \in Nat /\ Rank(marker'[stream[f].q]) \in Nat
        /\ Rank(stream[f].stage) \in Nat
    BY <1>1, <1>9, <2>1, RankFacts DEF TypeOK
  <2>3. Rank(marker[stream[f].q]) <= Rank(marker'[stream[f].q])
    BY <1>8, <2>1, <2>2
  <2>4. QED
    BY <1>7, <1>12, <2>2, <2>3 DEF Marked
<1>13. ASSUME NEW n \in Mirrors PROVE MirrorTrue(n)'
  <2>1. CASE n = m
    <3>1. First(m)' = e
      BY <1>2, <1>7 DEF First
    <3>2. Marked(e)'
      BY <1>4, <1>7, <1>8 DEF Marked
    <3>3. QED
      BY <1>1, <1>3, <1>7, <2>1, <3>1, <3>2 DEF MirrorTrue
  <2>2. CASE n # m
    <3>1. batch'[n] = batch[n] /\ step'[n] = step[n] /\ MirrorTrue(n)
      BY <1>1, <1>6, <1>7, <2>2 DEF TypeOK, ProjectionInv
    <3>2. delivered' \in Nat /\ delivered <= delivered'
      BY <1>1, <1>7, Facts
    <3>3. QED
      BY <1>1, <1>7, <1>12, <3>1, <3>2, MirrorsKept
  <2>3. QED
    BY <2>1, <2>2
<1>14. DeliveredTrue'
  <2>1. Acknowledged' = Acknowledged /\ Acknowledged \subseteq Positions
    BY <1>1, <1>7, Facts DEF Acknowledged
  <2>2. QED
    BY <1>1, <1>7, <1>12, <2>1 DEF DeliveredTrue
<1>15. QED
  BY <1>9, <1>10, <1>11, <1>13, <1>14 DEF ProjectionInv

\* What an application of the event e does to the tables.
LEMMA ApplyFacts ==
    ASSUME ProjectionInv, NEW m \in Mirrors, Apply(m), NEW e, e = First(m)
    PROVE  /\ e \in batch[m] /\ e \in Positions /\ batch[m] # {}
           /\ recorded' = recorded \cup {e}
           /\ UNCHANGED <<stream, stage, key, delivered, pending, batch, marker, faults>>
           /\ step' = [step EXCEPT ![m] = "mark"]
           /\ \A q \in Quotes \ {stream[e].q} :
                  version'[q] = version[q] /\ status'[q] = status[q] /\ keyState'[q] = keyState[q]
           /\ version' \in [Quotes -> 0 .. Len(stream)] /\ status' \in [Quotes -> Statuses]
           /\ keyState' \in [Quotes -> KeyStates]
           /\ \/ UNCHANGED keyState
              \/ keyState'[stream[e].q] = stream[e].key
           /\ \/ /\ UNCHANGED <<version, status>>
                 /\ e \in recorded \/ ~stream[e].quoted \/ Stale(e)
              \/ /\ stream[e].quoted /\ ~Stale(e)
                 /\ version[stream[e].q] # 0 =>
                        ~(Rank(stream[e].stage) < Rank(stream[version[stream[e].q]].stage))
                 /\ Projected(e) # "conflict"
                 /\ status'[stream[e].q] = Projected(e)
                 /\ version'[stream[e].q] = e
<1>1. TypeOK /\ MirrorTrue(m)
  BY DEF ProjectionInv
<1>2. e \in batch[m] /\ e \in Positions /\ batch[m] # {}
  BY <1>1, FirstFact DEF Apply
<1>3. /\ UNCHANGED <<stream, stage, key, delivered, pending, batch, marker, faults>>
      /\ step' = [step EXCEPT ![m] = "mark"]
      /\ ApplyDuplicate(e) \/ ApplyStale(e) \/ ApplyQuote(e) \/ ApplyKey(e)
  BY DEF Apply, ledger, group
<1>4. PICK q \in Quotes : q = stream[e].q
  BY <1>1, <1>2, Facts
<1>5. /\ stream[e].key \in KeyStates /\ stream[e].stage \in Stages \ {"absent"}
      /\ e \in 0 .. Len(stream)
  BY <1>1, <1>2, Facts
<1>6. /\ version \in [Quotes -> 0 .. Len(stream)] /\ status \in [Quotes -> Statuses]
      /\ keyState \in [Quotes -> KeyStates]
  BY <1>1 DEF TypeOK
<1>7. ASSUME ProjectKey(e)
      PROVE  /\ keyState' \in [Quotes -> KeyStates]
             /\ \A p \in Quotes \ {q} : keyState'[p] = keyState[p]
             /\ keyState' = keyState \/ keyState'[q] = stream[e].key
  BY <1>4, <1>5, <1>6, <1>7 DEF ProjectKey
<1>8. CASE ApplyDuplicate(e) \/ ApplyStale(e)
  BY <1>2, <1>3, <1>6, <1>8 DEF ApplyDuplicate, ApplyStale, postgres
<1>9. CASE ApplyKey(e)
  BY <1>2, <1>3, <1>4, <1>6, <1>7, <1>9 DEF ApplyKey
<1>10. CASE ApplyQuote(e)
  <2>1. /\ stream[e].quoted /\ ~Stale(e) /\ e \notin recorded /\ ~Conflicts(e)
        /\ status' = [status EXCEPT ![q] = Projected(e)]
        /\ version' = [version EXCEPT ![q] = e]
        /\ recorded' = recorded \cup {e} /\ ProjectKey(e)
    BY <1>4, <1>10 DEF ApplyQuote
  <2>2. /\ version[q] # 0 => ~(Rank(stream[e].stage) < Rank(stream[version[q]].stage))
        /\ Projected(e) # "conflict"
    BY <1>4, <2>1 DEF Conflicts
  <2>3. Projected(e) \in Statuses
    <3>1. \A s \in Stages : Prepared(q, s) \in Statuses \cup {"conflict"}
      BY <1>6 DEF Prepared, Statuses
    <3>2. QED
      BY <1>4, <1>5, <2>2, <3>1 DEF Projected, Statuses, Stages
  <2>4. /\ status' \in [Quotes -> Statuses] /\ version' \in [Quotes -> 0 .. Len(stream)]
        /\ status'[q] = Projected(e) /\ version'[q] = e
        /\ \A p \in Quotes \ {q} : version'[p] = version[p] /\ status'[p] = status[p]
    BY <1>5, <1>6, <2>1, <2>3
  <2>5. QED
    BY <1>2, <1>3, <1>4, <1>7, <2>1, <2>2, <2>4
<1>11. QED
  BY <1>3, <1>8, <1>9, <1>10

LEMMA ApplyKeeps ==
    ASSUME ProjectionInv, NEW m \in Mirrors, Apply(m)
    PROVE  ProjectionInv'
<1>1. TypeOK /\ MirrorTrue(m) /\ DeliveredTrue /\ StreamTrue
  BY DEF ProjectionInv
<1>2. PICK e : e = First(m)
  OBVIOUS
<1>3. /\ e \in batch[m] /\ e \in Positions /\ batch[m] # {}
      /\ recorded' = recorded \cup {e}
      /\ UNCHANGED <<stream, stage, key, delivered, pending, batch, marker, faults>>
      /\ step' = [step EXCEPT ![m] = "mark"]
  BY <1>2, ApplyFacts
<1>4. PICK q \in Quotes : q = stream[e].q
  BY <1>1, <1>3, Facts
<1>5. /\ \A p \in Quotes \ {q} :
             version'[p] = version[p] /\ status'[p] = status[p] /\ keyState'[p] = keyState[p]
      /\ version' \in [Quotes -> 0 .. Len(stream)] /\ status' \in [Quotes -> Statuses]
      /\ keyState' \in [Quotes -> KeyStates]
      /\ keyState' = keyState \/ keyState'[q] = stream[e].key
  BY <1>2, <1>4, ApplyFacts
<1>6. \/ /\ version' = version /\ status' = status
         /\ e \in recorded \/ ~stream[e].quoted \/ Stale(e)
      \/ /\ stream[e].quoted /\ ~Stale(e)
         /\ version[q] # 0 => ~(Rank(stream[e].stage) < Rank(stream[version[q]].stage))
         /\ Projected(e) # "conflict"
         /\ status'[q] = Projected(e) /\ version'[q] = e
  BY <1>2, <1>4, ApplyFacts
<1>7. /\ e \in Nat /\ e # 0 /\ stream[e].stage \in Stages \ {"absent"}
      /\ version[q] # 0 => /\ version[q] \in Positions /\ stream[version[q]].q = q
                           /\ stream[version[q]].quoted
                           /\ stream[version[q]].stage \in Stages \ {"absent"}
  BY <1>1, <1>3, Facts DEF ProjectionInv, VersionTrue
<1>8. TypeOK'
  BY <1>1, <1>3, <1>5 DEF TypeOK, Positions
<1>9. StreamTrue'
  BY <1>1, <1>3 DEF StreamTrue, Positions
\* No version goes back.
<1>10. ASSUME NEW p \in Quotes, NEW s \in Stages, Covers(p, s) PROVE Covers(p, s)'
  <2>1. CASE version'[p] = version[p]
    BY <1>3, <1>10, <2>1 DEF Covers
  <2>2. CASE p = q /\ version'[q] = e
    <3>1. /\ Rank(s) \in Nat /\ Rank(stream[e].stage) \in Nat
          /\ Rank(stream[version[q]].stage) \in Nat
      BY <1>7, <1>10, <2>2, RankFacts DEF Covers
    <3>2. CASE version'[q] = version[q]
      BY <2>1, <2>2, <3>2
    <3>3. CASE version'[q] # version[q]
      <4>1. ~(Rank(stream[e].stage) < Rank(stream[version[q]].stage))
        BY <1>6, <1>10, <2>2, <3>3 DEF Covers
      <4>2. QED
        BY <1>3, <1>7, <1>10, <2>2, <3>1, <4>1 DEF Covers
    <3>4. QED
      BY <3>2, <3>3
  <2>3. QED
    BY <1>5, <1>6, <2>1, <2>2
<1>11. stream[e].quoted => Covers(q, stream[e].stage)'
  <2> SUFFICES ASSUME stream[e].quoted PROVE Covers(q, stream[e].stage)'
    OBVIOUS
  <2>1. CASE version'[q] = e
    <3>1. Rank(stream[e].stage) \in Nat
      BY <1>7, RankFacts
    <3>2. QED
      BY <1>3, <1>7, <2>1, <3>1 DEF Covers
  <2>2. CASE version' = version /\ e \in recorded
    BY <1>3, <1>4, <2>2 DEF ProjectionInv, RecordedTrue, Covers
  <2>3. CASE version' = version /\ Stale(e)
    <3>1. version[q] # 0 /\ e <= version[q]
      BY <1>4, <2>3 DEF Stale
    <3>2. CASE e = version[q]
      BY <2>1, <2>3, <3>2
    <3>3. CASE e < version[q]
      <4>1. stream[e].stage = "authorized" /\ stream[version[q]].stage \in {"finalized", "failed"}
        BY <1>1, <1>3, <1>4, <1>7, <3>1, <3>3 DEF StreamTrue
      <4>2. QED
        BY <1>3, <2>3, <3>1, <4>1, RankFacts DEF Covers
    <3>4. QED
      BY <1>7, <3>1, <3>2, <3>3, Facts, <1>1
  <2>4. QED
    BY <1>6, <2>1, <2>2, <2>3
<1>12. RecordedTrue'
  <2> SUFFICES ASSUME NEW f \in recorded', stream[f].quoted
               PROVE  Covers(stream[f].q, stream[f].stage)'
    BY <1>3 DEF RecordedTrue
  <2>1. CASE f = e
    BY <1>3, <1>4, <1>11, <2>1 DEF Covers
  <2>2. CASE f \in recorded
    <3>1. stream[f].q \in Quotes /\ stream[f].stage \in Stages
      BY <1>1, <2>2, Facts
    <3>2. Covers(stream[f].q, stream[f].stage)
      BY <2>2 DEF ProjectionInv, RecordedTrue
    <3>3. PICK p \in Quotes, s \in Stages : p = stream[f].q /\ s = stream[f].stage
      BY <3>1
    <3>4. Covers(p, s)'
      BY <1>10, <3>2, <3>3
    <3>5. QED
      BY <1>3, <3>3, <3>4 DEF Covers
  <2>3. QED
    BY <1>3, <2>1, <2>2
<1>13. ASSUME NEW p \in Quotes PROVE VersionTrue(p)'
  BY <1>3, <1>4, <1>5, <1>6 DEF ProjectionInv, VersionTrue
<1>14. ASSUME NEW p \in Quotes PROVE MarkerTrue(p)'
  <2>1. marker[p] \in Stages /\ MarkerTrue(p)
    BY <1>1, Facts DEF ProjectionInv
  <2>2. PICK s \in Stages : s = marker[p]
    BY <2>1
  <2>3. s # "absent" => Covers(p, s)'
    BY <1>10, <2>1, <2>2 DEF MarkerTrue
  <2>4. QED
    BY <1>3, <2>2, <2>3 DEF MarkerTrue, Covers
<1>15. ASSUME NEW p \in Quotes PROVE KeyTrue(p)'
  <2>1. KeyTrue(p)
    BY DEF ProjectionInv
  <2>2. stream[e].key \in Final => stream[e].key = key[q]
    BY <1>1, <1>3, <1>4 DEF StreamTrue
  <2>3. QED
    BY <1>3, <1>5, <2>1, <2>2 DEF KeyTrue
<1>16. RowTrue(q)'
  <2>1. RowTrue(q)
    BY DEF ProjectionInv
  <2>2. CASE version' = version /\ status' = status
    BY <1>3, <2>1, <2>2 DEF RowTrue
  <2>3. CASE /\ stream[e].quoted /\ ~Stale(e) /\ Projected(e) # "conflict"
             /\ status'[q] = Projected(e) /\ version'[q] = e
    <3>1. version[q] # 0 => stream[e].stage \in {"finalized", "failed"}
      <4>1. version[q] # 0 => version[q] < e
        BY <1>1, <1>4, <1>7, <2>3, Facts DEF Stale
      <4>2. QED
        BY <1>1, <1>3, <1>4, <1>7, <2>3, <4>1 DEF StreamTrue
    <3>2. version[q] = 0 => status[q] = "absent"
      BY <2>1 DEF RowTrue, StatusesOf
    <3>3. status'[q] \in StatusesOf(stream[e].stage)
      BY <1>4, <1>7, <2>3, <3>1, <3>2 DEF Projected, Prepared, StatusesOf, Stages
    <3>4. QED
      BY <1>3, <1>7, <2>3, <3>3 DEF RowTrue
  <2>4. QED
    BY <1>6, <2>2, <2>3
<1>17. ASSUME NEW p \in Quotes PROVE RowTrue(p)'
  BY <1>3, <1>5, <1>16 DEF ProjectionInv, RowTrue
<1>18. \A f : Marked(f)' = Marked(f)
  BY <1>3 DEF Marked
<1>19. ASSUME NEW n \in Mirrors PROVE MirrorTrue(n)'
  <2>1. CASE n = m
    <3>1. First(m)' = e /\ step'[m] = "mark"
      BY <1>1, <1>2, <1>3 DEF First, TypeOK
    <3>2. QED
      BY <1>1, <1>3, <2>1, <3>1 DEF MirrorTrue
  <2>2. CASE n # m
    <3>1. batch'[n] = batch[n] /\ step'[n] = step[n] /\ MirrorTrue(n)
      BY <1>1, <1>3, <2>2 DEF TypeOK, ProjectionInv
    <3>2. delivered' \in Nat /\ delivered <= delivered' /\ recorded \subseteq recorded'
      BY <1>1, <1>3, Facts
    <3>3. QED
      BY <1>1, <1>18, <3>1, <3>2, MirrorsKept
  <2>3. QED
    BY <2>1, <2>2
<1>20. DeliveredTrue'
  BY <1>1, <1>3, <1>18 DEF DeliveredTrue, Acknowledged
<1>21. QED
  BY <1>8, <1>9, <1>12, <1>13, <1>14, <1>15, <1>17, <1>19, <1>20 DEF ProjectionInv

-----------------------------------------------------------------------------
(* The theorems.                                                           *)

LEMMA InitEstablishes == Init => ProjectionInv
<1> SUFFICES ASSUME Init PROVE ProjectionInv
  OBVIOUS
<1>1. stream = <<>> /\ Len(stream) = 0 /\ Positions = {} /\ delivered = 0
  BY DEF Init, Positions
<1>2. TypeOK
  BY <1>1, ProjectionAssumption
     DEF Init, TypeOK, Stages, KeyStates, Statuses, ProjectionAssumption
<1>3. StreamTrue /\ RecordedTrue
  BY <1>1 DEF Init, StreamTrue, RecordedTrue
<1>4. \A q \in Quotes : VersionTrue(q) /\ MarkerTrue(q) /\ RowTrue(q) /\ KeyTrue(q)
  BY DEF Init, VersionTrue, MarkerTrue, RowTrue, KeyTrue, StatusesOf, Final
<1>5. \A m \in Mirrors : MirrorTrue(m)
  BY DEF Init, MirrorTrue
<1>6. DeliveredTrue
  BY <1>1 DEF Init, DeliveredTrue, Acknowledged
<1>7. QED
  BY <1>2, <1>3, <1>4, <1>5, <1>6 DEF ProjectionInv

LEMMA NextKeeps == ProjectionInv /\ [Next]_vars => ProjectionInv'
<1> SUFFICES ASSUME ProjectionInv, [Next]_vars PROVE ProjectionInv'
  OBVIOUS
<1>1. CASE UNCHANGED vars
  <2>1. /\ UNCHANGED <<ledger, recorded, version, keyState, marker>>
        /\ UNCHANGED <<stream, stage, key, delivered, pending, batch, step, status, faults>>
    BY <1>1 DEF vars, ledger, group, postgres
  <2>2. TypeOK'
    BY <2>1 DEF ProjectionInv, TypeOK, Positions
  <2>3. \A m \in Mirrors : MirrorTrue(m)'
    BY <2>1, PostgresKept DEF ProjectionInv, MirrorTrue, First
  <2>4. DeliveredTrue'
    BY <2>1, PostgresKept DEF ProjectionInv, DeliveredTrue, Acknowledged
  <2>5. QED
    BY <2>1, <2>2, <2>3, <2>4, PostgresKept DEF ProjectionInv
<1>2. ASSUME NEW q \in Quotes, Ledger(q) \/ MarkFailed(q) \/ Submit(q) \/ Expire(q)
      PROVE  ProjectionInv'
  BY <1>2, LedgerKeeps, StatusKeeps
<1>3. ASSUME NEW m \in Mirrors, Fetch(m) \/ Process(m) \/ Interrupt(m)
      PROVE  ProjectionInv'
  BY <1>3, FetchKeeps, ApplyKeeps, DropKeeps, MarkKeeps, AcknowledgeKeeps DEF Process
<1>4. QED
  BY <1>1, <1>2, <1>3 DEF Next

LEMMA Invariance == Spec => []ProjectionInv
BY InitEstablishes, NextKeeps, PTL DEF Spec

\* Every state is of the types the module declares, the positions of the
\* stream that mirrors, rows and the group hold included.
THEOREM ProjectionTypes == Spec => []TypeOK
<1>1. ProjectionInv => TypeOK
  BY DEF ProjectionInv
<1>2. QED
  BY <1>1, Invariance, PTL

\* XACK follows the transaction of applyMirrored: an event that left the
\* pending entries is in quote_issuance_journal_events, however many mirrors
\* crash, claim each other's entries and apply them twice.
THEOREM JournalIsComplete == Spec => []NothingLost
<1>1. ProjectionInv => NothingLost
  BY DEF ProjectionInv, DeliveredTrue, NothingLost
<1>2. QED
  BY <1>1, Invariance, PTL

\* markQuoteIssuanceProjectedScript runs after the transaction and never lowers
\* the marker: whoever waits for it finds a row at least as far.
THEOREM BarrierHolds == Spec => []MarkerIsBarrier
<1>1. ProjectionInv => MarkerIsBarrier
  BY DEF ProjectionInv, DeliveredTrue, MarkerTrue, Covers, Marked, MarkerIsBarrier
<1>2. QED
  BY <1>1, Invariance, PTL

\* Whatever the order of delivery, a row shows the stage of the newest event
\* applied to it unless a gateway marked it failed, and no key's row has a
\* verdict that the ledger has not.
THEOREM RowsShowTheLedger == Spec => []RowsAgree
<1>1. ProjectionInv => RowsAgree
  BY DEF ProjectionInv, RowTrue, KeyTrue, Final, RowsAgree
<1>2. QED
  BY <1>1, Invariance, PTL
=============================================================================
