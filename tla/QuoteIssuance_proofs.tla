------------------------ MODULE QuoteIssuance_proofs ------------------------
(***************************************************************************)
(* Proofs about QuoteIssuance for any set of requests and keys, any        *)
(* assignment of keys and payloads, and any interleaving of gateways,      *)
(* signer, lost answers, crashes and expired leases.                       *)
(***************************************************************************)
EXTENDS QuoteIssuance, TLAPS

\* What is bound to a key was minted for that key and its payload, and only a
\* key in progress has a live lease.
KeyRecords ==
    \A k \in Keys :
        /\ idem[k].state = "absent" => idem[k].quote = None
        /\ idem[k].live => idem[k].state = "processing"
        /\ idem[k].quote # None =>
               /\ KeyOf[idem[k].quote] = k
               /\ BodyOf[idem[k].quote] = idem[k].body

\* The two halves of KeyVerdict.
FinalizedHasKey ==
    \A q \in Requests :
        Keyed(q) /\ quote[q] = "finalized" =>
            /\ idem[KeyOf[q]].state = "succeeded"
            /\ idem[KeyOf[q]].quote = q

SucceededHasQuote ==
    \A k \in Keys :
        idem[k].state = "succeeded" =>
            /\ idem[k].quote # None
            /\ quote[idem[k].quote] = "finalized"

SignedIsFinal == \A q \in Requests : signer[q] = "signed" => quote[q] = "finalized"

AnsweredIsDone == \A r \in Requests : answer[r] # None => pc[r] = "done"

\* Exposure that was given back under an approved quote was given back after
\* the signer failed it; it holds only where the gateway stays with the signer.
GivenBack ==
    \A q \in Requests \ Leavers :
        quote[q] \in {"authorized", "finalized"} /\ q \notin reserved =>
            /\ quote[q] = "authorized"
            /\ signer[q] = "error"
            /\ pc[q] \in {"fail", "done", "crashed"}

RecoveryAfterSigner ==
    \A q \in Requests \ Leavers :
        /\ pc[q] = "recover" => signer[q] \in {"signed", "error"}
        /\ pc[q] = "release" => signer[q] = "error" /\ quote[q] # "finalized"

ExposureInv == GivenBack /\ RecoveryAfterSigner
-----------------------------------------------------------------------------
\* What the three ways to write a key's record leave in it.
LEMMA OwnedRecord ==
    ASSUME NEW record \in IdemRecord, NEW r \in Requests
    PROVE  /\ Owned(record, r) \in IdemRecord
           /\ Owned(record, r).state = "processing"
           /\ Owned(record, r).quote = record.quote
           /\ Owned(record, r).body = BodyOf[r]
  BY DEF Owned, IdemRecord, Bodies

LEMMA SettledRecord ==
    ASSUME NEW record \in IdemRecord, NEW verdict \in {"succeeded", "failed"}
    PROVE  /\ Settled(record, verdict) \in IdemRecord
           /\ Settled(record, verdict).state = verdict
           /\ Settled(record, verdict).quote = record.quote
           /\ Settled(record, verdict).body = record.body
           /\ Settled(record, verdict).live = FALSE
  BY DEF Settled, IdemRecord

LEMMA BoundRecord ==
    ASSUME NEW record \in IdemRecord, NEW q \in Requests
    PROVE  /\ BoundTo(record, q) \in IdemRecord
           /\ BoundTo(record, q).state = record.state
           /\ BoundTo(record, q).quote = q
           /\ BoundTo(record, q).body = record.body
           /\ BoundTo(record, q).live = record.live
  BY DEF BoundTo, IdemRecord

LEMMA LapsedRecord ==
    ASSUME NEW record \in IdemRecord
    PROVE  /\ Lapsed(record) \in IdemRecord
           /\ Lapsed(record).state = record.state
           /\ Lapsed(record).quote = record.quote
           /\ Lapsed(record).body = record.body
           /\ Lapsed(record).live = FALSE
  BY DEF Lapsed, IdemRecord

LEMMA KeyOfKeyed ==
    ASSUME NEW r \in Requests, Keyed(r)
    PROVE  KeyOf[r] \in Keys
  BY IssuanceAssumption DEF Keyed

LEMMA TypeStep ==
    ASSUME TypeOK, [Next]_vars
    PROVE  TypeOK'
<1> USE DEF TypeOK, Stages, Steps, SignerStates, ledger
<1>b. ASSUME NEW r \in Requests, Bind(r) PROVE idem' \in [Keys -> IdemRecord]
  BY <1>b, KeyOfKeyed, BoundRecord DEF Bind
<1>1. ASSUME NEW r \in Requests, Acquire(r) PROVE TypeOK'
  <2> DEFINE k == KeyOf[r]
  <2>1. k \in Keys /\ idem[k] \in IdemRecord
    BY <1>1, KeyOfKeyed DEF Acquire
  <2>2. Owned(idem[k], r) \in IdemRecord
    BY <2>1, OwnedRecord
  <2>3. idem[k].quote \in Requests \cup {None} /\ idem[k].owner \in Requests \cup {None}
    BY <2>1 DEF IdemRecord
  <2>4. CASE Claim(r, k)
    BY <2>1, <2>2, <2>4 DEF Claim, Goto
  <2>5. CASE AcquireReplay(r, k) \/ AcquireRefused(r, k) \/ AcquireExpired(r, k)
    BY <2>3, <2>5 DEF AcquireReplay, AcquireRefused, AcquireExpired, Goto, Finish
  <2> QED
    BY <1>1, <2>4, <2>5 DEF Acquire, AcquireFresh, AcquireReclaim
<1>2. ASSUME NEW r \in Requests, StartKeyless(r) PROVE TypeOK'
  BY <1>2 DEF StartKeyless, Goto
<1>3. ASSUME NEW r \in Requests, PreAuthorizationFailure(r) PROVE TypeOK'
  BY <1>3, <1>b DEF PreAuthorizationFailure, Goto
<1>4. ASSUME NEW r \in Requests, RejectByRisk(r) PROVE TypeOK'
  BY <1>4 DEF RejectByRisk, Goto
<1>5. ASSUME NEW r \in Requests, StartAdmission(r) PROVE TypeOK'
  BY <1>5 DEF StartAdmission, Goto
<1>6. ASSUME NEW r \in Requests, Admitted(r) PROVE TypeOK'
  BY <1>6, <1>b DEF Admitted, ApplyAdmission, DuplicateAdmission, RequestSignature, Goto
<1>7. ASSUME NEW r \in Requests, AdmissionResent(r) PROVE TypeOK'
  BY <1>7, <1>b DEF AdmissionResent, ApplyAdmission
<1>8. ASSUME NEW r \in Requests, AdmissionLimit(r) PROVE TypeOK'
  BY <1>8 DEF AdmissionLimit, Goto
<1>9. ASSUME NEW r \in Requests, AdmissionError(r) PROVE TypeOK'
  BY <1>9, <1>b DEF AdmissionError, ApplyAdmission, Goto
<1>10. ASSUME NEW r \in Requests, Decline(r) PROVE TypeOK'
  BY <1>10, <1>b DEF Decline, Goto
<1>11. ASSUME NEW r \in Requests, TakeSignature(r) PROVE TypeOK'
  BY <1>11 DEF TakeSignature, Goto, Finish
<1>12. ASSUME NEW r \in Requests, SignerUnavailable(r) PROVE TypeOK'
  BY <1>12 DEF SignerUnavailable, Goto
<1>13. ASSUME NEW r \in Requests, LeaveSigner(r) PROVE TypeOK'
  BY <1>13 DEF LeaveSigner, Goto
<1>14. ASSUME NEW r \in Requests, Recover(r) PROVE TypeOK'
  BY <1>14 DEF Recover, Goto, Finish
<1>15. ASSUME NEW r \in Requests, Release(r) PROVE TypeOK'
  BY <1>15 DEF Release, Goto
<1>16. ASSUME NEW r \in Requests, Fail(r) PROVE TypeOK'
  <2> DEFINE k == KeyOf[r]
  <2>1. CASE Keyed(r) /\ FailKey(r, k)
    <3>1. k \in Keys /\ idem[k] \in IdemRecord
      BY <2>1, KeyOfKeyed
    <3>2. Settled(idem[k], "failed") \in IdemRecord
      BY <3>1, SettledRecord
    <3>3. idem' \in [Keys -> IdemRecord] /\ quote' \in [Requests -> Stages]
      BY <2>1, <3>1, <3>2 DEF FailKey
    <3> QED
      BY <1>16, <3>3 DEF Fail, Goto, Finish
  <2>2. CASE UNCHANGED <<idem, quote>>
    BY <1>16, <2>2 DEF Fail, Goto, Finish
  <2> QED
    BY <1>16, <2>1, <2>2 DEF Fail
<1>17. ASSUME NEW r \in Requests, Authorize(r) PROVE TypeOK'
  BY <1>17 DEF Authorize
<1>18. ASSUME NEW r \in Requests, SignerFail(r) PROVE TypeOK'
  BY <1>18 DEF SignerFail
<1>19. ASSUME NEW r \in Requests, Commit(r) PROVE TypeOK'
  <2>1. ASSUME Keyed(r)
        PROVE  /\ KeyOf[r] \in Keys
               /\ Settled(idem[KeyOf[r]], "succeeded") \in IdemRecord
    BY <2>1, KeyOfKeyed, SettledRecord
  <2> QED
    BY <1>19, <2>1, KeyOfKeyed DEF Commit, ApplyCommit
<1>20. ASSUME NEW r \in Requests, CommitAgain(r) PROVE TypeOK'
  BY <1>20 DEF CommitAgain
<1>21. ASSUME NEW r \in Requests, CrashGateway(r) PROVE TypeOK'
  BY <1>21 DEF CrashGateway, Goto
<1>22. ASSUME NEW k \in Keys, ExpireLease(k) PROVE TypeOK'
  BY <1>22, LapsedRecord DEF ExpireLease
<1>23. CASE UNCHANGED vars
  BY <1>23 DEF vars
<1> QED
  BY <1>1, <1>2, <1>3, <1>4, <1>5, <1>6, <1>7, <1>8, <1>9, <1>10, <1>11, <1>12, <1>13, <1>14, <1>15, <1>16, <1>17, <1>18, <1>19, <1>20, <1>21, <1>22, <1>23 DEF Next, Gateway, Signer
-----------------------------------------------------------------------------
(* The five ways a step writes the ledger.  Every action writes it in one  *)
(* of them or not at all.                                                  *)

Claims(r) ==
    /\ Keyed(r)
    /\ idem[KeyOf[r]].state \in {"absent", "processing"}
    /\ idem[KeyOf[r]].state = "processing" => idem[KeyOf[r]].quote = None
    /\ idem' = [idem EXCEPT ![KeyOf[r]] = Owned(@, r)]
    /\ quote' = quote

Binds(r) ==
    /\ MayBind(r)
    /\ Bind(r)
    /\ \/ quote' = quote
       \/ /\ quote[r] = "absent"
          /\ \E stage \in {"authorized", "declined"} :
                 quote' = [quote EXCEPT ![r] = stage]

FailsKey(r) == Keyed(r) /\ FailKey(r, KeyOf[r])

Lapses(k) ==
    /\ idem[k].live
    /\ idem' = [idem EXCEPT ![k] = Lapsed(@)]
    /\ quote' = quote

LEMMA LedgerWrites ==
    ASSUME TypeOK, [Next]_vars
    PROVE  \/ UNCHANGED <<idem, quote>>
           \/ \E r \in Requests :
                  Claims(r) \/ Binds(r) \/ ApplyCommit(r) \/ FailsKey(r)
           \/ \E k \in Keys : Lapses(k)
<1>1. ASSUME NEW r \in Requests, Acquire(r)
      PROVE  Claims(r) \/ UNCHANGED <<idem, quote>>
  BY <1>1 DEF Acquire, AcquireFresh, AcquireReclaim, AcquireReplay, AcquireRefused,
              AcquireExpired, Claim, Claims, ledger
<1>2. ASSUME NEW r \in Requests, PreAuthorizationFailure(r)
      PROVE  Binds(r) \/ UNCHANGED <<idem, quote>>
  BY <1>2 DEF PreAuthorizationFailure, Binds
<1>3. ASSUME NEW r \in Requests, ApplyAdmission(r)
      PROVE  Binds(r)
  BY <1>3 DEF ApplyAdmission, Binds
<1>4. ASSUME NEW r \in Requests, Admitted(r) \/ AdmissionResent(r) \/ AdmissionError(r)
      PROVE  Binds(r) \/ UNCHANGED <<idem, quote>>
  BY <1>3, <1>4 DEF Admitted, DuplicateAdmission, AdmissionResent, AdmissionError, ledger
<1>5. ASSUME NEW r \in Requests, Decline(r)
      PROVE  Binds(r) \/ UNCHANGED <<idem, quote>>
  BY <1>5 DEF Decline, Binds
<1>6. ASSUME NEW r \in Requests, Fail(r)
      PROVE  FailsKey(r) \/ UNCHANGED <<idem, quote>>
  BY <1>6 DEF Fail, FailsKey
<1>7. ASSUME NEW r \in Requests, Commit(r)
      PROVE  ApplyCommit(r)
  BY <1>7 DEF Commit
<1>8. ASSUME NEW r \in Requests,
             \/ StartKeyless(r) \/ RejectByRisk(r) \/ StartAdmission(r)
             \/ AdmissionLimit(r) \/ TakeSignature(r) \/ SignerUnavailable(r)
             \/ LeaveSigner(r) \/ Recover(r) \/ Release(r) \/ Authorize(r)
             \/ SignerFail(r) \/ CommitAgain(r) \/ CrashGateway(r)
      PROVE  UNCHANGED <<idem, quote>>
  BY <1>8 DEF StartKeyless, RejectByRisk, StartAdmission, AdmissionLimit, TakeSignature,
              SignerUnavailable, LeaveSigner, Recover, Release, Authorize, SignerFail,
              CommitAgain, CrashGateway, ledger
<1>9. ASSUME NEW k \in Keys, ExpireLease(k)
      PROVE  Lapses(k)
  BY <1>9 DEF ExpireLease, Lapses
<1>10. CASE UNCHANGED vars
  BY <1>10 DEF vars
<1> QED
  BY <1>1, <1>2, <1>4, <1>5, <1>6, <1>7, <1>8, <1>9, <1>10 DEF Next, Gateway, Signer

-----------------------------------------------------------------------------

LedgerCore == TypeOK /\ KeyRecords /\ FinalizedHasKey /\ SucceededHasQuote

LEMMA CoreStep ==
    ASSUME LedgerCore, [Next]_vars
    PROVE  LedgerCore'
<1> USE DEF LedgerCore
<1>t. TypeOK'
  BY TypeStep
<1>f. idem \in [Keys -> IdemRecord] /\ quote \in [Requests -> Stages]
  BY DEF TypeOK
<1>n. None \notin Requests
  BY IssuanceAssumption
<1>q. \A k \in Keys : idem[k].quote \in Requests \cup {None}
  BY <1>f DEF IdemRecord
<1>1. ASSUME NEW r \in Requests, Claims(r)
      PROVE  (KeyRecords /\ FinalizedHasKey /\ SucceededHasQuote)'
  <2>1. KeyOf[r] \in Keys /\ idem[KeyOf[r]] \in IdemRecord
    BY <1>1, <1>f, KeyOfKeyed DEF Claims
  <2>2. /\ Owned(idem[KeyOf[r]], r).state = "processing"
        /\ Owned(idem[KeyOf[r]], r).quote = None
    BY <1>1, <2>1, OwnedRecord DEF Claims, KeyRecords
  <2>3. KeyRecords'
    BY <1>1, <1>f, <2>1, <2>2 DEF Claims, KeyRecords
  <2>4. FinalizedHasKey'
    BY <1>1, <1>f, <2>1 DEF Claims, FinalizedHasKey
  <2>5. SucceededHasQuote'
    BY <1>1, <1>f, <2>1, <2>2 DEF Claims, SucceededHasQuote
  <2> QED
    BY <2>3, <2>4, <2>5
<1>2. ASSUME NEW r \in Requests, Binds(r)
      PROVE  (KeyRecords /\ FinalizedHasKey /\ SucceededHasQuote)'
  <2>1. \A q \in Requests : quote'[q] = "finalized" <=> quote[q] = "finalized"
    BY <1>2, <1>f DEF Binds
  <2>2. CASE Keyed(r)
    <3>1. KeyOf[r] \in Keys /\ idem[KeyOf[r]] \in IdemRecord
      BY <2>2, <1>f, KeyOfKeyed
    <3>2. /\ idem[KeyOf[r]].state = "processing"
          /\ idem[KeyOf[r]].body = BodyOf[r]
          /\ idem' = [idem EXCEPT ![KeyOf[r]] = BoundTo(@, r)]
      BY <1>2, <2>2 DEF Binds, MayBind, Owns, Bind
    <3>3. /\ idem'[KeyOf[r]].state = "processing"
          /\ idem'[KeyOf[r]].quote = r
          /\ idem'[KeyOf[r]].body = BodyOf[r]
          /\ \A k \in Keys : k # KeyOf[r] => idem'[k] = idem[k]
      BY <1>f, <3>1, <3>2, BoundRecord
    <3>4. KeyRecords'
      BY <1>n, <3>1, <3>3 DEF KeyRecords
    <3>5. FinalizedHasKey'
      BY <2>1, <3>1, <3>2, <3>3, KeyOfKeyed DEF FinalizedHasKey
    <3>6. SucceededHasQuote'
      <4> SUFFICES ASSUME NEW k \in Keys, idem'[k].state = "succeeded"
                   PROVE  idem'[k].quote # None /\ quote'[idem'[k].quote] = "finalized"
        BY DEF SucceededHasQuote
      <4>1. idem'[k] = idem[k] /\ idem[k].quote \in Requests \cup {None}
        BY <1>f, <3>3 DEF IdemRecord
      <4> QED
        BY <2>1, <4>1 DEF SucceededHasQuote
    <3> QED
      BY <3>4, <3>5, <3>6
  <2>3. CASE ~Keyed(r)
    <3>1. idem' = idem
      BY <1>2, <2>3 DEF Binds, Bind
    <3> QED
      BY <1>q, <2>1, <3>1 DEF KeyRecords, FinalizedHasKey, SucceededHasQuote
  <2> QED
    BY <2>2, <2>3
<1>3. ASSUME NEW q \in Requests, ApplyCommit(q)
      PROVE  (KeyRecords /\ FinalizedHasKey /\ SucceededHasQuote)'
  <2>1. \A p \in Requests : p # q => quote'[p] = quote[p]
    BY <1>3, <1>f DEF ApplyCommit
  <2>2. quote'[q] = "finalized"
    BY <1>3, <1>f DEF ApplyCommit
  <2>3. CASE Keyed(q)
    <3>1. KeyOf[q] \in Keys /\ idem[KeyOf[q]] \in IdemRecord
      BY <2>3, <1>f, KeyOfKeyed
    <3>2. /\ idem[KeyOf[q]].state = "processing"
          /\ idem[KeyOf[q]].quote = q
          /\ idem' = [idem EXCEPT ![KeyOf[q]] = Settled(@, "succeeded")]
      BY <1>3, <2>3 DEF ApplyCommit, MayCommit, Owns
    <3>3. /\ idem'[KeyOf[q]].state = "succeeded"
          /\ idem'[KeyOf[q]].quote = q
          /\ idem'[KeyOf[q]].body = idem[KeyOf[q]].body
          /\ idem'[KeyOf[q]].live = FALSE
          /\ \A k \in Keys : k # KeyOf[q] => idem'[k] = idem[k]
      BY <1>f, <3>1, <3>2, SettledRecord
    <3>4. KeyRecords'
      BY <3>1, <3>2, <3>3 DEF KeyRecords
    <3>5. FinalizedHasKey'
      BY <2>1, <3>1, <3>2, <3>3, KeyOfKeyed DEF FinalizedHasKey
    <3>6. SucceededHasQuote'
      BY <1>n, <1>q, <2>1, <2>2, <3>1, <3>3 DEF SucceededHasQuote
    <3> QED
      BY <3>4, <3>5, <3>6
  <2>4. CASE ~Keyed(q)
    <3>1. idem' = idem
      BY <1>3, <2>4 DEF ApplyCommit
    <3> QED
      BY <1>q, <2>1, <2>2, <2>4, <3>1 DEF KeyRecords, FinalizedHasKey, SucceededHasQuote
  <2> QED
    BY <2>3, <2>4
<1>4. ASSUME NEW r \in Requests, FailsKey(r)
      PROVE  (KeyRecords /\ FinalizedHasKey /\ SucceededHasQuote)'
  <2>1. KeyOf[r] \in Keys /\ idem[KeyOf[r]] \in IdemRecord
    BY <1>4, <1>f, KeyOfKeyed DEF FailsKey
  <2>2. /\ idem[KeyOf[r]].state = "processing"
        /\ idem' = [idem EXCEPT ![KeyOf[r]] = Settled(@, "failed")]
    BY <1>4 DEF FailsKey, FailKey
  <2>3. /\ idem'[KeyOf[r]].state = "failed"
        /\ idem'[KeyOf[r]].quote = idem[KeyOf[r]].quote
        /\ idem'[KeyOf[r]].body = idem[KeyOf[r]].body
        /\ idem'[KeyOf[r]].live = FALSE
        /\ \A k \in Keys : k # KeyOf[r] => idem'[k] = idem[k]
    BY <1>f, <2>1, <2>2, SettledRecord
  <2>4. \A q \in Requests : quote'[q] = "finalized" <=> quote[q] = "finalized"
    BY <1>4, <1>f, <1>q, <2>1 DEF FailsKey, FailKey
  <2>5. KeyRecords'
    BY <2>1, <2>2, <2>3 DEF KeyRecords
  <2>6. FinalizedHasKey'
    BY <2>1, <2>2, <2>3, <2>4, KeyOfKeyed DEF FinalizedHasKey
  <2>7. SucceededHasQuote'
    BY <1>q, <2>3, <2>4 DEF SucceededHasQuote
  <2> QED
    BY <2>5, <2>6, <2>7
<1>5. ASSUME NEW k \in Keys, Lapses(k)
      PROVE  (KeyRecords /\ FinalizedHasKey /\ SucceededHasQuote)'
  <2>1. /\ idem'[k].state = idem[k].state
        /\ idem'[k].quote = idem[k].quote
        /\ idem'[k].body = idem[k].body
        /\ idem'[k].live = FALSE
        /\ \A j \in Keys : j # k => idem'[j] = idem[j]
        /\ quote' = quote
    BY <1>5, <1>f, LapsedRecord DEF Lapses
  <2> QED
    BY <2>1, KeyOfKeyed DEF KeyRecords, FinalizedHasKey, SucceededHasQuote
<1>6. CASE UNCHANGED <<idem, quote>>
  BY <1>t, <1>6 DEF KeyRecords, FinalizedHasKey, SucceededHasQuote
<1> QED
  BY <1>t, <1>1, <1>2, <1>3, <1>4, <1>5, <1>6, LedgerWrites

-----------------------------------------------------------------------------
LEMMA TerminalStep ==
    ASSUME LedgerCore, [Next]_vars
    PROVE  TerminalKept
<1> USE DEF LedgerCore
<1>f. /\ idem \in [Keys -> IdemRecord] /\ quote \in [Requests -> Stages]
      /\ \A k \in Keys : idem[k].quote \in Requests \cup {None}
  BY DEF TypeOK, IdemRecord
<1>1. ASSUME NEW r \in Requests, Claims(r) PROVE TerminalKept
  BY <1>1, <1>f, KeyOfKeyed DEF Claims, TerminalKept
<1>2. ASSUME NEW r \in Requests, Binds(r) PROVE TerminalKept
  BY <1>2, <1>f, KeyOfKeyed DEF Binds, Bind, MayBind, Owns, TerminalKept
<1>3. ASSUME NEW q \in Requests, ApplyCommit(q) PROVE TerminalKept
  BY <1>3, <1>f, KeyOfKeyed DEF ApplyCommit, MayCommit, Owns, TerminalKept
<1>4. ASSUME NEW r \in Requests, FailsKey(r) PROVE TerminalKept
  BY <1>4, <1>f, KeyOfKeyed DEF FailsKey, FailKey, TerminalKept
<1>5. ASSUME NEW k \in Keys, Lapses(k) PROVE TerminalKept
  BY <1>5, <1>f DEF Lapses, KeyRecords, TerminalKept
<1>6. CASE UNCHANGED <<idem, quote>>
  BY <1>6 DEF TerminalKept
<1> QED
  BY <1>1, <1>2, <1>3, <1>4, <1>5, <1>6, LedgerWrites

AnswerInv == SignedIsFinal /\ AnsweredIsDone /\ AnswersDurable

LEMMA AnswerStep ==
    ASSUME LedgerCore, AnswerInv, [Next]_vars
    PROVE  AnswerInv'
<1> USE DEF LedgerCore, AnswerInv
<1>f. /\ idem \in [Keys -> IdemRecord] /\ quote \in [Requests -> Stages]
      /\ pc \in [Requests -> Steps] /\ signer \in [Requests -> SignerStates]
      /\ answer \in [Requests -> Requests \cup {None}]
  BY DEF TypeOK
<1>s. \A q \in Requests : quote[q] = "finalized" => quote'[q] = "finalized"
  BY TerminalStep DEF TerminalKept
<1>n. None \notin Requests
  BY IssuanceAssumption
<1>1. ASSUME NEW r \in Requests, UNCHANGED <<signer, answer>>,
             pc[r] # "done", \A q \in Requests : q # r => pc'[q] = pc[q]
      PROVE  AnswerInv'
  BY <1>1, <1>s, <1>f, <1>n DEF SignedIsFinal, AnsweredIsDone, AnswersDurable
<1>2. ASSUME NEW r \in Requests, UNCHANGED answer, pc[r] # "done",
             \A q \in Requests : q # r => pc'[q] = pc[q],
             \A q \in Requests : signer'[q] = "signed" => signer[q] = "signed"
      PROVE  AnswerInv'
  BY <1>2, <1>s, <1>f, <1>n DEF SignedIsFinal, AnsweredIsDone, AnswersDurable
<1>3. ASSUME NEW r \in Requests, UNCHANGED signer, pc'[r] = "done",
             NEW q \in Requests, quote[q] = "finalized",
             KeyOf[q] = KeyOf[r], BodyOf[q] = BodyOf[r],
             answer' = [answer EXCEPT ![r] = q],
             \A p \in Requests : p # r => pc'[p] = pc[p]
      PROVE  AnswerInv'
  BY <1>3, <1>s, <1>f, <1>n DEF SignedIsFinal, AnsweredIsDone, AnswersDurable
<1>4. ASSUME NEW r \in Requests, Acquire(r) PROVE AnswerInv'
  <2>1. KeyOf[r] \in Keys /\ idem[KeyOf[r]].quote \in Requests \cup {None}
    BY <1>4, <1>f, KeyOfKeyed DEF Acquire, IdemRecord
  <2>2. CASE AcquireReplay(r, KeyOf[r])
    <3> DEFINE q == idem[KeyOf[r]].quote
    <3>1. /\ q \in Requests /\ quote[q] = "finalized"
          /\ KeyOf[q] = KeyOf[r] /\ BodyOf[q] = BodyOf[r]
      BY <2>1, <2>2 DEF AcquireReplay, KeyRecords, SucceededHasQuote
    <3> QED
      BY <1>3, <1>f, <2>2, <3>1 DEF AcquireReplay, Finish, Goto
  <2>3. CASE ~AcquireReplay(r, KeyOf[r])
    <3>1. /\ UNCHANGED <<signer, answer>> /\ pc[r] # "done"
          /\ \A q \in Requests : q # r => pc'[q] = pc[q]
      BY <1>4, <1>f, <2>3 DEF Acquire, AcquireFresh, AcquireReclaim, AcquireRefused,
                              AcquireExpired, Claim, Finish, Goto
    <3> QED
      BY <1>1, <3>1
  <2> QED
    BY <2>2, <2>3
<1>5. ASSUME NEW r \in Requests,
             \/ StartKeyless(r) \/ PreAuthorizationFailure(r) \/ RejectByRisk(r)
             \/ AdmissionResent(r) \/ AdmissionLimit(r) \/ AdmissionError(r)
             \/ Decline(r) \/ SignerUnavailable(r) \/ LeaveSigner(r)
             \/ Release(r) \/ Fail(r) \/ CrashGateway(r)
      PROVE  AnswerInv'
  <2>1. /\ UNCHANGED <<signer, answer>> /\ pc[r] # "done"
        /\ \A q \in Requests : q # r => pc'[q] = pc[q]
    BY <1>5, <1>f DEF StartKeyless, PreAuthorizationFailure, RejectByRisk, AdmissionResent,
                      AdmissionLimit, AdmissionError, Decline, SignerUnavailable,
                      LeaveSigner, Release, Fail, CrashGateway, Goto, Finish
  <2> QED
    BY <1>1, <2>1
<1>6. ASSUME NEW r \in Requests, StartAdmission(r) \/ Admitted(r)
      PROVE  AnswerInv'
  <2>1. /\ UNCHANGED answer /\ pc[r] # "done"
        /\ \A q \in Requests : q # r => pc'[q] = pc[q]
        /\ \A q \in Requests : signer'[q] = "signed" => signer[q] = "signed"
    BY <1>6, <1>f DEF StartAdmission, Admitted, RequestSignature, Goto
  <2> QED
    BY <1>2, <2>1
<1>7. ASSUME NEW r \in Requests, TakeSignature(r)
      PROVE  AnswerInv'
  BY <1>3, <1>7, <1>f DEF TakeSignature, SignedIsFinal, Finish, Goto
<1>8. ASSUME NEW r \in Requests, Recover(r)
      PROVE  AnswerInv'
  <2>1. CASE quote[r] = "finalized" /\ answer' = [answer EXCEPT ![r] = r] /\ Finish(r)
    BY <1>3, <1>8, <1>f, <2>1 DEF Recover, Finish, Goto
  <2>2. CASE UNCHANGED answer
    BY <1>1, <1>8, <1>f, <2>2 DEF Recover, Finish, Goto
  <2> QED
    BY <1>8, <2>1, <2>2 DEF Recover
<1>9. ASSUME NEW q \in Requests,
             Authorize(q) \/ SignerFail(q) \/ Commit(q) \/ CommitAgain(q)
      PROVE  AnswerInv'
  <2>1. UNCHANGED <<answer, pc>>
    BY <1>9 DEF Authorize, SignerFail, Commit, CommitAgain
  <2>2. \A p \in Requests : p # q => signer'[p] = signer[p]
    BY <1>9, <1>f DEF Authorize, SignerFail, Commit, CommitAgain
  <2>3. signer'[q] = "signed" => quote'[q] = "finalized"
    BY <1>9, <1>f DEF Authorize, SignerFail, Commit, CommitAgain, ApplyCommit, ledger
  <2> QED
    BY <1>s, <1>f, <1>n, <2>1, <2>2, <2>3 DEF SignedIsFinal, AnsweredIsDone, AnswersDurable
<1>10. ASSUME UNCHANGED <<answer, pc, signer>>
       PROVE  AnswerInv'
  BY <1>10, <1>s, <1>f, <1>n DEF SignedIsFinal, AnsweredIsDone, AnswersDurable
<1>11. ASSUME NEW k \in Keys, ExpireLease(k)
       PROVE  AnswerInv'
  BY <1>10, <1>11 DEF ExpireLease
<1>12. CASE UNCHANGED vars
  BY <1>10, <1>12 DEF vars
<1> QED
  BY <1>4, <1>5, <1>6, <1>7, <1>8, <1>9, <1>11, <1>12 DEF Next, Gateway, Signer

LEMMA InitLedger == Init => LedgerCore /\ AnswerInv
  BY IssuanceAssumption
  DEF Init, LedgerCore, AnswerInv, TypeOK, IdemRecord, Stages, Steps, SignerStates, KeyRecords,
      FinalizedHasKey, SucceededHasQuote, SignedIsFinal, AnsweredIsDone, AnswersDurable

-----------------------------------------------------------------------------
LEMMA ExposureStep ==
    ASSUME LedgerCore, AnswerInv, ExposureInv, [Next]_vars
    PROVE  ExposureInv'
<1> SUFFICES ASSUME GivenBack, RecoveryAfterSigner
             PROVE  GivenBack' /\ RecoveryAfterSigner'
  BY DEF ExposureInv
<1>f. /\ quote \in [Requests -> Stages] /\ pc \in [Requests -> Steps]
      /\ signer \in [Requests -> SignerStates] /\ reserved \subseteq Requests
      /\ \A k \in Keys : idem[k].quote \in Requests \cup {None}
  BY DEF LedgerCore, TypeOK, IdemRecord
<1>s. \A q \in Requests : signer[q] = "signed" => quote[q] = "finalized"
  BY DEF AnswerInv, SignedIsFinal
<1> USE DEF GivenBack, RecoveryAfterSigner
<1>2. ASSUME NEW r \in Requests, Acquire(r)
      PROVE  GivenBack' /\ RecoveryAfterSigner'
  <2>1. /\ UNCHANGED <<quote, reserved, signer>>
        /\ pc[r] = "start" /\ pc'[r] \in {"price", "done", "expire"}
        /\ \A q \in Requests : q # r => pc'[q] = pc[q]
    BY <1>2, <1>f DEF Acquire, AcquireFresh, AcquireReclaim, AcquireReplay, AcquireRefused,
                      AcquireExpired, Claim, Finish, Goto, ledger
  <2> QED
    BY <2>1, <1>f
<1>3. ASSUME NEW r \in Requests,
             \/ StartKeyless(r) \/ PreAuthorizationFailure(r) \/ RejectByRisk(r)
             \/ AdmissionLimit(r) \/ TakeSignature(r)
      PROVE  GivenBack' /\ RecoveryAfterSigner'
  <2>1. /\ UNCHANGED <<quote, reserved, signer>>
        /\ pc[r] \in {"start", "price", "admit", "await"}
        /\ pc'[r] \in {"price", "fail", "decline", "done"}
        /\ \A q \in Requests : q # r => pc'[q] = pc[q]
    BY <1>3, <1>f DEF StartKeyless, PreAuthorizationFailure, RejectByRisk, AdmissionLimit,
                      TakeSignature, Finish, Goto, ledger
  <2> QED
    BY <2>1, <1>f
<1>4. ASSUME NEW r \in Requests, StartAdmission(r)
      PROVE  GivenBack' /\ RecoveryAfterSigner'
  <2>1. /\ UNCHANGED <<quote, reserved>> /\ pc[r] = "price" /\ pc'[r] = "admit"
        /\ \A q \in Requests : q # r => pc'[q] = pc[q] /\ signer'[q] = signer[q]
    BY <1>4, <1>f DEF StartAdmission, Goto, ledger
  <2> QED
    BY <2>1, <1>f
<1>5. ASSUME NEW r \in Requests, Admitted(r) \/ AdmissionResent(r) \/ AdmissionError(r)
      PROVE  GivenBack' /\ RecoveryAfterSigner'
  <2>1. /\ pc[r] = "admit" /\ pc'[r] \in {"admit", "await", "decline"}
        /\ \A q \in Requests : q # r => pc'[q] = pc[q] /\ signer'[q] = signer[q]
    BY <1>5, <1>f DEF Admitted, AdmissionResent, AdmissionError, RequestSignature, Goto
  <2>2. \/ UNCHANGED <<quote, reserved>>
        \/ quote' = [quote EXCEPT ![r] = "authorized"] /\ reserved' = reserved \cup {r}
    BY <1>5 DEF Admitted, AdmissionResent, AdmissionError, ApplyAdmission,
                DuplicateAdmission, ledger
  <2> QED
    BY <2>1, <2>2, <1>f
<1>6. ASSUME NEW r \in Requests, Decline(r)
      PROVE  GivenBack' /\ RecoveryAfterSigner'
  <2>1. /\ UNCHANGED <<reserved, signer>>
        /\ pc[r] = "decline" /\ pc'[r] \in {"fail", "await"}
        /\ \A q \in Requests : q # r => pc'[q] = pc[q]
        /\ quote' = quote \/ quote' = [quote EXCEPT ![r] = "declined"]
    BY <1>6, <1>f DEF Decline, Goto
  <2> QED
    BY <2>1, <1>f
<1>7. ASSUME NEW r \in Requests, SignerUnavailable(r) \/ LeaveSigner(r)
      PROVE  GivenBack' /\ RecoveryAfterSigner'
  <2>1. /\ UNCHANGED <<quote, reserved, signer>>
        /\ pc[r] = "await" /\ pc'[r] = "recover"
        /\ r \notin Leavers => signer[r] \in {"signed", "error"}
        /\ \A q \in Requests : q # r => pc'[q] = pc[q]
    BY <1>7, <1>f DEF SignerUnavailable, LeaveSigner, Goto, ledger
  <2> QED
    BY <2>1, <1>f
<1>8. ASSUME NEW r \in Requests, Recover(r)
      PROVE  GivenBack' /\ RecoveryAfterSigner'
  <2>1. /\ UNCHANGED <<quote, reserved, signer>>
        /\ pc[r] = "recover" /\ pc'[r] \in {"done", "release", "fail"}
        /\ pc'[r] = "release" => quote[r] # "finalized"
        /\ \A q \in Requests : q # r => pc'[q] = pc[q]
    BY <1>8, <1>f DEF Recover, Finish, Goto, ledger
  <2> QED
    BY <2>1, <1>f, <1>s
<1>9. ASSUME NEW r \in Requests, Release(r)
      PROVE  GivenBack' /\ RecoveryAfterSigner'
  <2>1. /\ UNCHANGED <<quote, signer>>
        /\ pc[r] = "release" /\ pc'[r] = "fail"
        /\ \A q \in Requests : q # r => pc'[q] = pc[q] /\ (q \in reserved' <=> q \in reserved)
    BY <1>9, <1>f DEF Release, Goto
  <2> QED
    BY <2>1, <1>f
<1>10. ASSUME NEW r \in Requests, Fail(r)
       PROVE  GivenBack' /\ RecoveryAfterSigner'
  <2>1. /\ UNCHANGED <<reserved, signer>>
        /\ pc[r] \in {"fail", "expire"} /\ pc'[r] = "done"
        /\ \A q \in Requests : q # r => pc'[q] = pc[q]
    BY <1>10, <1>f DEF Fail, Finish, Goto
  <2>2. \A q \in Requests : quote'[q] = quote[q] \/ quote'[q] = "failed"
    BY <1>10, <1>f, KeyOfKeyed DEF Fail, FailKey
  <2> QED
    BY <2>1, <2>2, <1>f
<1>11. ASSUME NEW q \in Requests,
              Authorize(q) \/ SignerFail(q) \/ Commit(q) \/ CommitAgain(q)
       PROVE  GivenBack' /\ RecoveryAfterSigner'
  <2>1. /\ UNCHANGED <<reserved, pc>> /\ signer[q] \in {"waiting", "signing"}
        /\ \A p \in Requests : p # q => signer'[p] = signer[p] /\ quote'[p] = quote[p]
    BY <1>11, <1>f DEF Authorize, SignerFail, Commit, CommitAgain, ApplyCommit, ledger
  <2>2. \/ quote'[q] = quote[q]
        \/ quote[q] = "authorized" /\ quote'[q] = "finalized"
    BY <1>11, <1>f DEF Authorize, SignerFail, Commit, CommitAgain, ApplyCommit, MayCommit, ledger
  <2> QED
    BY <2>1, <2>2, <1>f
<1>12. ASSUME NEW r \in Requests, CrashGateway(r)
       PROVE  GivenBack' /\ RecoveryAfterSigner'
  <2>1. /\ UNCHANGED <<quote, reserved, signer>> /\ pc'[r] = "crashed"
        /\ \A q \in Requests : q # r => pc'[q] = pc[q]
    BY <1>12, <1>f DEF CrashGateway, Goto, ledger
  <2> QED
    BY <2>1, <1>f
<1>13. CASE UNCHANGED vars \/ \E k \in Keys : ExpireLease(k)
  BY <1>13 DEF vars, ExpireLease
<1> QED
  BY <1>2, <1>3, <1>4, <1>5, <1>6, <1>7, <1>8, <1>9, <1>10, <1>11, <1>12, <1>13
  DEF Next, Gateway, Signer

-----------------------------------------------------------------------------
(* A step maps to a step of OnceOnlyIssuance or to a stutter.              *)

LEMMA AnswerWrites ==
    ASSUME LedgerCore, AnswerInv, [Next]_vars
    PROVE  \/ UNCHANGED answer
           \/ /\ UNCHANGED <<idem, quote>>
              /\ \E r, q \in Requests : OnceOnly!Answer(r, q)
<1>f. /\ idem \in [Keys -> IdemRecord] /\ quote \in [Requests -> Stages]
      /\ \A k \in Keys : idem[k].quote \in Requests \cup {None}
  BY DEF LedgerCore, TypeOK, IdemRecord
<1>1. ASSUME NEW r \in Requests, NEW q \in Requests,
             UNCHANGED <<idem, quote>>, pc[r] # "done", quote[q] = "finalized",
             OnceOnly!SharesKey(r, q), BodyOf[r] = BodyOf[q],
             answer' = [answer EXCEPT ![r] = q]
      PROVE  OnceOnly!Answer(r, q)
  BY <1>1 DEF OnceOnly!Answer, AnswerInv, AnsweredIsDone
<1>2. ASSUME NEW r \in Requests, AcquireReplay(r, KeyOf[r]), Acquire(r)
      PROVE  UNCHANGED <<idem, quote>> /\ OnceOnly!Answer(r, idem[KeyOf[r]].quote)
  <2> DEFINE q == idem[KeyOf[r]].quote
  <2>1. KeyOf[r] \in Keys
    BY <1>2, KeyOfKeyed DEF Acquire
  <2>2. /\ q \in Requests /\ quote[q] = "finalized"
        /\ KeyOf[q] = KeyOf[r] /\ BodyOf[q] = BodyOf[r]
    BY <1>2, <1>f, <2>1 DEF AcquireReplay, LedgerCore, KeyRecords, SucceededHasQuote
  <2>3. OnceOnly!SharesKey(r, q)
    BY <1>2, <2>2 DEF OnceOnly!SharesKey, Acquire, Keyed
  <2> QED
    BY <1>1, <1>2, <2>2, <2>3 DEF Acquire, AcquireReplay, ledger
<1>3. ASSUME NEW r \in Requests, Acquire(r), ~AcquireReplay(r, KeyOf[r])
      PROVE  UNCHANGED answer
  BY <1>3 DEF Acquire, AcquireFresh, AcquireReclaim, AcquireRefused, AcquireExpired, Claim
<1>4. ASSUME NEW r \in Requests, TakeSignature(r) \/ Recover(r)
      PROVE  \/ UNCHANGED answer
             \/ UNCHANGED <<idem, quote>> /\ OnceOnly!Answer(r, r)
  <2>1. OnceOnly!SharesKey(r, r)
    BY DEF OnceOnly!SharesKey
  <2> QED
    BY <1>1, <1>4, <2>1 DEF TakeSignature, Recover, AnswerInv, SignedIsFinal, ledger
<1>5. ASSUME NEW r \in Requests,
             \/ StartKeyless(r) \/ PreAuthorizationFailure(r) \/ RejectByRisk(r)
             \/ StartAdmission(r) \/ Admitted(r) \/ AdmissionResent(r)
             \/ AdmissionLimit(r) \/ AdmissionError(r) \/ Decline(r)
             \/ SignerUnavailable(r) \/ LeaveSigner(r) \/ Release(r) \/ Fail(r)
             \/ Signer(r) \/ CrashGateway(r)
      PROVE  UNCHANGED answer
  BY <1>5 DEF StartKeyless, PreAuthorizationFailure, RejectByRisk, StartAdmission, Admitted,
              AdmissionResent, AdmissionLimit, AdmissionError, Decline, SignerUnavailable,
              LeaveSigner, Release, Fail, Signer, Authorize, SignerFail, Commit,
              CommitAgain, CrashGateway
<1>6. CASE UNCHANGED vars \/ \E k \in Keys : ExpireLease(k)
  BY <1>6 DEF vars, ExpireLease
<1>7. ASSUME NEW r \in Requests, Acquire(r), AcquireReplay(r, KeyOf[r])
      PROVE  idem[KeyOf[r]].quote \in Requests
  BY <1>f, <1>7, KeyOfKeyed DEF Acquire, AcquireReplay, LedgerCore, SucceededHasQuote
<1> QED
  BY <1>2, <1>3, <1>4, <1>5, <1>6, <1>7 DEF Next, Gateway

LEMMA RefinementStep ==
    ASSUME LedgerCore, AnswerInv, [Next]_vars
    PROVE  [OnceOnly!Next]_OnceOnly!vars
<1> DEFINE issued == {q \in Requests : quote[q] = "finalized"}
           refused == {k \in Keys : idem[k].state = "failed"}
<1>f. /\ idem \in [Keys -> IdemRecord] /\ quote \in [Requests -> Stages]
      /\ \A k \in Keys : idem[k].quote \in Requests \cup {None}
  BY DEF LedgerCore, TypeOK, IdemRecord
<1>1. ASSUME NEW r \in Requests, Claims(r) \/ Binds(r)
      PROVE  issued' = issued /\ refused' = refused
  <2>1. \A q \in Requests : quote'[q] = "finalized" <=> quote[q] = "finalized"
    BY <1>1, <1>f DEF Claims, Binds
  <2>2. \A k \in Keys : idem'[k].state = "failed" <=> idem[k].state = "failed"
    <3>1. CASE Keyed(r)
      <4>1. /\ KeyOf[r] \in Keys /\ idem[KeyOf[r]] \in IdemRecord
            /\ idem[KeyOf[r]].state # "failed"
        BY <1>1, <1>f, <3>1, KeyOfKeyed DEF Claims, Binds, MayBind, Owns
      <4>2. /\ Owned(idem[KeyOf[r]], r).state = "processing"
            /\ BoundTo(idem[KeyOf[r]], r).state = idem[KeyOf[r]].state
        BY <4>1, OwnedRecord, BoundRecord
      <4> QED
        BY <1>1, <1>f, <3>1, <4>1, <4>2 DEF Claims, Binds, Bind
    <3>2. CASE ~Keyed(r)
      BY <1>1, <3>2 DEF Claims, Binds, Bind
    <3> QED
      BY <3>1, <3>2
  <2> QED
    BY <2>1, <2>2
<1>2. ASSUME NEW k \in Keys, Lapses(k)
      PROVE  issued' = issued /\ refused' = refused
  <2>1. \A j \in Keys : idem'[j].state = idem[j].state
    BY <1>2, <1>f, LapsedRecord DEF Lapses
  <2> QED
    BY <1>2, <2>1 DEF Lapses
<1>3. ASSUME NEW q \in Requests, ApplyCommit(q), UNCHANGED answer
      PROVE  OnceOnly!Issue(q)
  <2>1. issued' = issued \cup {q}
    BY <1>3, <1>f DEF ApplyCommit
  <2>2. refused' = refused /\ KeyOf[q] \notin refused
    <3>1. CASE Keyed(q)
      BY <1>3, <1>f, <3>1, KeyOfKeyed, SettledRecord DEF ApplyCommit, MayCommit, Owns
    <3>2. CASE ~Keyed(q)
      BY <1>3, <3>2, IssuanceAssumption DEF ApplyCommit, Keyed
    <3> QED
      BY <3>1, <3>2
  <2>3. \A p \in issued : ~OnceOnly!SharesKey(p, q)
    BY <1>3 DEF ApplyCommit, MayCommit, Owns, Keyed, OnceOnly!SharesKey, LedgerCore,
                FinalizedHasKey
  <2> QED
    BY <1>3, <2>1, <2>2, <2>3 DEF OnceOnly!Issue
<1>4. ASSUME NEW r \in Requests, FailsKey(r), UNCHANGED answer
      PROVE  OnceOnly!Refuse(KeyOf[r]) /\ KeyOf[r] \in Keys
  <2>1. KeyOf[r] \in Keys /\ idem[KeyOf[r]].state = "processing"
    BY <1>4, KeyOfKeyed DEF FailsKey, FailKey
  <2>2. issued' = issued
    BY <1>4, <1>f, <2>1 DEF FailsKey, FailKey
  <2>3. refused' = refused \cup {KeyOf[r]}
    BY <1>4, <1>f, <2>1, SettledRecord DEF FailsKey, FailKey
  <2>4. \A p \in issued : KeyOf[p] # KeyOf[r]
    BY <1>4, <2>1 DEF LedgerCore, FinalizedHasKey, FailsKey, Keyed
  <2> QED
    BY <1>4, <2>1, <2>2, <2>3, <2>4 DEF OnceOnly!Refuse
<1>5. CASE UNCHANGED answer
  <2>1. CASE UNCHANGED <<idem, quote>>
    BY <1>5, <2>1 DEF OnceOnly!vars
  <2>2. ASSUME NEW r \in Requests, Claims(r) \/ Binds(r) \/ ApplyCommit(r) \/ FailsKey(r)
        PROVE  [OnceOnly!Next]_OnceOnly!vars
    BY <1>1, <1>3, <1>4, <1>5, <2>2 DEF OnceOnly!vars, OnceOnly!Next
  <2>3. ASSUME NEW k \in Keys, Lapses(k)
        PROVE  [OnceOnly!Next]_OnceOnly!vars
    BY <1>2, <1>5, <2>3 DEF OnceOnly!vars
  <2> QED
    BY <2>1, <2>2, <2>3, LedgerWrites DEF LedgerCore
<1>6. CASE \E r, q \in Requests : OnceOnly!Answer(r, q)
  BY <1>6 DEF OnceOnly!Next
<1> QED
  BY <1>5, <1>6, AnswerWrites

-----------------------------------------------------------------------------
(* The theorems.                                                           *)

IssuanceInv == LedgerCore /\ AnswerInv /\ ExposureInv

LEMMA IssuanceInvariant == Spec => []IssuanceInv
<1>1. Init => IssuanceInv
  <2>1. Init => ExposureInv
    BY DEF Init, ExposureInv, GivenBack, RecoveryAfterSigner
  <2> QED
    BY <2>1, InitLedger DEF IssuanceInv
<1>2. IssuanceInv /\ [Next]_vars => IssuanceInv'
  BY CoreStep, AnswerStep, ExposureStep DEF IssuanceInv
<1> QED
  BY <1>1, <1>2, PTL DEF Spec

(***************************************************************************)
(* Every variable of the ledger, the gateways and the signer keeps its     *)
(* type.                                                                   *)
(***************************************************************************)
THEOREM TypeCorrect == Spec => []TypeOK
<1>1. IssuanceInv => TypeOK
  BY DEF IssuanceInv, LedgerCore
<1> QED
  BY <1>1, IssuanceInvariant, PTL

(***************************************************************************)
(* The idempotency record and the quote record of a key never disagree,    *)
(* however leases expire and whoever fails or commits first.               *)
(***************************************************************************)
THEOREM VerdictsAgree == Spec => []KeyVerdict
<1>1. IssuanceInv => KeyVerdict
  BY KeyOfKeyed DEF IssuanceInv, LedgerCore, FinalizedHasKey, SucceededHasQuote, KeyVerdict
<1> QED
  BY <1>1, IssuanceInvariant, PTL

(***************************************************************************)
(* At most one quote per idempotency key is ever signed.                   *)
(***************************************************************************)
THEOREM OneQuotePerKey == Spec => []OneSignedQuotePerKey
<1>1. IssuanceInv => OneSignedQuotePerKey
  BY KeyOfKeyed
  DEF IssuanceInv, LedgerCore, FinalizedHasKey, OneSignedQuotePerKey, Keyed
<1> QED
  BY <1>1, IssuanceInvariant, PTL

(***************************************************************************)
(* Every signature a client receives, fresh, recovered or replayed, is of  *)
(* a finalized quote of its own key and payload.                           *)
(***************************************************************************)
THEOREM DurableAnswers == Spec => []AnswersDurable
<1>1. IssuanceInv => AnswersDurable
  BY DEF IssuanceInv, AnswerInv
<1> QED
  BY <1>1, IssuanceInvariant, PTL

(***************************************************************************)
(* No step changes a terminal quote or the verdict of a key.               *)
(***************************************************************************)
THEOREM TerminalIsStable == Spec => TerminalStable
<1>1. IssuanceInv /\ [Next]_vars => [TerminalKept]_vars
  BY TerminalStep DEF IssuanceInv
<1> QED
  BY <1>1, IssuanceInvariant, PTL DEF Spec, TerminalStable

(***************************************************************************)
(* The signer never works on or finishes a quote whose exposure was given  *)
(* back, unless the gateway of that very request left it while it worked.  *)
(***************************************************************************)
THEOREM ExposureCovered == Spec => []ExposureCoversSigned
<1>1. IssuanceInv => ExposureCoversSigned
  BY DEF IssuanceInv, ExposureInv, GivenBack, ExposureCoversSigned
<1> QED
  BY <1>1, IssuanceInvariant, PTL

(***************************************************************************)
(* The gateways, the signer and the ledger implement OnceOnlyIssuance.     *)
(***************************************************************************)
THEOREM Implements == Spec => ImplementsOnceOnly
<1>1. Init => OnceOnly!Init
  BY DEF Init, OnceOnly!Init
<1>2. IssuanceInv /\ [Next]_vars => [OnceOnly!Next]_OnceOnly!vars
  BY RefinementStep DEF IssuanceInv
<1> QED
  BY <1>1, <1>2, IssuanceInvariant, PTL DEF Spec, OnceOnly!Spec, ImplementsOnceOnly
=============================================================================
