---------------------------- MODULE QuoteIssuance ----------------------------
(***************************************************************************)
(* Issuance of a signed quote in the production composition: gateways that *)
(* run createQuote, the isolated signer that commits the terminal state,   *)
(* and the Redis ledger both of them mutate with Lua scripts.  Every       *)
(* script is one action, because Redis runs it alone; every await of the   *)
(* gateway or of the signer is a point where the others may step in.       *)
(* A request mints one quote identity, so a quote is named by its request. *)
(***************************************************************************)
EXTENDS FiniteSets

CONSTANTS
    Requests,              \* calls of createQuote, one per client attempt
    Keys,                  \* (principal, Idempotency-Key) pairs
    NoKey,                 \* stands for a request without a key
    None,
    KeyOf,                 \* the key a request carries
    BodyOf,                \* quoteRequestHash of its normalized payload
    Speculative,           \* signer authorizationWaitMs > 0: sign overlaps admission
    Leavers,               \* the requests whose signer call may end at the gateway
                           \* (timeout, reset) while the signer works on
    Batches                \* bound: the sets of requests that may be sent

Bodies == {BodyOf[r] : r \in Requests}

ASSUME IssuanceAssumption ==
    /\ NoKey \notin Keys
    /\ None \notin Requests
    /\ None \notin Bodies
    /\ KeyOf \in [Requests -> Keys \cup {NoKey}]
    /\ Speculative \in BOOLEAN
    /\ Leavers \subseteq Requests
    /\ Batches \subseteq SUBSET Requests

VARIABLES
    idem,      \* the idempotency record of each key
    quote,     \* the lifecycle stage of each quote record
    reserved,  \* the quotes whose exposure is reserved
    pc,        \* where each request is in createQuote
    token,     \* the owner token each request holds for its key
    signer,    \* the state of the signer's work on each quote
    answer     \* the quote whose signature the client received

ledger == <<idem, quote, reserved>>
vars == <<idem, quote, reserved, pc, token, signer, answer>>

Keyed(r) == KeyOf[r] # NoKey

IdemRecord ==
    [state : {"absent", "processing", "succeeded", "failed"},
     owner : Requests \cup {None},
     quote : Requests \cup {None},
     body  : Bodies \cup {None},
     live  : BOOLEAN]

\* "authorized" and "declined" are the stage authorized with an approved and
\* with a rejected risk decision.
Stages == {"absent", "authorized", "declined", "finalized", "failed"}

Steps == {"unsent", "start", "expire", "price", "admit", "decline", "await",
          "recover", "release", "fail", "done", "crashed"}

SignerStates == {"none", "waiting", "signing", "signed", "error"}

TypeOK ==
    /\ idem \in [Keys -> IdemRecord]
    /\ quote \in [Requests -> Stages]
    /\ reserved \subseteq Requests
    /\ pc \in [Requests -> Steps]
    /\ token \in [Requests -> Requests \cup {None}]
    /\ signer \in [Requests -> SignerStates]
    /\ answer \in [Requests -> Requests \cup {None}]

Init ==
    /\ idem = [k \in Keys |-> [state |-> "absent", owner |-> None,
                               quote |-> None, body |-> None, live |-> FALSE]]
    /\ quote = [r \in Requests |-> "absent"]
    /\ reserved = {}
    /\ \E batch \in Batches :
           pc = [r \in Requests |-> IF r \in batch THEN "start" ELSE "unsent"]
    /\ token = [r \in Requests |-> None]
    /\ signer = [r \in Requests |-> "none"]
    /\ answer = [r \in Requests |-> None]

\* The record of a key in the hands of r, bound to the quote q, after its
\* lease ran out, and with its verdict.
Owned(record, r) ==
    [record EXCEPT !.state = "processing", !.owner = r,
                   !.body = BodyOf[r], !.live = TRUE]

BoundTo(record, q) == [record EXCEPT !.quote = q]

Lapsed(record) == [record EXCEPT !.live = FALSE]

Settled(record, verdict) ==
    [record EXCEPT !.state = verdict, !.owner = None, !.live = FALSE]

Goto(r, step) == pc' = [pc EXCEPT ![r] = step]

Finish(r) == Goto(r, "done")

-----------------------------------------------------------------------------
(* Acquiring the key: acquireQuoteIdempotencyScript and what each of its   *)
(* result codes makes the gateway do.                                      *)

Claim(r, k) ==
    /\ idem' = [idem EXCEPT ![k] = Owned(@, r)]
    /\ token' = [token EXCEPT ![r] = r]
    /\ Goto(r, "price")
    /\ UNCHANGED <<quote, reserved, signer, answer>>

\* Faulty variant of AcquireFresh: an existing record is not looked up.
AcquireFreshBlind(r, k) ==
    /\ idem' = [idem EXCEPT ![k] = [state |-> "processing", owner |-> r,
                                    quote |-> None, body |-> BodyOf[r],
                                    live |-> TRUE]]
    /\ token' = [token EXCEPT ![r] = r]
    /\ Goto(r, "price")
    /\ UNCHANGED <<quote, reserved, signer, answer>>

AcquireFresh(r, k) ==
    /\ idem[k].state = "absent"
    /\ Claim(r, k)

AcquireReclaim(r, k) ==
    /\ idem[k].state = "processing"
    /\ idem[k].body = BodyOf[r]
    /\ ~idem[k].live
    /\ idem[k].quote = None
    /\ Claim(r, k)

\* Faulty variant of AcquireReplay: the request hash is not compared.
AcquireReplayAnyBody(r, k) ==
    /\ idem[k].state = "succeeded"
    /\ answer' = [answer EXCEPT ![r] = idem[k].quote]
    /\ Finish(r)
    /\ UNCHANGED <<ledger, token, signer>>

AcquireReplay(r, k) ==
    /\ idem[k].state = "succeeded"
    /\ idem[k].body = BodyOf[r]
    /\ answer' = [answer EXCEPT ![r] = idem[k].quote]
    /\ Finish(r)
    /\ UNCHANGED <<ledger, token, signer>>

\* Codes 3, 4 and 5: the key failed, belongs to another payload, or has a
\* live owner.
AcquireRefused(r, k) ==
    /\ idem[k].state # "absent"
    /\ \/ idem[k].body # BodyOf[r]
       \/ idem[k].state = "failed"
       \/ idem[k].state = "processing" /\ idem[k].live
    /\ Finish(r)
    /\ UNCHANGED <<ledger, token, signer, answer>>

\* Code 6: the lease ran out under a bound quote; the gateway goes on to fail
\* the key with the reservation it read from the record.
AcquireExpired(r, k) ==
    /\ idem[k].state = "processing"
    /\ idem[k].body = BodyOf[r]
    /\ ~idem[k].live
    /\ idem[k].quote # None
    /\ token' = [token EXCEPT ![r] = idem[k].owner]
    /\ Goto(r, "expire")
    /\ UNCHANGED <<ledger, signer, answer>>

Acquire(r) ==
    /\ pc[r] = "start"
    /\ Keyed(r)
    /\ LET k == KeyOf[r] IN
       \/ AcquireFresh(r, k)
       \/ AcquireReclaim(r, k)
       \/ AcquireReplay(r, k)
       \/ AcquireRefused(r, k)
       \/ AcquireExpired(r, k)

StartKeyless(r) ==
    /\ pc[r] = "start"
    /\ ~Keyed(r)
    /\ Goto(r, "price")
    /\ UNCHANGED <<ledger, token, signer, answer>>

-----------------------------------------------------------------------------
(* Pricing, risk and admission.                                            *)

Owns(r, k) ==
    /\ idem[k].state = "processing"
    /\ idem[k].owner = token[r]
    /\ idem[k].body = BodyOf[r]

MayBind(r) ==
    Keyed(r) => /\ Owns(r, KeyOf[r])
                /\ idem[KeyOf[r]].quote \in {None, r}

Bind(r) ==
    idem' = IF Keyed(r) THEN [idem EXCEPT ![KeyOf[r]] = BoundTo(@, r)] ELSE idem

\* Snapshot, routing, skew or pricing failed: the key is bound best effort.
PreAuthorizationFailure(r) ==
    /\ pc[r] = "price"
    /\ Goto(r, "fail")
    /\ \/ MayBind(r) /\ Bind(r)
       \/ UNCHANGED idem
    /\ UNCHANGED <<quote, reserved, token, signer, answer>>

RejectByRisk(r) ==
    /\ pc[r] = "price"
    /\ Goto(r, "decline")
    /\ UNCHANGED <<ledger, token, signer, answer>>

\* Exposure passed in-process evaluation; a speculative signer request leaves
\* just before the admission script does.
StartAdmission(r) ==
    /\ pc[r] = "price"
    /\ Goto(r, "admit")
    /\ signer' = IF Speculative THEN [signer EXCEPT ![r] = "waiting"] ELSE signer
    /\ UNCHANGED <<ledger, token, answer>>

\* admitQuoteAtomicallyScript when both preflights pass.
ApplyAdmission(r) ==
    /\ quote[r] = "absent"
    /\ MayBind(r)
    /\ Bind(r)
    /\ quote' = [quote EXCEPT ![r] = "authorized"]
    /\ reserved' = reserved \cup {r}

\* A resent script finds its own records: codes 2 and 2, nothing written.
DuplicateAdmission(r) ==
    /\ quote[r] # "absent"
    /\ r \in reserved
    /\ UNCHANGED ledger

RequestSignature(r) ==
    signer' = IF signer[r] = "none" THEN [signer EXCEPT ![r] = "waiting"] ELSE signer

Admitted(r) ==
    /\ pc[r] = "admit"
    /\ ApplyAdmission(r) \/ DuplicateAdmission(r)
    /\ RequestSignature(r)
    /\ Goto(r, "await")
    /\ UNCHANGED <<token, answer>>

\* The reply of an applied script is lost and the driver sends it again.
AdmissionResent(r) ==
    /\ pc[r] = "admit"
    /\ ApplyAdmission(r)
    /\ UNCHANGED <<pc, token, signer, answer>>

AdmissionLimit(r) ==
    /\ pc[r] = "admit"
    /\ r \notin reserved
    /\ Goto(r, "decline")
    /\ UNCHANGED <<ledger, token, signer, answer>>

\* Redis failed, the backlog is full, the key is owned by another, the CAS
\* retries ran out, or too few replicas acknowledged an applied script.  With
\* a speculative signature in flight its outcome is awaited; without one the
\* request is declined as RISK_UNAVAILABLE.
AdmissionError(r) ==
    /\ pc[r] = "admit"
    /\ ApplyAdmission(r) \/ UNCHANGED ledger
    /\ Goto(r, IF Speculative THEN "await" ELSE "decline")
    /\ UNCHANGED <<token, signer, answer>>

\* admit() of a rejected decision; when that fails too, a speculative
\* signature already requested is awaited before the request fails.
Decline(r) ==
    /\ pc[r] = "decline"
    /\ \/ /\ quote[r] = "absent" /\ MayBind(r) /\ Bind(r)
          /\ quote' = [quote EXCEPT ![r] = "declined"]
          /\ Goto(r, "fail")
       \/ /\ UNCHANGED <<idem, quote>>
          /\ Goto(r, IF signer[r] = "none" THEN "fail" ELSE "await")
    /\ UNCHANGED <<reserved, token, signer, answer>>

-----------------------------------------------------------------------------
(* The signer service: authorization check, signature, atomic commit.      *)

Authorize(q) ==
    /\ signer[q] = "waiting"
    /\ quote[q] = "authorized"
    /\ signer' = [signer EXCEPT ![q] = "signing"]
    /\ UNCHANGED <<ledger, pc, token, answer>>

\* No authorization within the wait, a refused envelope, a KMS or Redis
\* error, a refused commit, or a crash of the signer.
SignerFail(q) ==
    /\ signer[q] \in {"waiting", "signing"}
    /\ signer' = [signer EXCEPT ![q] = "error"]
    /\ UNCHANGED <<ledger, pc, token, answer>>

MayCommit(q) ==
    /\ quote[q] = "authorized"
    /\ Keyed(q) => /\ Owns(q, KeyOf[q])
                   /\ idem[KeyOf[q]].quote = q

\* Faulty variants of ApplyCommit: the key is given the name of the event as
\* its state, and the key is not completed at all.
ApplyCommitMisnamed(q) ==
    /\ MayCommit(q)
    /\ quote' = [quote EXCEPT ![q] = "finalized"]
    /\ idem' = IF Keyed(q) THEN [idem EXCEPT ![KeyOf[q]].state = "finalized"] ELSE idem
    /\ UNCHANGED reserved

ApplyCommitQuoteOnly(q) ==
    /\ MayCommit(q)
    /\ quote' = [quote EXCEPT ![q] = "finalized"]
    /\ UNCHANGED <<idem, reserved>>

\* commitSignedQuoteScript: the quote is finalized and the key completed.
ApplyCommit(q) ==
    /\ MayCommit(q)
    /\ quote' = [quote EXCEPT ![q] = "finalized"]
    /\ idem' = IF Keyed(q)
               THEN [idem EXCEPT ![KeyOf[q]] = Settled(@, "succeeded")]
               ELSE idem
    /\ UNCHANGED reserved

\* The answer of an applied commit reaches the signer ("signed"), is resent by
\* the driver ("signing"), or fails for want of replica acknowledgements or in
\* a signer crash ("error").
Commit(q) ==
    /\ signer[q] = "signing"
    /\ ApplyCommit(q)
    /\ \E s \in {"signed", "signing", "error"} : signer' = [signer EXCEPT ![q] = s]
    /\ UNCHANGED <<pc, token, answer>>

CommitAgain(q) ==
    /\ signer[q] = "signing"
    /\ quote[q] = "finalized"
    /\ signer' = [signer EXCEPT ![q] = "signed"]
    /\ UNCHANGED <<ledger, pc, token, answer>>

-----------------------------------------------------------------------------
(* The gateway after admission.                                            *)

TakeSignature(r) ==
    /\ pc[r] = "await"
    /\ signer[r] = "signed"
    /\ answer' = [answer EXCEPT ![r] = r]
    /\ Finish(r)
    /\ UNCHANGED <<ledger, token, signer>>

\* The signer answered with an error, or its answer was lost on the way.
SignerUnavailable(r) ==
    /\ pc[r] = "await"
    /\ signer[r] \in {"signed", "error"}
    /\ Goto(r, "recover")
    /\ UNCHANGED <<ledger, token, signer, answer>>

\* The request timeout or a reset ends the call while the signer works on.
LeaveSigner(r) ==
    /\ r \in Leavers
    /\ pc[r] = "await"
    /\ signer[r] \in {"waiting", "signing"}
    /\ Goto(r, "recover")
    /\ UNCHANGED <<ledger, token, signer, answer>>

\* Faulty variants of Recover: any record counts as committed; an unknown
\* outcome releases; only a committed outcome ends the wait.
RecoverUnfinalized(r) ==
    /\ pc[r] = "recover"
    /\ quote[r] # "absent"
    /\ answer' = [answer EXCEPT ![r] = r]
    /\ Finish(r)
    /\ UNCHANGED <<ledger, token, signer>>

RecoverUnknownReleases(r) ==
    /\ pc[r] = "recover"
    /\ Goto(r, "release")
    /\ UNCHANGED <<ledger, token, signer, answer>>

RecoverCommittedOnly(r) ==
    /\ pc[r] = "recover"
    /\ quote[r] = "finalized"
    /\ answer' = [answer EXCEPT ![r] = r]
    /\ Finish(r)
    /\ UNCHANGED <<ledger, token, signer>>

\* recoverAtomicSignerCommit: committed, not_committed or unknown.
Recover(r) ==
    /\ pc[r] = "recover"
    /\ \/ /\ quote[r] = "finalized"
          /\ answer' = [answer EXCEPT ![r] = r]
          /\ Finish(r)
       \/ /\ quote[r] # "finalized"
          /\ Goto(r, "release")
          /\ UNCHANGED answer
       \/ /\ Goto(r, "fail")
          /\ UNCHANGED answer
    /\ UNCHANGED <<ledger, token, signer>>

\* Best effort: an error of the exposure store is swallowed.
Release(r) ==
    /\ pc[r] = "release"
    /\ reserved' \in {reserved, reserved \ {r}}
    /\ Goto(r, "fail")
    /\ UNCHANGED <<idem, quote, token, signer, answer>>

\* Faulty variant of FailKey: neither the state nor the owner is compared.
FailKeyUnguarded(r, k) ==
    /\ idem' = [idem EXCEPT ![k] = Settled(@, "failed")]
    /\ LET q == idem[k].quote IN
       quote' = IF q # None /\ quote[q] = "authorized"
                THEN [quote EXCEPT ![q] = "failed"] ELSE quote

\* failQuoteIdempotencyScript with the reservation the request holds.
FailKey(r, k) ==
    /\ idem[k].state = "processing"
    /\ idem[k].owner = token[r]
    /\ idem' = [idem EXCEPT ![k] = Settled(@, "failed")]
    /\ LET q == idem[k].quote IN
       quote' = IF q # None /\ quote[q] = "authorized"
                THEN [quote EXCEPT ![q] = "failed"] ELSE quote

\* The script may also refuse (another owner, a terminal key) or not run; the
\* request ends with an error in every case.
Fail(r) ==
    /\ pc[r] \in {"fail", "expire"}
    /\ \/ Keyed(r) /\ FailKey(r, KeyOf[r])
       \/ UNCHANGED <<idem, quote>>
    /\ Finish(r)
    /\ UNCHANGED <<reserved, token, signer, answer>>

-----------------------------------------------------------------------------
(* The environment.                                                        *)

ExpireLease(k) ==
    /\ idem[k].live
    /\ idem' = [idem EXCEPT ![k] = Lapsed(@)]
    /\ UNCHANGED <<quote, reserved, pc, token, signer, answer>>

CrashGateway(r) ==
    /\ pc[r] \notin {"unsent", "start", "done", "crashed"}
    /\ Goto(r, "crashed")
    /\ UNCHANGED <<ledger, token, signer, answer>>

Gateway(r) ==
    \/ Acquire(r) \/ StartKeyless(r)
    \/ PreAuthorizationFailure(r) \/ RejectByRisk(r) \/ StartAdmission(r)
    \/ Admitted(r) \/ AdmissionResent(r) \/ AdmissionLimit(r) \/ AdmissionError(r)
    \/ Decline(r)
    \/ TakeSignature(r) \/ SignerUnavailable(r) \/ LeaveSigner(r)
    \/ Recover(r) \/ Release(r) \/ Fail(r)

Signer(q) == Authorize(q) \/ SignerFail(q) \/ Commit(q) \/ CommitAgain(q)

Next ==
    \/ \E r \in Requests : Gateway(r) \/ Signer(r) \/ CrashGateway(r)
    \/ \E k \in Keys : ExpireLease(k)

Spec == Init /\ [][Next]_vars

\* A gateway runs every handler to its end unless it crashes, and the signer
\* answers or fails every request it accepted.
Fairness == \A r \in Requests : WF_vars(Gateway(r)) /\ WF_vars(Signer(r))

FairSpec == Spec /\ Fairness
-----------------------------------------------------------------------------
(* Properties. *)

(***************************************************************************)
(* However many requests and retries carry an idempotency key, at most one *)
(* of the quotes they minted is ever signed and finalized.                 *)
(***************************************************************************)
OneSignedQuotePerKey ==
    \A p, q \in Requests :
        /\ Keyed(p) /\ KeyOf[p] = KeyOf[q]
        /\ quote[p] = "finalized" /\ quote[q] = "finalized"
        => p = q

(***************************************************************************)
(* The key's record and the quote's record never disagree: a keyed quote   *)
(* is finalized exactly when its key succeeded with it.  (ADR-0030:        *)
(* "durable audit, idempotency, nonce and quote state cannot disagree".)   *)
(***************************************************************************)
KeyVerdict ==
    \A q \in Requests : Keyed(q) =>
        ( quote[q] = "finalized" <=>
          idem[KeyOf[q]].state = "succeeded" /\ idem[KeyOf[q]].quote = q )

(***************************************************************************)
(* A signature a client holds is durable: its quote is finalized, and it   *)
(* was issued for the same key and the same payload.                       *)
(***************************************************************************)
AnswersDurable ==
    \A r \in Requests : answer[r] # None =>
        LET q == answer[r] IN
        /\ quote[q] = "finalized"
        /\ KeyOf[q] = KeyOf[r]
        /\ BodyOf[q] = BodyOf[r]

(***************************************************************************)
(* A quote that is finalized, failed or declined, and a key that succeeded *)
(* or failed, is never changed again, by a late signer, a late gateway or  *)
(* a retry.                                                                *)
(***************************************************************************)
TerminalKept ==
    /\ \A q \in Requests :
           quote[q] \in {"finalized", "failed", "declined"} => quote'[q] = quote[q]
    /\ \A k \in Keys :
           idem[k].state \in {"succeeded", "failed"} => idem'[k] = idem[k]

TerminalStable == [][TerminalKept]_vars

(***************************************************************************)
(* Unless the gateway left the signer while it worked: from the durable    *)
(* authorization the signer accepts until after the quote is final, its    *)
(* exposure is reserved, and the signer never works on, or finishes, a     *)
(* quote whose capacity was given back.  Others may leave theirs.          *)
(***************************************************************************)
ExposureCoversSigned ==
    \A q \in Requests \ Leavers :
        \/ signer[q] = "signing" /\ quote[q] = "authorized"
        \/ quote[q] = "finalized"
        => q \in reserved

(***************************************************************************)
(* The part of it a client can observe: a finalized, hence submittable,    *)
(* signature is backed by reserved exposure.  (ADR-0030: "lost             *)
(* HTTP responses have deterministic recovery without prematurely          *)
(* releasing exposure".)                                                   *)
(***************************************************************************)
FinalizedIsReserved == \A q \in Requests : quote[q] = "finalized" => q \in reserved

(***************************************************************************)
(* Every request that was sent ends, with an answer or an error: no request  *)
(* waits for ever on the ledger or on the signer.                          *)
(***************************************************************************)
EveryRequestEnds ==
    <>[](\A r \in Requests : pc[r] \in {"unsent", "done", "crashed"})

(***************************************************************************)
(* The ledger implements the promise OnceOnlyIssuance states: whatever the *)
(* gateways, the signer and the leases do, a key is refused for good or    *)
(* owns one signed quote, and clients are given only that one.             *)
(***************************************************************************)
OnceOnly == INSTANCE OnceOnlyIssuance WITH
    issued <- {q \in Requests : quote[q] = "finalized"},
    refused <- {k \in Keys : idem[k].state = "failed"}

ImplementsOnceOnly == OnceOnly!Spec
=============================================================================
