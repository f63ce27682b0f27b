--------------------------- MODULE Verifier_proofs ---------------------------
(***************************************************************************)
(* Proofs about Verifier, for every number of sessions, handlers,          *)
(* credentials and requests, and for every trust policy.                   *)
(*                                                                         *)
(* The plan: a handler step that resumes after an await is one of two      *)
(* things, an answer (Finishes) or a further status check (Asks), and      *)
(* ResumeCases says what is known when it is which.  IInv is shown         *)
(* inductive from that, one lemma per kind of step; every theorem then     *)
(* reads what it needs from IInv and from ResumeCases.                     *)
(***************************************************************************)
EXTENDS VerifierInvariant, TLAPS

\* What is known of a body the business rule is about to decide on.
Earned(r) ==
    LET requests == Requests[target[r]]
    IN  /\ body[r] \in Presentation
        /\ body[r] = result[target[r]]
        /\ GatePasses(body[r], requests)
        /\ \A k \in DOMAIN requests : requests[k].statusClaim =>
                body[r].claims[requests[k].id].credential \in seenActive[r]

Elsewhere == UNCHANGED <<now, store, upstream, standing>>

\* A handler that has awaited something answers a.
Finishes(r, a) ==
    /\ pc[r] # "idle"
    /\ Respond(r, a)
    /\ Elsewhere
    /\ a \notin {"none", "cancelled"}
    /\ a = "expired" => txnExpires[target[r]] <= now
    /\ a \in Decision => Earned(r) /\ a = body[r].outcome /\ ~late[r]
    /\ late[r] => a \in {"expired", "error"}

\* A handler that has awaited something asks an Authority about slot k.
Asks(r, k) ==
    LET requests == Requests[target[r]]
    IN  /\ pc[r] \in {"gotStatus", "gotStanding"}
        /\ body[r] \in Presentation
        /\ ChecksPass(body[r]) /\ AlgorithmsApproved(body[r].algs)
        /\ k \in 1 .. Len(requests)
        /\ pc[r] = "gotStanding" => slot[r] < k
        /\ MayAsk(body[r], requests[k])
        /\ \A j \in 1 .. k : SlotPasses(body[r], requests[j])
        /\ \A j \in 1 .. k - 1 : requests[j].statusClaim =>
                body[r].claims[requests[j].id].credential \in seenActive[r]
        /\ Ask(r, k)
        /\ Elsewhere

-----------------------------------------------------------------------------
\* The markers are no presentations and differ from each other.
LEMMA Markers ==
    /\ {Absent, Pending, Gone, Failed} \cap Presentation = {}
    /\ Absent # Pending /\ Absent # Gone /\ Absent # Failed
    /\ Pending # Gone /\ Pending # Failed /\ Gone # Failed
    /\ NoSession \notin Session
    /\ TTL \in Nat
BY VerifierAssumption DEF VerifierAssumption

\* A session's requests are a finite sequence.
LEMMA RequestsAreSequences ==
    ASSUME NEW s \in Session
    PROVE  Len(Requests[s]) \in Nat /\ DOMAIN Requests[s] = 1 .. Len(Requests[s])
<1>1. PICK S : Requests[s] \in Seq(S)
  BY VerifierAssumption DEF VerifierAssumption
<1> QED BY <1>1

\* The loop that runs on from a slot decides, refuses or asks; if it decides, every slot
\* from there on passed and checks no standing.
LEMMA RunOnCases ==
    ASSUME IInv, NEW r \in Read, NEW from \in Nat, Elsewhere,
           pc[r] \in {"gotStatus", "gotStanding"},
           body[r] \in Presentation,
           ChecksPass(body[r]), AlgorithmsApproved(body[r].algs),
           from \in 1 .. Len(Requests[target[r]]) + 1,
           pc[r] = "gotStanding" => slot[r] < from,
           \A j \in 1 .. from - 1 : SlotPasses(body[r], Requests[target[r]][j]),
           \A j \in 1 .. from - 1 : Requests[target[r]][j].statusClaim =>
                body[r].claims[Requests[target[r]][j].id].credential \in seenActive[r],
           RunOn(r, from)
    PROVE  (\E a \in Answer : Finishes(r, a)) \/ (\E k \in Nat : Asks(r, k))
<1> DEFINE p == body[r]
           requests == Requests[target[r]]
<1>1. target[r] \in Session
  BY DEF IInv, TypeOK, ReadsUnderway
<1>2. Len(requests) \in Nat /\ DOMAIN requests = 1 .. Len(requests)
  BY <1>1, RequestsAreSequences
<1>3. ~late[r] /\ p = result[target[r]]
  BY Markers DEF IInv, LateFindsNothing, BodyCurrent
<1>4. PICK k \in from .. Len(requests) + 1 :
        /\ NextStop(p, requests, from, k)
        /\ \/ k = Len(requests) + 1 /\ Decide(r)
           \/ k <= Len(requests) /\ MayAsk(p, requests[k]) /\ Ask(r, k)
           \/ k <= Len(requests) /\ ~MayAsk(p, requests[k]) /\ Respond(r, "rejected")
  BY DEF RunOn
<1>5. \A j \in from .. k - 1 : SlotPasses(p, requests[j]) /\ ~requests[j].statusClaim
  BY <1>4 DEF NextStop, Stops
<1>6. k \in Nat /\ \A j \in 1 .. k - 1 : j \in 1 .. from - 1 \/ j \in from .. k - 1
  BY <1>2
<1>7. CASE k = Len(requests) + 1 /\ Decide(r)
  <2>1. k - 1 = Len(requests)
    BY <1>2, <1>7
  <2>2. \A j \in DOMAIN requests : SlotPasses(p, requests[j])
    BY <1>2, <1>5, <1>6, <2>1
  <2>3. \A j \in DOMAIN requests : requests[j].statusClaim =>
            p.claims[requests[j].id].credential \in seenActive[r]
    BY <1>2, <1>5, <1>6, <2>1
  <2>4. Earned(r)
    BY <1>3, <2>2, <2>3 DEF Earned, GatePasses
  <2>5. CASE body[r].outcome \in Decision /\ Respond(r, body[r].outcome)
    BY <2>5, <2>4, <1>3 DEF Finishes, Answer, Decision
  <2>6. CASE body[r].outcome = "throws" /\ Respond(r, "rejected")
    BY <2>6, <1>3 DEF Finishes, Answer, Decision
  <2> QED BY <1>7, <2>5, <2>6 DEF Decide
<1>8. CASE k <= Len(requests) /\ MayAsk(p, requests[k]) /\ Ask(r, k)
  <2>1. k \in 1 .. Len(requests) /\ \A j \in 1 .. k : j \in 1 .. k - 1 \/ j = k
    BY <1>2, <1>8
  <2>4. pc[r] = "gotStanding" => slot[r] < k
    <3>1. slot[r] \in Nat
      BY DEF IInv, TypeOK
    <3> QED BY <1>6, <3>1
  <2>2. \A j \in 1 .. k : SlotPasses(p, requests[j])
    BY <1>5, <1>6, <1>8, <2>1 DEF MayAsk
  <2>3. \A j \in 1 .. k - 1 : requests[j].statusClaim =>
            p.claims[requests[j].id].credential \in seenActive[r]
    BY <1>5, <1>6
  <2> QED BY <1>6, <1>8, <2>1, <2>2, <2>3, <2>4 DEF Asks
<1>9. CASE k <= Len(requests) /\ ~MayAsk(p, requests[k]) /\ Respond(r, "rejected")
  BY <1>9, <1>3 DEF Finishes, Answer, Decision
<1> QED BY <1>4, <1>7, <1>8, <1>9

\* Every step of a handler that resumes after an await is an answer or a further question.
LEMMA ResumeCases ==
    ASSUME IInv, NEW r \in Read,
           ResumeWithoutResult(r) \/ ResumeRefused(r) \/ ResumeVerified(r) \/ ResumeStanding(r)
    PROVE  (\E a \in Answer : Finishes(r, a)) \/ (\E k \in Nat : Asks(r, k))
<1> DEFINE requests == Requests[target[r]]
<1>1. Elsewhere
  BY DEF ResumeWithoutResult, ResumeRefused, ResumeVerified, ResumeStanding, Elsewhere
<1>2. target[r] \in Session
  BY DEF IInv, TypeOK, ReadsUnderway, ResumeWithoutResult, ResumeRefused, ResumeVerified,
         ResumeStanding
<1>3. Len(requests) \in Nat
  BY <1>2, RequestsAreSequences
<1>4. CASE ResumeWithoutResult(r)
  <2>1. pc[r] = "gotStatus" /\ (late[r] => body[r] \in {Gone, Failed})
    BY <1>4 DEF ResumeWithoutResult, IInv, LateFindsNothing
  <2>2. CASE body[r] = Gone /\ Respond(r, "expired")
    BY <1>1, <2>1, <2>2 DEF Finishes, Answer, Closing, Decision, IInv, BodyCurrent
  <2>3. CASE body[r] = Failed /\ Respond(r, "error")
    BY <1>1, <2>1, <2>3 DEF Finishes, Answer, Decision
  <2>4. CASE body[r] = Pending /\ Respond(r, "waiting")
    BY <1>1, <2>1, <2>4, Markers DEF Finishes, Answer, Decision
  <2> QED BY <1>4, <2>2, <2>3, <2>4 DEF ResumeWithoutResult
<1>5. CASE ResumeRefused(r)
  <2>1. pc[r] = "gotStatus" /\ ~late[r]
    BY <1>5, Markers DEF ResumeRefused, IInv, LateFindsNothing
  <2>2. Respond(r, "declined") \/ Respond(r, "rejected")
    BY <1>5 DEF ResumeRefused
  <2> QED BY <1>1, <2>1, <2>2 DEF Finishes, Answer, Decision
<1>6. CASE ResumeVerified(r)
  <2>1. 1 \in 1 .. Len(requests) + 1 /\ \A j \in 1 .. 1 - 1 : FALSE
    BY <1>3
  <2> QED BY <1>1, <1>6, <2>1, RunOnCases DEF ResumeVerified
<1>7. CASE ResumeStanding(r)
  <2>1. /\ pc[r] = "gotStanding" /\ body[r] \in Presentation
        /\ ChecksPass(body[r]) /\ AlgorithmsApproved(body[r].algs)
        /\ slot[r] \in 1 .. Len(requests)
        /\ \A k \in 1 .. slot[r] : SlotPasses(body[r], requests[k])
        /\ \A k \in 1 .. slot[r] - 1 : requests[k].statusClaim =>
                body[r].claims[requests[k].id].credential \in seenActive[r]
    BY <1>7 DEF ResumeStanding, IInv, LoopProgress
  <2>2. CASE Usable(report[r]) /\ RunOn(r, NextSlot(r))
    <3>1. body[r].claims[requests[slot[r]].id].credential \in seenActive[r]
      BY <2>1, <2>2 DEF IInv, ActiveSeen, CredentialAt
    <3>2. /\ NextSlot(r) \in Nat /\ NextSlot(r) \in 1 .. Len(requests) + 1 /\ slot[r] < NextSlot(r)
          /\ \A j \in 1 .. NextSlot(r) - 1 : j \in 1 .. slot[r] /\ (j \in 1 .. slot[r] - 1 \/ j = slot[r])
      BY <1>3, <2>1 DEF NextSlot
    <3>3. /\ \A j \in 1 .. NextSlot(r) - 1 : SlotPasses(body[r], requests[j])
          /\ \A j \in 1 .. NextSlot(r) - 1 : requests[j].statusClaim =>
                body[r].claims[requests[j].id].credential \in seenActive[r]
      BY <2>1, <3>1, <3>2
    <3> QED BY <1>1, <2>1, <2>2, <3>2, <3>3, RunOnCases
  <2>3. CASE ~Usable(report[r]) /\ Respond(r, "rejected")
    BY <1>1, <2>1, <2>3 DEF Finishes, Answer, Decision, IInv, LateFindsNothing
  <2> QED BY <1>7, <2>2, <2>3 DEF ResumeStanding
<1> QED BY <1>4, <1>5, <1>6, <1>7

-----------------------------------------------------------------------------
\* The empty service satisfies the invariant.
LEMMA InitIInv == Init => IInv
<1> SUFFICES ASSUME Init PROVE IInv
  OBVIOUS
<1>1. TypeOK
  BY VerifierAssumption DEF VerifierAssumption, Init, TypeOK, Progress, Answer
<1>2. ReadsUnderway /\ BodyCurrent /\ LoopProgress /\ ActiveSeen /\ LateFindsNothing
  BY Markers DEF Init, ReadsUnderway, BodyCurrent, LoopProgress, ActiveSeen, LateFindsNothing
<1>3. ClosedForGood /\ CreatedOnce /\ ResultOutlives /\ ToldEarned
  BY Markers DEF Init, ClosedForGood, Closed, CreatedOnce, ResultOutlives, ToldEarned
<1> QED BY <1>1, <1>2, <1>3 DEF IInv

\* Answering keeps the invariant.
LEMMA FinishesKeeps ==
    ASSUME IInv, NEW r \in Read, NEW a \in Answer, Finishes(r, a)
    PROVE  IInv'
<1> USE DEF IInv, Finishes, Elsewhere
<1>1. target[r] \in Session /\ target[r] \in issued
  BY DEF TypeOK, ReadsUnderway
<1>2. TypeOK'
  BY <1>1 DEF TypeOK, Respond, store, upstream, Progress
<1>3. ReadsUnderway' /\ BodyCurrent' /\ LoopProgress'
  <2>1. ReadsUnderway'
    BY DEF TypeOK, Respond, ReadsUnderway, store
  <2>2. BodyCurrent'
    BY Markers DEF TypeOK, Respond, BodyCurrent, upstream
  <2>3. LoopProgress'
    BY DEF TypeOK, Respond, LoopProgress
  <2> QED BY <2>1, <2>2, <2>3
<1>4. ActiveSeen'
  BY DEF TypeOK, Respond, ActiveSeen, CredentialAt
<1>5. \A s \in Session : Closed(s) => Closed(s)'
  BY DEF TypeOK, Respond, Closed
<1>6. LateFindsNothing'
  BY <1>5 DEF TypeOK, Respond, LateFindsNothing, upstream, ReadsUnderway
<1>7. ClosedForGood'
  BY DEF TypeOK, Respond, ClosedForGood, Closed, Closing, Decision, Expired, store, upstream
<1>8. CreatedOnce'
  BY <1>1 DEF TypeOK, Respond, CreatedOnce, store, upstream
<1>9. ResultOutlives'
  BY DEF ResultOutlives, store, upstream
<1>10. ToldEarned'
  BY <1>1 DEF TypeOK, Respond, ToldEarned, Earned, Decision, Closing, store, upstream
<1> QED BY <1>2, <1>3, <1>4, <1>6, <1>7, <1>8, <1>9, <1>10

\* Asking about one more credential keeps it.
LEMMA AsksKeeps ==
    ASSUME IInv, NEW r \in Read, NEW k \in Nat, Asks(r, k)
    PROVE  IInv'
<1> USE DEF IInv, Asks, Elsewhere
<1>1. pc[r] # "idle" /\ ~late[r] /\ body[r] = result[target[r]] /\ target[r] \in Session
  BY Markers DEF LateFindsNothing, BodyCurrent, ReadsUnderway, TypeOK
<1>2. TypeOK'
  BY DEF TypeOK, Ask, store, upstream, ghosts, Progress
<1>3. ReadsUnderway' /\ BodyCurrent'
  BY DEF TypeOK, Ask, ReadsUnderway, BodyCurrent, store, upstream
<1>4. LoopProgress'
  BY DEF TypeOK, Ask, LoopProgress, ghosts
<1>5. ActiveSeen'
  BY DEF TypeOK, Ask, ActiveSeen, CredentialAt, ghosts
<1>6. LateFindsNothing'
  BY <1>1 DEF TypeOK, Ask, LateFindsNothing, Closed, ghosts, upstream
<1>7. ClosedForGood' /\ CreatedOnce' /\ ResultOutlives' /\ ToldEarned'
  BY DEF Ask, ClosedForGood, CreatedOnce, ResultOutlives, ToldEarned, Closed, Expired,
         ghosts, store, upstream
<1> QED BY <1>2, <1>3, <1>4, <1>5, <1>6, <1>7

\* A reply of a remote service keeps it.
LEMMA RepliesKeep ==
    ASSUME IInv, NEW r \in Read, StatusReplies(r) \/ StandingReplies(r)
    PROVE  IInv'
<1> USE DEF IInv
<1>1. target[r] \in Session /\ target[r] \in issued /\ result[target[r]] # Absent
  BY DEF TypeOK, ReadsUnderway, CreatedOnce, StatusReplies, StandingReplies
<1>2. ClosedForGood' /\ CreatedOnce' /\ ResultOutlives' /\ ToldEarned'
  BY DEF StatusReplies, StandingReplies, ClosedForGood, CreatedOnce, ResultOutlives, ToldEarned,
         Closed, Expired, ghosts, store, upstream
<1>3. CASE StatusReplies(r)
  <2> USE <1>3 DEF StatusReplies, store, upstream, ghosts
  <2>1. PICK reply \in {Status(target[r]), Failed} : body' = [body EXCEPT ![r] = reply]
    OBVIOUS
  <2>2. /\ reply \in Presentation \cup {Pending, Gone, Failed}
        /\ reply \in Presentation => reply = result[target[r]]
        /\ reply = Gone => txnExpires[target[r]] <= now
        /\ txnExpires[target[r]] <= now => reply \in {Gone, Failed}
    BY <1>1, <2>1, Markers DEF Status, TypeOK
  <2>3. TypeOK'
    BY <2>1, <2>2 DEF TypeOK, Progress
  <2>4. ReadsUnderway' /\ BodyCurrent'
    BY <2>1, <2>2, Markers DEF TypeOK, ReadsUnderway, BodyCurrent
  <2>5. LoopProgress' /\ ActiveSeen'
    BY <2>1 DEF TypeOK, LoopProgress, ActiveSeen, CredentialAt
  <2>6. LateFindsNothing'
    BY <2>1, <2>2 DEF TypeOK, LateFindsNothing, Closed
  <2> QED BY <1>2, <2>3, <2>4, <2>5, <2>6
<1>4. CASE StandingReplies(r)
  <2> USE <1>4 DEF StandingReplies, store, upstream, ghosts
  <2>1. PICK reply \in {standing[CredentialAt(r)], "unknown"} :
            report' = [report EXCEPT ![r] = reply]
    OBVIOUS
  <2>2. CredentialAt(r) \in Credential
    <3>1. /\ body[r] \in Presentation
          /\ Requests[target[r]][slot[r]].id \in DOMAIN body[r].claims
          /\ CredentialAt(r) # NoCredential
      BY DEF LoopProgress, MayAsk, SlotPasses, Checkable, CredentialAt
    <3> QED BY <3>1, VerifierAssumption DEF VerifierAssumption, CredentialAt
  <2>3. TypeOK'
    BY <2>1, <2>2 DEF TypeOK, Progress
  <2>4. ReadsUnderway' /\ BodyCurrent' /\ LoopProgress' /\ LateFindsNothing'
    BY <2>1 DEF TypeOK, ReadsUnderway, BodyCurrent, LoopProgress, LateFindsNothing, Closed
  <2>5. ActiveSeen'
    BY <2>1, <2>2 DEF TypeOK, ActiveSeen, CredentialAt, Usable
  <2> QED BY <1>2, <2>3, <2>4, <2>5
<1> QED BY <1>3, <1>4

\* Beginning a read keeps it.
LEMMA BeginsKeep ==
    ASSUME IInv, NEW r \in Read, NEW s \in Session, BeginReadClosed(r, s) \/ BeginRead(r, s)
    PROVE  IInv'
<1> USE DEF IInv
<1>1. /\ pc[r] = "idle" /\ s \in issued
      /\ expiresAt' = Swept
      /\ UNCHANGED <<now, abandoned, creating, issued, upstream, standing>>
  BY DEF BeginReadClosed, BeginRead
<1>2. Swept \in [Session -> Nat] /\ \A t \in Session : Swept[t] <= expiresAt[t] /\ (Expired(t) => Swept[t] <= now)
  BY DEF Swept, TypeOK, Expired
<1>3. ResultOutlives'
  BY <1>1, <1>2, Markers DEF ResultOutlives, TypeOK, upstream
<1>4. CASE BeginReadClosed(r, s)
  <2> USE <1>4 DEF BeginReadClosed, store, upstream
  <2>1. PICK a \in Closing :
            /\ a = IF Expired(s) THEN "expired" ELSE "cancelled"
            /\ Expired(s) \/ Abandoned(s)
            /\ answer' = [answer EXCEPT ![r] = a]
            /\ history' = [history EXCEPT ![s] = @ \cup {a}]
    OBVIOUS
  <2>2. TypeOK'
    <3>1. a \in Answer /\ expiresAt' \in [Session -> Nat]
      BY <1>1, <1>2 DEF Answer
    <3>2. answer' \in [Read -> Answer] /\ history' \in [Session -> SUBSET (Decision \cup Closing)]
      BY <2>1, <3>1 DEF TypeOK
    <3> QED BY <3>1, <3>2 DEF TypeOK
  <2>3. ReadsUnderway' /\ BodyCurrent' /\ LoopProgress' /\ ActiveSeen'
    BY <2>1 DEF TypeOK, ReadsUnderway, BodyCurrent, LoopProgress, ActiveSeen, CredentialAt
  <2>4. LateFindsNothing'
    BY <2>1 DEF TypeOK, LateFindsNothing, Closed
  <2>5. ClosedForGood'
    BY <1>2, <2>1 DEF TypeOK, ClosedForGood, Closed, Expired, Abandoned
  <2>6. CreatedOnce' /\ ToldEarned'
    BY <2>1 DEF TypeOK, CreatedOnce, ToldEarned, Decision, Closing
  <2> QED BY <1>3, <2>2, <2>3, <2>4, <2>5, <2>6
<1>5. CASE BeginRead(r, s)
  <2> USE <1>5 DEF BeginRead, store, upstream
  <2>1. TypeOK'
    <3>1. Closed(s) \in BOOLEAN /\ expiresAt' \in [Session -> Nat]
      BY <1>1, <1>2 DEF Closed
    <3>2. "none" \in Answer /\ "getStatus" \in Progress
      BY DEF Answer, Progress
    <3>3. late' \in [Read -> BOOLEAN]
      BY <3>1, Zenon DEF TypeOK
    <3>4. seenActive' \in [Read -> SUBSET Credential]
      BY DEF TypeOK
    <3>5. /\ pc' \in [Read -> Progress] /\ answer' \in [Read -> Answer]
          /\ target' \in [Read -> Session \cup {NoSession}]
      BY <3>2 DEF TypeOK
    <3> QED BY <3>1, <3>3, <3>4, <3>5 DEF TypeOK
  <2>2. ReadsUnderway' /\ BodyCurrent' /\ LoopProgress' /\ ActiveSeen'
    <3>1. ReadsUnderway'
      BY Markers DEF TypeOK, ReadsUnderway
    <3>2. BodyCurrent'
      BY Markers DEF TypeOK, BodyCurrent
    <3>3. LoopProgress'
      BY DEF TypeOK, LoopProgress
    <3>4. ActiveSeen'
      BY DEF TypeOK, ActiveSeen, CredentialAt
    <3> QED BY <3>1, <3>2, <3>3, <3>4
  <2>3. LateFindsNothing'
    BY DEF TypeOK, LateFindsNothing, Closed, ClosedForGood, Live, Abandoned
  <2>4. ClosedForGood' /\ CreatedOnce' /\ ToldEarned'
    BY <1>2 DEF TypeOK, ClosedForGood, Closed, Expired, CreatedOnce, ToldEarned
  <2> QED BY <1>3, <2>1, <2>2, <2>3, <2>4
<1> QED BY <1>4, <1>5

\* The steps of session creation keep it.
LEMMA CreationKeeps ==
    ASSUME IInv, NEW s \in Session, RequestCreated(s) \/ FinishCreate(s) \/ CreateFails(s)
    PROVE  IInv'
<1> USE Markers DEF IInv
<1>1. CASE RequestCreated(s)
  <2> USE <1>1 DEF RequestCreated, handler, ghosts
  <2>1. s \notin issued /\ \A r \in Read : target[r] # s
    BY DEF CreatedOnce, ReadsUnderway
  <2>2. TypeOK'
    BY DEF TypeOK
  <2>3. ReadsUnderway' /\ BodyCurrent' /\ LoopProgress' /\ ActiveSeen'
    BY <2>1 DEF TypeOK, ReadsUnderway, BodyCurrent, LoopProgress, ActiveSeen, CredentialAt
  <2>4. LateFindsNothing' /\ ClosedForGood' /\ CreatedOnce'
    BY <2>1 DEF TypeOK, LateFindsNothing, ClosedForGood, Closed, CreatedOnce, Expired
  <2>5. ResultOutlives' /\ ToldEarned'
    BY <2>1 DEF TypeOK, ResultOutlives, ToldEarned, CreatedOnce
  <2> QED BY <2>2, <2>3, <2>4, <2>5
<1>2. CASE FinishCreate(s)
  <2> USE <1>2 DEF FinishCreate, handler, ghosts, upstream
  <2>1. /\ \A t \in Session : expiresAt'[t] <= now + TTL /\ expiresAt'[t] \in Nat
        /\ \A t \in Session \ {s} : expiresAt'[t] <= expiresAt[t] /\ (Expired(t) => Expired(t)')
        /\ history[s] = {} /\ result[s] = Pending /\ expiresAt' \in [Session -> Nat]
    BY DEF Swept, TypeOK, Expired, ResultOutlives, CreatedOnce
  <2>2. TypeOK'
    BY <2>1 DEF TypeOK
  <2>3. ReadsUnderway' /\ BodyCurrent' /\ LoopProgress' /\ ActiveSeen' /\ LateFindsNothing'
    BY DEF TypeOK, ReadsUnderway, BodyCurrent, LoopProgress, ActiveSeen, CredentialAt,
           LateFindsNothing, Closed
  <2>4. ClosedForGood' /\ CreatedOnce'
    BY <2>1 DEF TypeOK, ClosedForGood, Closed, CreatedOnce
  <2>5. ResultOutlives' /\ ToldEarned'
    BY <2>1 DEF TypeOK, ResultOutlives, ToldEarned
  <2> QED BY <2>2, <2>3, <2>4, <2>5
<1>3. CASE CreateFails(s)
  BY <1>3 DEF CreateFails, handler, ghosts, upstream, TypeOK, ReadsUnderway, BodyCurrent,
     LoopProgress, ActiveSeen, CredentialAt, LateFindsNothing, Closed, ClosedForGood, Expired,
     CreatedOnce, ResultOutlives, ToldEarned
<1> QED BY <1>1, <1>2, <1>3

\* A wallet's answer keeps it: what it stores outlives the session.
LEMMA WalletAnswersKeeps ==
    ASSUME IInv, NEW s \in Session, NEW p \in Presentation, WalletAnswers(s, p)
    PROVE  IInv'
<1> USE Markers DEF IInv, WalletAnswers, AwaitsWallet, RenewedExpiry, store, handler, ghosts
<1>1. TypeOK'
  BY DEF TypeOK
<1>2. result[s] = Pending /\ ~(txnExpires[s] <= now)
  BY DEF TypeOK
<1>3. ReadsUnderway' /\ BodyCurrent' /\ LoopProgress' /\ ActiveSeen'
  BY <1>2 DEF TypeOK, ReadsUnderway, BodyCurrent, LoopProgress, ActiveSeen, CredentialAt
<1>4. LateFindsNothing' /\ ClosedForGood'
  BY <1>2 DEF TypeOK, LateFindsNothing, ClosedForGood, Closed, Expired
<1>5. CreatedOnce'
  BY DEF TypeOK, CreatedOnce
<1>6. ResultOutlives' /\ ToldEarned'
  BY <1>2 DEF TypeOK, ResultOutlives, ToldEarned
<1> QED BY <1>1, <1>3, <1>4, <1>5, <1>6

\* A change of a credential's standing at its Authority keeps it.
LEMMA StandingChangesKeeps ==
    ASSUME IInv, NEW c \in Credential, NEW new \in Standing, StandingChanges(c, new)
    PROVE  IInv'
<1> USE DEF IInv, StandingChanges, store, upstream, handler
<1>1. TypeOK'
  <2>1. seenActive' \in [Read -> SUBSET Credential]
    BY DEF TypeOK
  <2>2. standing' \in [Credential -> Standing]
    BY DEF TypeOK
  <2> QED BY <2>1, <2>2 DEF TypeOK
<1>2. \A r \in Read : seenActive[r] \subseteq seenActive'[r]
  BY DEF TypeOK
<1>3. ReadsUnderway' /\ BodyCurrent' /\ LateFindsNothing' /\ ClosedForGood' /\ CreatedOnce'
      /\ ResultOutlives' /\ ToldEarned'
  BY DEF ReadsUnderway, BodyCurrent, LateFindsNothing, ClosedForGood, Closed, Expired, CreatedOnce,
         ResultOutlives, ToldEarned
<1>4. LoopProgress'
  BY <1>2 DEF LoopProgress
<1>5. ActiveSeen'
  BY <1>2 DEF TypeOK, ActiveSeen, CredentialAt
<1> QED BY <1>1, <1>3, <1>4, <1>5

\* A cancel, of a live or an expired session, keeps it.
LEMMA CancelKeeps ==
    ASSUME IInv, NEW s \in Session, Cancel(s)
    PROVE  IInv'
<1> USE DEF IInv, Cancel, upstream
<1>1. /\ Swept \in [Session -> Nat]
      /\ \A t \in Session : Swept[t] <= expiresAt[t] /\ (Expired(t) => Swept[t] <= now)
  BY DEF Swept, TypeOK, Expired
<1>2. PICK a \in Closing :
        /\ history' = [history EXCEPT ![s] = @ \cup {a}]
        /\ Expired(s) \/ s \in abandoned'
        /\ abandoned \subseteq abandoned' /\ abandoned' \subseteq Session
  BY DEF Closing, TypeOK
<1>3. /\ expiresAt' = Swept
      /\ UNCHANGED <<now, creating, issued, result, txnExpires, standing, seenActive, late>>
      /\ UNCHANGED <<pc, target, body, slot, report, answer>>
  BY DEF handler
<1>4. TypeOK'
  <2>1. history' \in [Session -> SUBSET (Decision \cup Closing)]
    BY <1>2 DEF TypeOK
  <2> QED BY <1>1, <1>2, <1>3, <2>1 DEF TypeOK
<1>5. ReadsUnderway' /\ BodyCurrent' /\ LoopProgress' /\ ActiveSeen'
  BY <1>3 DEF TypeOK, ReadsUnderway, BodyCurrent, LoopProgress, ActiveSeen, CredentialAt
<1>6. LateFindsNothing'
  BY <1>2, <1>3 DEF TypeOK, LateFindsNothing, Closed
<1>7. ClosedForGood'
  BY <1>1, <1>2, <1>3 DEF TypeOK, ClosedForGood, Closed, Expired
<1>8. CreatedOnce' /\ ToldEarned'
  BY <1>2, <1>3 DEF TypeOK, CreatedOnce, ToldEarned, Decision, Closing
<1>9. ResultOutlives'
  BY <1>1, <1>3, Markers DEF ResultOutlives, TypeOK
<1> QED BY <1>4, <1>5, <1>6, <1>7, <1>8, <1>9

\* The passing of time and a health check, which sweeps the store, keep it.
LEMMA ClockAndHealthKeep ==
    ASSUME IInv, Tick \/ Health
    PROVE  IInv'
<1> USE DEF IInv, upstream, handler, ghosts
<1>1. /\ expiresAt' \in [Session -> Nat] /\ now' \in Nat /\ now <= now'
      /\ \A t \in Session : expiresAt'[t] <= expiresAt[t] /\ (Expired(t) => expiresAt'[t] <= now')
      /\ now' \in 0 .. MaxTime
      /\ UNCHANGED <<abandoned, creating, issued, result, txnExpires, standing>>
      /\ UNCHANGED <<pc, target, body, slot, report, answer, seenActive, late, history>>
  BY VerifierAssumption DEF VerifierAssumption, Tick, Health, Swept, TypeOK, Expired, store
<1>2. TypeOK'
  BY <1>1 DEF TypeOK
<1>3. ReadsUnderway' /\ LoopProgress' /\ ActiveSeen'
  BY <1>1 DEF ReadsUnderway, LoopProgress, ActiveSeen, CredentialAt
<1>4. \A r \in Read : pc[r] # "idle" => target[r] \in Session /\ txnExpires[target[r]] \in Nat
  BY DEF ReadsUnderway, TypeOK
<1>5. now \in Nat
  BY VerifierAssumption DEF VerifierAssumption, TypeOK
<1>6. BodyCurrent'
  BY <1>1, <1>4, <1>5, Markers DEF BodyCurrent
<1>7. LateFindsNothing'
  BY <1>1, <1>4, <1>5 DEF LateFindsNothing, Closed
<1>8. ClosedForGood'
  BY <1>1 DEF TypeOK, ClosedForGood, Closed, Expired
<1>9. CreatedOnce' /\ ToldEarned'
  BY <1>1 DEF CreatedOnce, ToldEarned
<1>10. ResultOutlives'
  BY <1>1, Markers DEF ResultOutlives, TypeOK
<1> QED BY <1>2, <1>3, <1>7, <1>8, <1>9, <1>10, <1>6

\* A restart, which empties the store and the abandoned set, keeps it.
LEMMA RestartKeeps ==
    ASSUME IInv, Restart
    PROVE  IInv'
<1> USE Markers DEF IInv, Restart, upstream
<1>1. TypeOK'
  BY VerifierAssumption DEF TypeOK, Progress, VerifierAssumption
<1>2. ReadsUnderway' /\ BodyCurrent' /\ LoopProgress' /\ ActiveSeen' /\ LateFindsNothing'
  BY DEF ReadsUnderway, BodyCurrent, LoopProgress, ActiveSeen, LateFindsNothing
<1>3. /\ \A s \in Session : expiresAt'[s] = 0 /\ txnExpires[s] \in Nat
      /\ now \in Nat /\ UNCHANGED <<now, issued, result, txnExpires, history>> /\ creating' = {}
  BY VerifierAssumption DEF TypeOK, VerifierAssumption
<1>4. ClosedForGood'
  <2>1. \A s \in Session : expiresAt'[s] <= now'
    BY <1>3
  <2> QED BY <2>1 DEF ClosedForGood, Expired
<1>5. CreatedOnce' /\ ToldEarned'
  BY <1>3 DEF CreatedOnce, ToldEarned
<1>6. ResultOutlives'
  BY <1>3 DEF ResultOutlives
<1> QED BY <1>1, <1>2, <1>4, <1>5, <1>6

-----------------------------------------------------------------------------
\* Every step of the service keeps the invariant.
LEMMA NextKeeps ==
    ASSUME IInv, [Next]_vars
    PROVE  IInv'
<1>1. CASE Tick \/ Health
  BY <1>1, ClockAndHealthKeep
<1>2. CASE \E s \in Session : RequestCreated(s) \/ FinishCreate(s) \/ CreateFails(s)
  BY <1>2, CreationKeeps
<1>3. CASE \E s \in Session : Cancel(s)
  BY <1>3, CancelKeeps
<1>4. CASE \E s \in Session, p \in Presentation : WalletAnswers(s, p)
  BY <1>4, WalletAnswersKeeps
<1>5. CASE \E c \in Credential, new \in Standing : StandingChanges(c, new)
  BY <1>5, StandingChangesKeeps
<1>6. CASE \E r \in Read, s \in Session : BeginReadClosed(r, s) \/ BeginRead(r, s)
  BY <1>6, BeginsKeep
<1>7. CASE \E r \in Read : ServeRead(r)
  <2>1. PICK r \in Read : ServeRead(r)
    BY <1>7
  <2>2. CASE StatusReplies(r) \/ StandingReplies(r)
    BY <2>2, RepliesKeep
  <2>3. CASE ResumeWithoutResult(r) \/ ResumeRefused(r) \/ ResumeVerified(r) \/ ResumeStanding(r)
    BY <2>3, ResumeCases, FinishesKeeps, AsksKeeps
  <2> QED BY <2>1, <2>2, <2>3 DEF ServeRead
<1>8. CASE Restart
  BY <1>8, RestartKeeps
<1>9. CASE UNCHANGED vars
  BY <1>9 DEF vars, store, upstream, handler, ghosts, IInv, TypeOK, ReadsUnderway, BodyCurrent,
     LoopProgress, ActiveSeen, CredentialAt, LateFindsNothing, Closed, ClosedForGood, Expired,
     CreatedOnce, ResultOutlives, ToldEarned
<1> QED BY <1>1, <1>2, <1>3, <1>4, <1>5, <1>6, <1>7, <1>8, <1>9 DEF Next

\* In every reachable state the parts of the invariant hold together: this is what a
\* handler of readSession may rely on after each of its awaits.
THEOREM Invariance == Spec => []IInv
<1>1. Init => IInv
  BY InitIInv
<1>2. IInv /\ [Next]_vars => IInv'
  BY NextKeeps
<1> QED BY <1>1, <1>2, PTL DEF Spec

\* Every variable of server.mjs and of the services around it keeps its type, whatever
\* requests, trust policy and presentations the service is given.
THEOREM TypeCorrect == Spec => []TypeOK
<1>1. IInv => TypeOK
  BY DEF IInv
<1> QED BY <1>1, Invariance, PTL

-----------------------------------------------------------------------------
\* A step in which a handler answers is one of ResumeCases' answers.
LEMMA AnsweringSteps ==
    ASSUME IInv, Next, NEW r \in Read, Answers(r)
    PROVE  answer'[r] \in Answer /\ Finishes(r, answer'[r])
<1> USE DEF Answers
<1>1. pc \in [Read -> Progress] /\ answer \in [Read -> Answer]
  BY DEF IInv, TypeOK
<1>2. PICK q \in Read : ServeRead(q)
  <2>1. CASE Tick \/ Health
    BY <2>1 DEF Tick, Health, handler
  <2>2. CASE \E s \in Session : RequestCreated(s) \/ FinishCreate(s) \/ CreateFails(s) \/ Cancel(s)
    BY <2>2 DEF RequestCreated, FinishCreate, CreateFails, Cancel, handler
  <2>3. CASE \E s \in Session, p \in Presentation : WalletAnswers(s, p)
    BY <2>3 DEF WalletAnswers, handler
  <2>4. CASE \E c \in Credential, new \in Standing : StandingChanges(c, new)
    BY <2>4 DEF StandingChanges, handler
  <2>5. CASE \E q \in Read, s \in Session : BeginReadClosed(q, s) \/ BeginRead(q, s)
    BY <1>1, <2>5 DEF BeginReadClosed, BeginRead
  <2>6. CASE Restart
    BY <2>6 DEF Restart, IInv, ReadsUnderway
  <2> QED BY <2>1, <2>2, <2>3, <2>4, <2>5, <2>6 DEF Next
<1>3. CASE StatusReplies(q) \/ StandingReplies(q)
  BY <1>1, <1>3 DEF StatusReplies, StandingReplies
<1>4. CASE \E k \in Nat : Asks(q, k)
  BY <1>1, <1>4 DEF Asks, Ask
<1>5. CASE \E a \in Answer : Finishes(q, a)
  <2>1. PICK a \in Answer : Finishes(q, a)
    BY <1>5
  <2>2. q = r /\ answer'[r] = a
    BY <1>1, <2>1 DEF Finishes, Respond
  <2> QED BY <2>1, <2>2
<1> QED BY <1>2, <1>3, <1>4, <1>5, ResumeCases DEF ServeRead

\* Steps 1 to 4 of readSession: a decision is the business rule's, on the stored body of that
\* very session, and every check passed on it for every requested credential.
THEOREM DecisionIsEarned == Spec => DecisionEarned
<1>1. ASSUME IInv, Next, NEW r \in Read, Decides(r)
      PROVE  /\ body[r] \in Presentation
             /\ body[r] = result[target[r]]
             /\ answer'[r] = body[r].outcome
             /\ GatePasses(body[r], Requests[target[r]])
  BY <1>1, AnsweringSteps DEF Decides, Finishes, Earned
<1>2. IInv /\ [Next]_vars => [EarnedDecisions]_vars
  BY <1>1 DEF EarnedDecisions
<1> QED BY <1>2, Invariance, PTL DEF Spec, DecisionEarned

\* Step 3b of readSession: whatever the Authorities publish meanwhile, every credential whose
\* standing the request checks was ACTIVE at some moment of the read that decided.
THEOREM DecisionHadStanding == Spec => DecisionStanding
<1>1. ASSUME IInv, Next, NEW r \in Read, Decides(r)
      PROVE  \A k \in DOMAIN Requests[target[r]] :
                LET request == Requests[target[r]][k]
                IN  request.statusClaim =>
                        body[r].claims[request.id].credential \in seenActive[r]
  BY <1>1, AnsweringSteps DEF Decides, Finishes, Earned
<1>2. IInv /\ [Next]_vars => [StandingBehindDecisions]_vars
  BY <1>1 DEF StandingBehindDecisions
<1> QED BY <1>2, Invariance, PTL DEF Spec, DecisionStanding

\* A session some client was told is cancelled or expired is never decided on, nor reported
\* as waiting, by a read that begins afterwards, even across restarts of the service.
THEOREM ClosedForEver == Spec => ClosedStaysClosed
<1>1. ASSUME IInv, Next, NEW r \in Read, Answers(r), late[r]
      PROVE  answer'[r] \in Closing \cup {"error"}
  BY <1>1, AnsweringSteps DEF Finishes, Closing
<1>2. IInv /\ [Next]_vars => [LateReadsAreClosed]_vars
  BY <1>1 DEF LateReadsAreClosed
<1> QED BY <1>2, Invariance, PTL DEF Spec, ClosedStaysClosed

\* What a step does to a read that is under way: it leaves it where it is, answers it (or
\* loses it), brings the reply it awaits, or has it ask about a later credential.
LEMMA ReadCases ==
    ASSUME IInv, Next, NEW r \in Read, pc[r] # "idle", pc'[r] # pc[r]
    PROVE  \/ pc'[r] = "idle"
           \/ /\ <<pc[r], pc'[r]>> \in {<<"getStatus", "gotStatus">>, <<"getStanding", "gotStanding">>}
              /\ target'[r] = target[r] /\ slot'[r] = slot[r]
           \/ /\ pc[r] \in {"gotStatus", "gotStanding"} /\ pc'[r] = "getStanding"
              /\ target'[r] = target[r] /\ slot'[r] \in 1 .. Len(Requests[target[r]])
              /\ pc[r] = "gotStanding" => slot[r] < slot'[r]
<1>1. pc \in [Read -> Progress] /\ target \in [Read -> Session \cup {NoSession}]
      /\ slot \in [Read -> Nat]
  BY DEF IInv, TypeOK
<1>2. CASE UNCHANGED pc \/ Restart
  BY <1>2 DEF Restart
<1>3. CASE \E q \in Read, s \in Session : BeginReadClosed(q, s) \/ BeginRead(q, s)
  BY <1>1, <1>3 DEF BeginReadClosed, BeginRead
<1>4. ASSUME NEW q \in Read, ServeRead(q), q # r
      PROVE  FALSE
  <2>1. CASE StatusReplies(q) \/ StandingReplies(q)
    BY <1>1, <1>4, <2>1 DEF StatusReplies, StandingReplies
  <2>2. CASE \E k \in Nat : Asks(q, k)
    BY <1>1, <1>4, <2>2 DEF Asks, Ask
  <2>3. CASE \E a \in Answer : Finishes(q, a)
    BY <1>1, <1>4, <2>3 DEF Finishes, Respond
  <2> QED BY <1>4, <2>1, <2>2, <2>3, ResumeCases DEF ServeRead
<1>5. CASE StatusReplies(r) \/ StandingReplies(r)
  BY <1>1, <1>5 DEF StatusReplies, StandingReplies
<1>6. CASE \E k \in Nat : Asks(r, k)
  BY <1>1, <1>6 DEF Asks, Ask
<1>7. CASE \E a \in Answer : Finishes(r, a)
  BY <1>1, <1>7 DEF Finishes, Respond
<1>8. CASE ServeRead(r)
  BY <1>5, <1>6, <1>7, <1>8, ResumeCases DEF ServeRead
<1> QED BY <1>2, <1>3, <1>4, <1>8 DEF Next, Tick, Health, RequestCreated, FinishCreate,
        CreateFails, Cancel, WalletAnswers, StandingChanges, handler

\* Each reply a read takes up brings it nearer its answer, for any number of requested
\* credentials: the safety half of "every poll is answered".
THEOREM ReadsOnlyGoOn == Spec => ReadsAdvance
<1>1. ASSUME IInv, Next, NEW r \in Read, pc[r] # "idle", pc'[r] # pc[r]
      PROVE  StepsLeft(r)' < StepsLeft(r)
  <2> DEFINE slots == Len(Requests[target[r]])
  <2>1. target[r] \in Session /\ slot[r] \in Nat /\ pc[r] \in Progress
    BY <1>1 DEF IInv, TypeOK, ReadsUnderway
  <2>2. slots \in Nat
    BY <2>1, RequestsAreSequences
  <2>3. pc[r] \in {"getStanding", "gotStanding"} => slot[r] \in 1 .. slots
    BY <1>1 DEF IInv, LoopProgress
  <2>4. CASE pc'[r] = "idle"
    <3>1. StepsLeft(r)' = 0
      BY <2>4 DEF StepsLeft
    <3>2. StepsLeft(r) > 0
      BY <1>1, <2>1, <2>2, <2>3 DEF StepsLeft, Progress
    <3> QED BY <3>1, <3>2
  <2>5. CASE /\ <<pc[r], pc'[r]>> \in {<<"getStatus", "gotStatus">>, <<"getStanding", "gotStanding">>}
             /\ target'[r] = target[r] /\ slot'[r] = slot[r]
    BY <2>1, <2>2, <2>3, <2>5 DEF StepsLeft
  <2>6. CASE /\ pc[r] \in {"gotStatus", "gotStanding"} /\ pc'[r] = "getStanding"
             /\ target'[r] = target[r] /\ slot'[r] \in 1 .. slots
             /\ pc[r] = "gotStanding" => slot[r] < slot'[r]
    BY <2>1, <2>2, <2>3, <2>6 DEF StepsLeft
  <2> QED BY <1>1, <2>4, <2>5, <2>6, ReadCases
<1>2. IInv /\ [Next]_vars => [ReadsOnlyAdvance]_vars
  BY <1>1 DEF ReadsOnlyAdvance
<1> QED BY <1>2, Invariance, PTL DEF Spec, ReadsAdvance

\* Two polls of one session never report two different decisions, however they overlap.
THEOREM OneDecision == Spec => []DecisionsAgree
<1>1. IInv => DecisionsAgree
  BY DEF IInv, ToldEarned, DecisionsAgree
<1> QED BY <1>1, Invariance, PTL

\* A stored presentation stays readable upstream while the verifier serves its session.
THEOREM AnswersStayReadable == Spec => []AnswerReadable
<1>1. IInv => AnswerReadable
  <2> SUFFICES ASSUME IInv, NEW s \in Session, Live(s), result[s] \in Presentation
               PROVE  txnExpires[s] > now
    BY DEF AnswerReadable
  <2>1. expiresAt[s] \in Nat /\ txnExpires[s] \in Nat /\ now \in Nat
    BY VerifierAssumption DEF VerifierAssumption, IInv, TypeOK
  <2> QED BY <2>1 DEF IInv, ResultOutlives, Live, Expired
<1> QED BY <1>1, Invariance, PTL

-----------------------------------------------------------------------------
(***************************************************************************)
(* Verifier implements VerifierPromise.                                    *)
(***************************************************************************)
Justifieds == [s \in Session |-> Justified(s)]
Verdicts == [s \in Session |-> Reported(s)]
ClosedSessions == {s \in Session : Closed(s)}
Admitted == [s \in Session |-> Reading(s)]

\* Tellings that are no decisions do not change the verdict.
LEMMA SameDecisions ==
    ASSUME NEW s \in Session, \A d \in Decision : d \in history'[s] <=> d \in history[s]
    PROVE  Reported(s)' = Reported(s)
<1>1. (history'[s] \cap Decision = {}) <=> (history[s] \cap Decision = {})
  OBVIOUS
<1>2. (CHOOSE d \in Decision : d \in history'[s]) = CHOOSE d \in Decision : d \in history[s]
  OBVIOUS
<1> QED BY <1>1, <1>2 DEF Reported

\* A step that touches neither results, tellings nor running reads is a stutter.
LEMMA Stutters ==
    ASSUME UNCHANGED <<result, history>>, \A s \in Session : Reading(s)' = Reading(s)
    PROVE  UNCHANGED <<Justifieds, Verdicts, ClosedSessions, Admitted>>
BY DEF Justifieds, Verdicts, ClosedSessions, Admitted, Justified, Reported, Closed

\* A wallet's answer presents the session's verdict, or changes nothing the promise sees.
LEMMA WalletPresents ==
    ASSUME IInv, NEW s \in Session, NEW p \in Presentation, WalletAnswers(s, p)
    PROVE  /\ UNCHANGED <<Verdicts, ClosedSessions, Admitted>>
           /\ \/ UNCHANGED Justifieds
              \/ /\ Justified(s) = "none" /\ p.outcome \in Decision
                 /\ Justifieds' = [Justifieds EXCEPT ![s] = p.outcome]
<1> USE DEF WalletAnswers
<1>1. UNCHANGED <<history, pc, target, late>>
  BY DEF handler, ghosts
<1>2. UNCHANGED <<Verdicts, ClosedSessions, Admitted>>
  BY <1>1 DEF Verdicts, ClosedSessions, Admitted, Reported, Closed, Reading
<1>3. result[s] \notin Presentation /\ Justified(s) = "none"
  BY Markers DEF AwaitsWallet, Justified
<1>4. result'[s] = p /\ \A t \in Session \ {s} : result'[t] = result[t]
  BY DEF IInv, TypeOK
<1>5. \A t \in Session \ {s} : Justified(t)' = Justified(t)
  BY <1>4 DEF Justified
<1>6. Justified(s)' = "none" \/ (p.outcome \in Decision /\ Justified(s)' = p.outcome)
  BY <1>4 DEF Justified
<1>7. CASE Justified(s)' = "none"
  BY <1>2, <1>3, <1>5, <1>7 DEF Justifieds
<1>8. CASE p.outcome \in Decision /\ Justified(s)' = p.outcome
  BY <1>2, <1>3, <1>5, <1>8 DEF Justifieds
<1> QED BY <1>6, <1>7, <1>8

\* Telling a session cancelled or expired, outside any await, closes it.
LEMMA TellsClosed ==
    ASSUME IInv, NEW s \in Session, NEW a \in Closing,
           history' = [history EXCEPT ![s] = @ \cup {a}],
           UNCHANGED result, \A t \in Session : Reading(t)' = Reading(t)
    PROVE  /\ UNCHANGED <<Justifieds, Verdicts, Admitted>>
           /\ ClosedSessions' = ClosedSessions \cup {s}
<1>1. /\ history'[s] = history[s] \cup {a} /\ \A t \in Session \ {s} : history'[t] = history[t]
      /\ a \notin Decision
  BY DEF IInv, TypeOK, Closing, Decision
<1>2. \A t \in Session : \A d \in Decision : d \in history'[t] <=> d \in history[t]
  BY <1>1
<1>3. \A t \in Session : Reported(t)' = Reported(t)
  BY <1>2, SameDecisions
<1>4. \A t \in Session : Closed(t)' <=> Closed(t) \/ t = s
  BY <1>1 DEF Closed
<1> QED BY <1>3, <1>4 DEF Justifieds, Justified, Verdicts, Admitted, ClosedSessions

\* A handler's answer reports the justified verdict, or leaves without one.
LEMMA FinishReportsOrLeaves ==
    ASSUME IInv, IInv', NEW r \in Read, NEW a \in Answer, Finishes(r, a),
           NEW s \in Session, s = target[r]
    PROVE  /\ UNCHANGED Justifieds
           /\ Admitted' = [Admitted EXCEPT ![s] = @ \ {r}]
           /\ \/ /\ r \in Reading(s) /\ Justified(s) # "none"
                 /\ Verdicts' = [Verdicts EXCEPT ![s] = Justified(s)]
                 /\ UNCHANGED ClosedSessions
              \/ /\ r \in Reading(s)
                 /\ UNCHANGED Verdicts
                 /\ ClosedSessions' \in {ClosedSessions, ClosedSessions \cup {s}}
              \/ UNCHANGED <<Verdicts, ClosedSessions, Admitted>>
<1> USE DEF Finishes, Elsewhere, upstream
<1>1. s \in Session
  OBVIOUS
<1>2. UNCHANGED Justifieds
  BY DEF Justifieds, Justified
<1>3. /\ \A q \in Read \ {r} : pc'[q] = pc[q] /\ target'[q] = target[q] /\ late'[q] = late[q]
      /\ pc'[r] = "idle"
  BY DEF Respond, IInv, TypeOK
<1>4. Reading(s)' = Reading(s) \ {r} /\ \A t \in Session \ {s} : Reading(t)' = Reading(t)
  <2>1. \A t \in Session : Reading(t)' = Reading(t) \ {r}
    BY <1>3 DEF Reading
  <2>2. \A t \in Session \ {s} : r \notin Reading(t)
    BY DEF Reading
  <2> QED BY <2>1, <2>2
<1>5. Admitted' = [Admitted EXCEPT ![s] = @ \ {r}]
  BY <1>1, <1>4 DEF Admitted
<1>6. CASE a \in Decision
  <2>1. Earned(r) /\ a = body[r].outcome /\ ~late[r] /\ r \in Reading(s)
    BY <1>6, <1>1 DEF Reading
  <2>2. history' = [history EXCEPT ![s] = @ \cup {a}]
    BY <1>6 DEF Respond
  <2>3. a \in history'[s] /\ \A t \in Session \ {s} : history'[t] = history[t]
    BY <1>1, <2>2 DEF IInv, TypeOK
  <2>4. Justified(s) = a
    BY <1>6, <2>1 DEF Earned, Justified
  <2>5. Reported(s)' = a
    <3>1. \A d \in Decision : d \in history'[s] => d = a
      BY <1>1, <1>6, <2>3 DEF IInv, ToldEarned
    <3> QED BY <1>6, <2>3, <3>1 DEF Reported
  <2>6. \A t \in Session \ {s} : Reported(t)' = Reported(t) /\ (Closed(t)' <=> Closed(t))
    BY <2>3, SameDecisions DEF Closed
  <2>7. Closed(s)' <=> Closed(s)
    BY <1>1, <1>6, <2>2 DEF Closed, IInv, TypeOK, Closing, Decision
  <2>8. Verdicts' = [Verdicts EXCEPT ![s] = Justified(s)]
    BY <1>1, <2>4, <2>5, <2>6 DEF Verdicts
  <2>9. UNCHANGED ClosedSessions
    BY <1>1, <2>6, <2>7 DEF ClosedSessions
  <2>10. Justified(s) # "none"
    BY <1>6, <2>4 DEF Decision
  <2> QED BY <1>1, <1>2, <1>5, <2>1, <2>8, <2>9, <2>10
<1>7. CASE a \in Closing
  <2>1. history' = [history EXCEPT ![s] = @ \cup {a}] /\ a = "expired"
    BY <1>7 DEF Respond, Closing
  <2>2. /\ UNCHANGED Verdicts
        /\ ClosedSessions' = ClosedSessions \cup {s}
    <3>1. /\ \A t \in Session \ {s} : history'[t] = history[t]
          /\ history'[s] = history[s] \cup {a}
      BY <1>1, <2>1 DEF IInv, TypeOK
    <3>2. \A t \in Session : \A d \in Decision : d \in history'[t] <=> d \in history[t]
      BY <2>1, <3>1 DEF Decision
    <3>3. \A t \in Session : Reported(t)' = Reported(t)
      BY <3>2, SameDecisions
    <3>4. \A t \in Session : Closed(t)' <=> Closed(t) \/ t = s
      BY <1>1, <1>7, <3>1 DEF Closed
    <3> QED BY <1>1, <3>3, <3>4 DEF Verdicts, ClosedSessions
  <2>3. CASE late[r]
    <3>1. Closed(s) /\ r \notin Reading(s)
      BY <2>3 DEF IInv, LateFindsNothing, Reading
    <3>2. UNCHANGED <<ClosedSessions, Admitted>>
      BY <1>1, <1>4, <2>2, <3>1 DEF ClosedSessions, Admitted
    <3> QED BY <1>1, <1>2, <1>5, <2>2, <3>2
  <2>4. CASE ~late[r]
    <3>1. r \in Reading(s)
      BY <2>4 DEF Reading
    <3> QED BY <1>1, <1>2, <1>5, <2>2, <3>1
  <2> QED BY <2>3, <2>4
<1>8. CASE a \notin Decision \cup Closing
  <2>1. UNCHANGED history
    BY <1>8 DEF Respond
  <2>2. UNCHANGED <<Verdicts, ClosedSessions>>
    BY <2>1 DEF Verdicts, Reported, ClosedSessions, Closed
  <2>3. r \in Reading(s) \/ UNCHANGED Admitted
    BY <1>1, <1>4 DEF Admitted
  <2> QED BY <1>1, <1>2, <1>5, <2>2, <2>3
<1> QED BY <1>6, <1>7, <1>8

\* The service does what VerifierPromise promises: at most one verdict per session, justified
\* by its presentation, reported only to a read admitted before the session was closed.
THEOREM Implements == Spec => KeepsPromise
<1> USE DEF Promise!vars, Justifieds, Verdicts, ClosedSessions, Admitted
<1>1. Init => Promise!Init
  <2> SUFFICES ASSUME Init PROVE Promise!Init
    OBVIOUS
  <2>1. \A s \in Session : Justified(s) = "none" /\ Reported(s) = "none" /\ ~Closed(s)
    BY Markers DEF Init, Justified, Reported, Closed
  <2>2. \A s \in Session : Reading(s) = {}
    BY DEF Init, Reading
  <2> QED BY <2>1, <2>2 DEF Promise!Init
<1>2. IInv /\ [Next]_vars => [Promise!Next]_(Promise!vars)
  <2> SUFFICES ASSUME IInv, [Next]_vars PROVE [Promise!Next]_(Promise!vars)
    OBVIOUS
  <2>1. CASE Tick \/ Health \/ UNCHANGED vars
    <3>1. UNCHANGED <<result, history, pc, target, late>>
      BY <2>1 DEF Tick, Health, vars, upstream, handler, ghosts
    <3> QED BY <3>1, Stutters DEF Reading
  <2>2. CASE \E s \in Session : RequestCreated(s)
    <3>1. PICK s \in Session : RequestCreated(s)
      BY <2>2
    <3>2. /\ UNCHANGED <<history, pc, target, late>>
          /\ \A t \in Session \ {s} : result'[t] = result[t]
          /\ result[s] = Absent /\ result'[s] = Pending
      BY <3>1 DEF RequestCreated, handler, ghosts, IInv, TypeOK
    <3>3. \A t \in Session : Justified(t)' = Justified(t)
      BY <3>2, Markers DEF Justified
    <3> QED BY <3>2, <3>3 DEF Reading, Reported, Closed
  <2>3. CASE \E s \in Session : FinishCreate(s) \/ CreateFails(s)
    <3>1. UNCHANGED <<result, history, pc, target, late>>
      BY <2>3 DEF FinishCreate, CreateFails, upstream, handler, ghosts
    <3> QED BY <3>1, Stutters DEF Reading
  <2>4. CASE \E c \in Credential, new \in Standing : StandingChanges(c, new)
    <3>1. UNCHANGED <<result, history, pc, target, late>>
      BY <2>4 DEF StandingChanges, upstream, handler
    <3> QED BY <3>1, Stutters DEF Reading
  <2>5. CASE \E s \in Session : Cancel(s)
    <3>1. PICK s \in Session : Cancel(s)
      BY <2>5
    <3>2. PICK a \in Closing : history' = [history EXCEPT ![s] = @ \cup {a}]
      BY <3>1 DEF Cancel, Closing
    <3>3. UNCHANGED <<result, pc, target, late>>
      BY <3>1 DEF Cancel, upstream, handler
    <3> QED BY <3>2, <3>3, TellsClosed DEF Reading, Promise!Next, Promise!Close
  <2>6. CASE \E s \in Session, p \in Presentation : WalletAnswers(s, p)
    BY <2>6, WalletPresents DEF Promise!Next, Promise!Present
  <2>7. CASE \E r \in Read, s \in Session : BeginReadClosed(r, s)
    <3>1. PICK r \in Read, s \in Session : BeginReadClosed(r, s)
      BY <2>7
    <3>2. PICK a \in Closing : history' = [history EXCEPT ![s] = @ \cup {a}]
      BY <3>1 DEF BeginReadClosed
    <3>3. UNCHANGED <<result, pc, target, late>>
      BY <3>1 DEF BeginReadClosed, upstream
    <3> QED BY <3>2, <3>3, TellsClosed DEF Reading, Promise!Next, Promise!Close
  <2>8. CASE \E r \in Read, s \in Session : BeginRead(r, s)
    <3>1. PICK r \in Read, s \in Session : BeginRead(r, s)
      BY <2>8
    <3>2. UNCHANGED <<result, history>>
      BY <3>1 DEF BeginRead, upstream
    <3>3. /\ \A q \in Read \ {r} : pc'[q] = pc[q] /\ target'[q] = target[q] /\ late'[q] = late[q]
          /\ pc[r] = "idle" /\ pc'[r] = "getStatus" /\ target'[r] = s /\ (late'[r] <=> Closed(s))
      BY <3>1 DEF BeginRead, IInv, TypeOK
    <3>4. \A t \in Session \ {s} : Reading(t)' = Reading(t)
      BY <3>3 DEF Reading
    <3>5. \A t \in Session : r \notin Reading(t)
      BY <3>3 DEF Reading
    <3>6. CASE Closed(s)
      <4>1. Reading(s)' = Reading(s)
        BY <3>3, <3>6 DEF Reading
      <4> QED BY <3>2, <3>4, <4>1, Stutters
    <3>7. CASE ~Closed(s)
      <4>1. Reading(s)' = Reading(s) \cup {r}
        BY <3>3, <3>7 DEF Reading
      <4>2. Admitted' = [Admitted EXCEPT ![s] = @ \cup {r}]
        BY <3>4, <4>1
      <4>3. UNCHANGED <<Justifieds, Verdicts, ClosedSessions>>
        BY <3>2 DEF Justified, Reported, Closed
      <4> QED BY <3>5, <3>7, <4>2, <4>3 DEF Promise!Next, Promise!Admit
    <3> QED BY <3>6, <3>7
  <2>9. CASE \E r \in Read : ServeRead(r)
    <3>1. PICK r \in Read : ServeRead(r)
      BY <2>9
    <3>2. CASE StatusReplies(r) \/ StandingReplies(r) \/ \E k \in Nat : Asks(r, k)
      <4>1. /\ UNCHANGED <<result, history, target, late>>
            /\ \A q \in Read : pc'[q] # "idle" <=> pc[q] # "idle"
        BY <3>2 DEF StatusReplies, StandingReplies, Asks, Ask, Elsewhere, upstream, ghosts, IInv, TypeOK
      <4> QED BY <4>1, Stutters DEF Reading
    <3>3. CASE \E a \in Answer : Finishes(r, a)
      <4>1. target[r] \in Session
        BY <3>3 DEF Finishes, IInv, TypeOK, ReadsUnderway
      <4>2. IInv'
        BY NextKeeps
      <4> QED BY <3>3, <4>1, <4>2, FinishReportsOrLeaves DEF Promise!Next, Promise!Report, Promise!Leave
    <3> QED BY <3>1, <3>2, <3>3, ResumeCases DEF ServeRead
  <2>10. CASE Restart
    <3>1. \A s \in Session : Reading(s)' = {}
      BY <2>10 DEF Restart, Reading
    <3>2. UNCHANGED <<Justifieds, Verdicts, ClosedSessions>>
      BY <2>10 DEF Restart, upstream, Justified, Reported, Closed
    <3> QED BY <3>1, <3>2 DEF Promise!Next, Promise!Stop
  <2> QED BY <2>1, <2>2, <2>3, <2>4, <2>5, <2>6, <2>7, <2>8, <2>9, <2>10 DEF Next
<1> QED BY <1>1, <1>2, Invariance, PTL DEF Spec, KeepsPromise, Promise!Spec

=============================================================================
