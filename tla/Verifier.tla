------------------------------ MODULE Verifier ------------------------------
(***************************************************************************)
(* The verifier service, services/verifier/src/server.mjs: the sessions it *)
(* holds in memory, and the requests it serves.  A GET of a session is a   *)
(* handler that awaits two kinds of remote answer, so several of them, a   *)
(* cancel, a presentation and a change at the Authority interleave.  One   *)
(* action is the code a handler runs between two awaits, or one event of a *)
(* service it talks to.                                                    *)
(*                                                                         *)
(* External, modelled as this service uses them: the transactions of       *)
(* oid4vc-service (single use, with a time to live that a result renews),  *)
(* the holder's wallet, and the standing of a credential at its Authority. *)
(***************************************************************************)
EXTENDS PresentationGate, FiniteSets

CONSTANTS
    Session,        \* the transaction ids oid4vc-service may mint
    Read,           \* GET requests that can be in flight at once
    Credential,     \* the identifiers credentials carry at their Authority
    Presentation,   \* the bodies a wallet's answer can lead to
    Requests,       \* session -> sequence of its use case's requests
    TTL,            \* SESSION_TTL_SECONDS, and VP_TXN_TTL, which it mirrors
    MaxTime,        \* bound on the clock
    Standing,       \* the standings an Authority publishes in this instance
    NoSession,      \* the target of a handler that is not running
    Absent, Pending, Gone, Failed   \* markers that are no presentation

Decision == {"ELIGIBLE", "NOT_ELIGIBLE"}
\* Answers after which a page is never shown a different state.
Closing == {"cancelled", "expired"}
Answer == Decision \cup Closing \cup {"none", "waiting", "declined", "rejected", "error"}

ASSUME VerifierAssumption ==
    /\ TTL \in Nat \ {0}
    /\ MaxTime \in Nat
    /\ "ACTIVE" \in Standing /\ Standing \subseteq {"ACTIVE", "SUSPENDED", "INACTIVE", "REVOKED"}
    /\ \A s \in Session : Requests[s] \in Seq([id : STRING, role : STRING \cup {NoRole},
                                expectedClaims : SUBSET STRING, statusClaim : BOOLEAN])
    /\ \A p \in Presentation :
        /\ p.outcome \in Decision \cup {"throws"}
        /\ \A i \in DOMAIN p.claims : p.claims[i].credential \in Credential \cup {NoCredential}
    /\ NoSession \notin Session
    /\ {Absent, Pending, Gone, Failed} \cap Presentation = {}
    /\ Absent # Pending /\ Absent # Gone /\ Absent # Failed
    /\ Pending # Gone /\ Pending # Failed /\ Gone # Failed

VARIABLES
    now,          \* the clock
    expiresAt,    \* sessions.mjs: the expiry of a stored session, 0 if none
    abandoned,    \* server.mjs: the sessions the verifier has given up on
    creating,     \* sessions whose createRequest is outstanding
    issued,       \* session ids handed to a page
    result,       \* oid4vc-service: Absent, Pending or the stored body
    txnExpires,   \* oid4vc-service: when the transaction is dropped
    standing,     \* the Authority: each credential's published standing
    pc,           \* where each GET handler is
    target,       \* the session it reads
    body,         \* the /vp/status reply it received
    slot,         \* the request it is at in the per-credential loop
    report,       \* the Authority's reply it received
    answer,       \* what it answered last
    seenActive,   \* history: credentials ACTIVE at some time during the read
    late,         \* history: the session was closed before the read began
    history       \* history: decisions and closings told, per session

store    == <<expiresAt, abandoned, creating, issued>>
upstream == <<result, txnExpires>>
handler  == <<pc, target, body, slot, report, answer>>
ghosts   == <<seenActive, late, history>>
vars == <<now, store, upstream, standing, handler, ghosts>>

-----------------------------------------------------------------------------
(***************************************************************************)
(* The session store.  Every operation sweeps before it acts, so a stored  *)
(* session that has reached its expiry is never found.                     *)
(***************************************************************************)
Expired(s) == expiresAt[s] <= now

Live(s) == ~Expired(s)

Swept == [s \in Session |-> IF Expired(s) THEN 0 ELSE expiresAt[s]]

-----------------------------------------------------------------------------
Init ==
    /\ now = 0
    /\ expiresAt = [s \in Session |-> 0]
    /\ abandoned = {} /\ creating = {} /\ issued = {}
    /\ result = [s \in Session |-> Absent]
    /\ txnExpires = [s \in Session |-> 0]
    /\ standing = [c \in Credential |-> "ACTIVE"]
    /\ pc = [r \in Read |-> "idle"]
    /\ target = [r \in Read |-> NoSession]
    /\ body = [r \in Read |-> Absent]
    /\ slot = [r \in Read |-> 0]
    /\ report = [r \in Read |-> "none"]
    /\ answer = [r \in Read |-> "none"]
    /\ seenActive = [r \in Read |-> {}]
    /\ late = [r \in Read |-> FALSE]
    /\ history = [s \in Session |-> {}]

Tick ==
    /\ now < MaxTime
    /\ now' = now + 1
    /\ UNCHANGED <<store, upstream, standing, handler, ghosts>>

-----------------------------------------------------------------------------
(***************************************************************************)
(* POST /sessions: one await on createRequest, then the store.  The page   *)
(* learns the id, and the wallet the QR, only from the response.           *)
(***************************************************************************)
RequestCreated(s) ==
    /\ result[s] = Absent
    /\ result' = [result EXCEPT ![s] = Pending]
    /\ txnExpires' = [txnExpires EXCEPT ![s] = now + TTL]
    /\ creating' = creating \cup {s}
    /\ UNCHANGED <<now, expiresAt, abandoned, issued, standing, handler, ghosts>>

FinishCreate(s) ==
    /\ s \in creating
    /\ creating' = creating \ {s}
    /\ expiresAt' = [Swept EXCEPT ![s] = now + TTL]
    /\ issued' = issued \cup {s}
    /\ UNCHANGED <<now, abandoned, upstream, standing, handler, ghosts>>

\* createRequest throws although the transaction exists: 500, nothing stored.
CreateFails(s) ==
    /\ s \in creating
    /\ creating' = creating \ {s}
    /\ UNCHANGED <<now, expiresAt, abandoned, issued, upstream, standing, handler, ghosts>>

(***************************************************************************)
(* External: the wallet answers once, while the transaction is pending.    *)
(* Storing the outcome renews the transaction's time to live.              *)
(***************************************************************************)
AnswersAgain(s) == result[s] # Absent /\ txnExpires[s] > now

AwaitsWallet(s) == result[s] = Pending /\ txnExpires[s] > now

KeptExpiry(s) == txnExpires[s]

RenewedExpiry(s) == now + TTL

WalletAnswers(s, p) ==
    /\ s \in issued
    /\ AwaitsWallet(s)
    /\ result' = [result EXCEPT ![s] = p]
    /\ txnExpires' = [txnExpires EXCEPT ![s] = RenewedExpiry(s)]
    /\ UNCHANGED <<now, store, standing, handler, ghosts>>

(***************************************************************************)
(* External: the Authority's published standing.  INACTIVE and REVOKED are *)
(* terminal, except that revocation overrides inactivity.                  *)
(***************************************************************************)
MayBecome(old, new) ==
    \/ old = "ACTIVE" /\ new \in {"SUSPENDED", "INACTIVE", "REVOKED"}
    \/ old = "SUSPENDED" /\ new \in {"ACTIVE", "INACTIVE", "REVOKED"}
    \/ old = "INACTIVE" /\ new = "REVOKED"

StandingChanges(c, new) ==
    /\ MayBecome(standing[c], new)
    /\ standing' = [standing EXCEPT ![c] = new]
    /\ seenActive' = [r \in Read |->
            IF new = "ACTIVE" /\ pc[r] # "idle" THEN seenActive[r] \cup {c} ELSE seenActive[r]]
    /\ UNCHANGED <<now, store, upstream, handler, late, history>>

-----------------------------------------------------------------------------
(***************************************************************************)
(* POST /sessions/:id/cancel: no await, so it is one step.                 *)
(***************************************************************************)
Cancel(s) ==
    /\ s \in issued
    /\ expiresAt' = Swept
    /\ \/ /\ Live(s)
          /\ abandoned' = abandoned \cup {s}
          /\ history' = [history EXCEPT ![s] = @ \cup {"cancelled"}]
       \/ /\ Expired(s)
          /\ abandoned' = abandoned
          /\ history' = [history EXCEPT ![s] = @ \cup {"expired"}]
    /\ UNCHANGED <<now, creating, issued, upstream, standing, handler, seenActive, late>>

\* GET /healthz reads sessions.size, and so sweeps.
Health ==
    /\ expiresAt' = Swept
    /\ UNCHANGED <<now, abandoned, creating, issued, upstream, standing, handler, ghosts>>

-----------------------------------------------------------------------------
(***************************************************************************)
(* GET /sessions/:id, readSession.                                         *)
(***************************************************************************)
Respond(r, a) ==
    /\ pc' = [pc EXCEPT ![r] = "idle"]
    /\ answer' = [answer EXCEPT ![r] = a]
    /\ history' = IF a \in Decision \cup Closing
                  THEN [history EXCEPT ![target[r]] = @ \cup {a}] ELSE history
    /\ target' = [target EXCEPT ![r] = NoSession]
    /\ body' = [body EXCEPT ![r] = Absent]
    /\ slot' = [slot EXCEPT ![r] = 0]
    /\ report' = [report EXCEPT ![r] = "none"]
    /\ seenActive' = [seenActive EXCEPT ![r] = {}]
    /\ late' = [late EXCEPT ![r] = FALSE]

Closed(s) == history[s] \cap Closing # {}

AbandonedUntilAnswered(s) == s \in abandoned /\ result[s] = Pending

\* Given up on, as far as a read that is starting can see.
Abandoned(s) == s \in abandoned

\* The two answers that need no await.
BeginReadClosed(r, s) ==
    /\ pc[r] = "idle"
    /\ s \in issued
    /\ expiresAt' = Swept
    /\ \E a \in Closing :
        /\ a = IF Expired(s) THEN "expired" ELSE "cancelled"
        /\ Expired(s) \/ Abandoned(s)
        /\ answer' = [answer EXCEPT ![r] = a]
        /\ history' = [history EXCEPT ![s] = @ \cup {a}]
    /\ UNCHANGED <<now, abandoned, creating, issued, upstream, standing,
                   pc, target, body, slot, report, seenActive, late>>

BeginRead(r, s) ==
    /\ pc[r] = "idle"
    /\ s \in issued
    /\ expiresAt' = Swept
    /\ Live(s) /\ ~Abandoned(s)
    /\ pc' = [pc EXCEPT ![r] = "getStatus"]
    /\ target' = [target EXCEPT ![r] = s]
    /\ answer' = [answer EXCEPT ![r] = "none"]
    /\ late' = [late EXCEPT ![r] = Closed(s)]
    /\ seenActive' = [seenActive EXCEPT ![r] = {c \in Credential : standing[c] = "ACTIVE"}]
    /\ UNCHANGED <<now, abandoned, creating, issued, upstream, standing,
                   body, slot, report, history>>

\* External: oid4vc-service reads its store (or the call fails) and replies.
Status(s) == IF txnExpires[s] <= now THEN Gone ELSE result[s]

StatusReplies(r) ==
    /\ pc[r] = "getStatus"
    /\ pc' = [pc EXCEPT ![r] = "gotStatus"]
    /\ \E reply \in {Status(target[r]), Failed} : body' = [body EXCEPT ![r] = reply]
    /\ UNCHANGED <<now, store, upstream, standing, target, slot, report, answer, ghosts>>

(***************************************************************************)
(* The loop over the requested credentials runs on to the first slot that  *)
(* refuses or has to ask the Authority; Len + 1 when there is none.        *)
(***************************************************************************)
Stops(p, request) == ~SlotPasses(p, request) \/ request.statusClaim

FirstStopOnly(p, requests, from, k) == k = IF from = 1 THEN 1 ELSE Len(requests) + 1

NextStop(p, requests, from, k) ==
    /\ k \in DOMAIN requests => Stops(p, requests[k])
    /\ \A j \in from .. k - 1 : ~Stops(p, requests[j])

\* Where the loop stops, the Authority is asked if the slot's own checks allow it.
MayAsk(p, request) == SlotPasses(p, request) /\ Checkable(p.claims[request.id])

\* Every requested credential passed: the business rule decides, or throws.
Decide(r) ==
    \/ body[r].outcome \in Decision /\ Respond(r, body[r].outcome)
    \/ body[r].outcome = "throws" /\ Respond(r, "rejected")

Ask(r, k) ==
    /\ pc' = [pc EXCEPT ![r] = "getStanding"]
    /\ slot' = [slot EXCEPT ![r] = k]
    /\ report' = [report EXCEPT ![r] = "none"]
    /\ UNCHANGED <<target, body, answer, ghosts>>

\* The synchronous code from slot `from' to the next await or the answer.
RunOn(r, from) ==
    LET p == body[r]
        requests == Requests[target[r]]
    IN  \E k \in from .. Len(requests) + 1 :
            /\ NextStop(p, requests, from, k)
            /\ \/ k = Len(requests) + 1 /\ Decide(r)
               \/ k <= Len(requests) /\ MayAsk(p, requests[k]) /\ Ask(r, k)
               \/ k <= Len(requests) /\ ~MayAsk(p, requests[k]) /\ Respond(r, "rejected")

ResumeWithoutResult(r) ==
    /\ pc[r] = "gotStatus"
    /\ \/ body[r] = Gone /\ Respond(r, "expired")
       \/ body[r] = Failed /\ Respond(r, "error")
       \/ body[r] = Pending /\ Respond(r, "waiting")
    /\ UNCHANGED <<now, store, upstream, standing>>

ResumeRefused(r) ==
    /\ pc[r] = "gotStatus"
    /\ body[r] \in Presentation
    /\ \/ Declined(body[r]) /\ Respond(r, "declined")
       \/ /\ ~Declined(body[r])
          /\ ~ChecksPass(body[r]) \/ ~AlgorithmsApproved(body[r].algs)
          /\ Respond(r, "rejected")
    /\ UNCHANGED <<now, store, upstream, standing>>

ResumeVerified(r) ==
    /\ pc[r] = "gotStatus"
    /\ body[r] \in Presentation
    /\ ChecksPass(body[r]) /\ AlgorithmsApproved(body[r].algs)
    /\ RunOn(r, 1)
    /\ UNCHANGED <<now, store, upstream, standing>>

CredentialAt(r) == body[r].claims[Requests[target[r]][slot[r]].id].credential

\* External: the Authority answers, or cannot be reached, errs, or times out.
StandingReplies(r) ==
    /\ pc[r] = "getStanding"
    /\ pc' = [pc EXCEPT ![r] = "gotStanding"]
    /\ \E reply \in {standing[CredentialAt(r)], "unknown"} :
            report' = [report EXCEPT ![r] = reply]
    /\ UNCHANGED <<now, store, upstream, standing, target, body, slot, answer, ghosts>>

SameSlot(r) == slot[r]

NextSlot(r) == slot[r] + 1

ResumeStanding(r) ==
    /\ pc[r] = "gotStanding"
    /\ \/ Usable(report[r]) /\ RunOn(r, NextSlot(r))
       \/ ~Usable(report[r]) /\ Respond(r, "rejected")
    /\ UNCHANGED <<now, store, upstream, standing>>

-----------------------------------------------------------------------------
(***************************************************************************)
(* The process stops and starts again: sessions, the abandoned set and the *)
(* requests in flight are lost, the transactions upstream are not.         *)
(***************************************************************************)
Restart ==
    /\ expiresAt' = [s \in Session |-> 0]
    /\ abandoned' = {}
    /\ creating' = {}
    /\ pc' = [r \in Read |-> "idle"]
    /\ target' = [r \in Read |-> NoSession]
    /\ body' = [r \in Read |-> Absent]
    /\ slot' = [r \in Read |-> 0]
    /\ report' = [r \in Read |-> "none"]
    /\ seenActive' = [r \in Read |-> {}]
    /\ late' = [r \in Read |-> FALSE]
    /\ UNCHANGED <<now, issued, upstream, standing, answer, history>>

-----------------------------------------------------------------------------
ServeRead(r) ==
    \/ StatusReplies(r)
    \/ ResumeWithoutResult(r)
    \/ ResumeRefused(r)
    \/ ResumeVerified(r)
    \/ StandingReplies(r)
    \/ ResumeStanding(r)

Next ==
    \/ Tick
    \/ \E s \in Session : RequestCreated(s) \/ FinishCreate(s) \/ CreateFails(s) \/ Cancel(s)
    \/ \E s \in Session, p \in Presentation : WalletAnswers(s, p)
    \/ \E c \in Credential, new \in Standing : StandingChanges(c, new)
    \/ \E r \in Read, s \in Session : BeginReadClosed(r, s) \/ BeginRead(r, s)
    \/ \E r \in Read : ServeRead(r)
    \/ Health
    \/ Restart

Spec == Init /\ [][Next]_vars

-----------------------------------------------------------------------------
(***************************************************************************)
(* Properties.                                                             *)
(***************************************************************************)
Progress == {"idle", "getStatus", "gotStatus", "getStanding", "gotStanding"}

\* Every variable of server.mjs and of the services around it keeps its type.
TypeOK ==
    /\ now \in 0 .. MaxTime
    /\ expiresAt \in [Session -> Nat]
    /\ abandoned \subseteq Session /\ creating \subseteq Session /\ issued \subseteq Session
    /\ result \in [Session -> Presentation \cup {Absent, Pending}]
    /\ txnExpires \in [Session -> Nat]
    /\ standing \in [Credential -> Standing]
    /\ pc \in [Read -> Progress]
    /\ target \in [Read -> Session \cup {NoSession}]
    /\ body \in [Read -> Presentation \cup {Absent, Pending, Gone, Failed}]
    /\ slot \in [Read -> Nat]
    /\ report \in [Read -> Standing \cup {"none", "unknown"}]
    /\ answer \in [Read -> Answer]
    /\ seenActive \in [Read -> SUBSET Credential]
    /\ late \in [Read -> BOOLEAN]
    /\ history \in [Session -> SUBSET (Decision \cup Closing)]

\* The step in which handler r, having awaited something, sends its answer.
Answers(r) == pc[r] # "idle" /\ pc'[r] = "idle" /\ answer'[r] # "none"

Decides(r) == Answers(r) /\ answer'[r] \in Decision

EarnedDecisions ==
    \A r \in Read : Decides(r) =>
        /\ body[r] \in Presentation
        /\ body[r] = result[target[r]]
        /\ answer'[r] = body[r].outcome
        /\ GatePasses(body[r], Requests[target[r]])

\* A decision is the business rule's answer on the body upstream stored for that very
\* session, and every check of steps 1 to 3 passed on it for every requested credential
\* (readSession, steps 1-4: no early slot stands in for a later one).
DecisionEarned == [][EarnedDecisions]_vars

StandingBehindDecisions ==
    \A r \in Read : Decides(r) =>
        \A k \in DOMAIN Requests[target[r]] :
            LET request == Requests[target[r]][k]
            IN  request.statusClaim => body[r].claims[request.id].credential \in seenActive[r]

\* Behind every decision, each credential whose standing the request checks was ACTIVE at
\* its Authority at some moment of that same read: a credential withdrawn before the read
\* began is never decided on, whatever an earlier read was told (readSession, step 3b).
DecisionStanding == [][StandingBehindDecisions]_vars

\* The replies a read can still have to wait for and to take up: two for the status and two
\* for each credential the loop has not passed.
StepsLeft(r) ==
    LET slots == Len(Requests[target[r]])
    IN  CASE pc[r] = "idle" -> 0
          [] pc[r] = "getStatus" -> 2 * slots + 2
          [] pc[r] = "gotStatus" -> 2 * slots + 1
          [] pc[r] = "getStanding" -> 2 * (slots - slot[r]) + 2
          [] pc[r] = "gotStanding" -> 2 * (slots - slot[r]) + 1

ReadsOnlyAdvance ==
    \A r \in Read : pc[r] # "idle" /\ pc'[r] # pc[r] => StepsLeft(r)' < StepsLeft(r)

\* Whatever other handlers, wallets and Authorities do, each reply a read takes up brings it
\* nearer its answer: it asks for the status once, then at most once about each requested
\* credential, in order and never about one it has passed (readSession's loop, step 3b).
ReadsAdvance == [][ReadsOnlyAdvance]_vars

\* However many overlapping polls read a session, they never report two different decisions
\* on it: a transaction is answered once, and readSession decides again on each poll.
DecisionsAgree ==
    \A s \in Session : \A a, b \in history[s] \cap Decision : a = b

LateReadsAreClosed ==
    \A r \in Read : Answers(r) /\ late[r] => answer'[r] \in Closing \cup {"error"}

\* Once any client was told that a session is cancelled or expired, a read that begins
\* later reports neither a decision nor that it is still waiting, across restarts: the
\* abandoned mark, the session and the transaction are never forgotten in the wrong order.
ClosedStaysClosed == [][LateReadsAreClosed]_vars

\* A presentation that was stored stays readable upstream for as long as the verifier serves
\* its session, because storing the result renews the transaction's time to live: a page
\* that keeps polling is not told "expired" about an answered request it could still read.
AnswerReadable ==
    \A s \in Session : Live(s) /\ result[s] \in Presentation => txnExpires[s] > now

(***************************************************************************)
(* The promise this service keeps, and how its state realises it.          *)
(***************************************************************************)
Justified(s) ==
    IF result[s] \in Presentation /\ GatePasses(result[s], Requests[s])
         /\ result[s].outcome \in Decision
    THEN result[s].outcome ELSE "none"

Reported(s) ==
    IF history[s] \cap Decision = {} THEN "none" ELSE CHOOSE d \in Decision : d \in history[s]

Reading(s) == {r \in Read : pc[r] # "idle" /\ target[r] = s /\ ~late[r]}

Promise == INSTANCE VerifierPromise WITH
    Verdict <- Decision,
    NoVerdict <- "none",
    justified <- [s \in Session |-> Justified(s)],
    verdict <- [s \in Session |-> Reported(s)],
    closed <- {s \in Session : Closed(s)},
    reading <- [s \in Session |-> Reading(s)]

\* The verifier implements VerifierPromise: one verdict per session, justified by its
\* presentation, reported only to a read admitted before the session was closed.
KeepsPromise == Promise!Spec

(***************************************************************************)
(* Liveness.  Node resumes a handler whose awaited answer has come, and    *)
(* each awaited call ends (an answer, a network error or a timeout).       *)
(***************************************************************************)
FairSpec == Spec /\ \A r \in Read : WF_vars(ServeRead(r))

\* Every GET is answered: readSession's loop over the requests makes progress past each
\* status check, whatever the Authority and the other handlers do meanwhile.
ReadAnswered == \A r \in Read : pc[r] # "idle" ~> pc[r] = "idle"

(***************************************************************************)
(* What the comments of server.mjs say, and the code does not do.          *)
(***************************************************************************)
\* "it will not report a decision for that request afterwards even if a presentation turns
\* up late" (server.mjs, on abandoned): after a cancel was answered, no new decision on that
\* session is reported, by any handler.
NoDecisionAfterCancel ==
    [][\A s \in Session : "cancelled" \in history[s] =>
            history'[s] \cap Decision \subseteq history[s]]_vars

=============================================================================
