---------------------------- MODULE WalletJourney -----------------------------
(***************************************************************************)
(* A holder's application from end to end, against a verifier that may be  *)
(* restarted or recreated at any moment: the wallet drivers of scripts/    *)
(* (wallet-agriculture.mjs and wallet-education.mjs, "hand", and           *)
(* check-film-subject.mjs, "film"), the request the verifier builds        *)
(* (core/dcql.mjs, createSession), and the trust its boot resolved.  What  *)
(* the drivers disclose is read from the published policy, the request     *)
(* from the session: two reads with a verifier's lifetime between them.    *)
(*                                                                         *)
(* External: the transactions of oid4vc-service, which outlive a verifier; *)
(* the issuers, which may come to sign with another DID; and what the      *)
(* Authority answers of a card's standing, which is any answer at any      *)
(* read: when it changes between the awaits of a read is Verifier's.       *)
(***************************************************************************)
EXTENDS VerifierBoot

CONSTANTS
    Session, NoSession,
    Role,          \* the credentials the use case asks for
    Claim,
    DomainClaims,  \* what the domain module asks of each credential
    StatusClaim,   \* what it asks as well when the standing is checked
    Kind,          \* the drivers in this instance
    Carried,       \* what each driver's credentials can disclose
    MustHold,      \* the records without which the hand driver does not go on
    OneSigner,     \* the use case has no signing instance of its own
    Applications,  \* how often check-film-subject applies
    MaxChanges     \* bound on what issuers and the Authority change

\* No issuer of config/trust may stand for two roles.
ASSUME OneRoleEach ==
    \A e \in Entry : \A r, q \in File[e].roles : r = q

ASSUME JourneyAssumption ==
    /\ NoSession \notin Session
    /\ Role \subseteq STRING /\ Role # {}
    /\ DomainClaims \in [Role -> SUBSET Claim] /\ StatusClaim \in Claim
    /\ \A r \in Role : StatusClaim \notin DomainClaims[r]
    /\ Kind \subseteq {"hand", "film"}
    /\ Carried \in [Kind -> [Role -> SUBSET Claim]]
    /\ MustHold \subseteq Role
    /\ OneSigner \in BOOLEAN
    /\ Applications \in Nat /\ MaxChanges \in Nat

VARIABLES
    author,      \* the DID each issuer signs with
    remembered,  \* the sessions in the verifier's memory
    txn,         \* oid4vc-service: each session's transaction
    asked,       \* the claims its request asks for
    shown,       \* the claims a holder disclosed to it
    signedBy,    \* the issuers of the credentials presented
    verdict,     \* what a read of the session has answered
    kind, pc, held, plan, session,   \* the driver
    applied,     \* how often it has read an answer
    changes      \* bound: changes of issuers and of the Authority so far

transactions == <<txn, asked, shown, signedBy>>
driver == <<kind, pc, held, plan, session, applied>>
vars == <<bootVars, author, remembered, transactions, verdict, driver, changes>>

Nothing == [r \in Role |-> {}]
Nobody == [r \in Role |-> NoDID]

JourneyTypeOK ==
    /\ BootTypeOK
    /\ author \in [Role -> DID]
    /\ remembered \subseteq Session
    /\ txn \in [Session -> {"none", "pending", "answered", "gone"}]
    /\ asked \in [Session -> [Role -> SUBSET Claim]]
    /\ shown \in [Session -> [Role -> SUBSET Claim]]
    /\ signedBy \in [Session -> [Role -> DID \cup {NoDID}]]
    /\ verdict \in [Session -> {"none", "accepted", "rejected"}]
    /\ kind \in Kind
    /\ pc \in {"idle", "policy", "session", "ready", "request", "present", "answer",
               "done", "stopped"}
    /\ held \in [Role -> DID \cup {NoDID}]
    /\ plan \in [Role -> SUBSET Claim]
    /\ session \in Session \cup {NoSession}
    /\ applied \in 0..Applications
    /\ changes \in 0..MaxChanges

\* The Authority has been told of the issuers it publishes (scripts/bootstrap.sh).
Announced ==
    \A e \in Entry, r \in Role :
        FromAuthority(e) /\ r \in File[e].roles => published[File[e].authority] = author[r]

Init ==
    /\ BootInit
    /\ author \in [Role -> DID]
    /\ Announced
    /\ remembered = {}
    /\ txn = [s \in Session |-> "none"]
    /\ asked = [s \in Session |-> Nothing]
    /\ shown = [s \in Session |-> Nothing]
    /\ signedBy = [s \in Session |-> Nobody]
    /\ verdict = [s \in Session |-> "none"]
    /\ kind \in Kind
    /\ pc = "idle" /\ held = Nobody /\ plan = Nothing /\ session = NoSession
    /\ applied = 0
    /\ changes = 0

-----------------------------------------------------------------------------
(***************************************************************************)
(* The verifier's side.                                                    *)
(***************************************************************************)
Listening == process = "listening"

\* What the running process asks for: its query, its sessions and its published policy.
RequestedClaims ==
    [r \in Role |-> DomainClaims[r] \cup (IF container.statusClaim THEN {StatusClaim} ELSE {})]

\* An entry without claims would ask for everything: buildDcqlQuery refuses to send one.
WellFormed(query) == \A r \in Role : query[r] # {}

Creates(s) ==
    /\ Listening /\ txn[s] = "none" /\ WellFormed(RequestedClaims)
    /\ txn' = [txn EXCEPT ![s] = "pending"]
    /\ asked' = [asked EXCEPT ![s] = RequestedClaims]
    /\ remembered' = remembered \cup {s}
    /\ UNCHANGED <<bootVars, author, shown, signedBy, verdict, changes>>

ExactlyAsked(s) == \A r \in Role : shown[s][r] = asked[s][r]

\* The upstream evaluation of the query and, behind it, what was disclosed and by whom each
\* credential is signed: nothing of it changes while a process knows the session.
Qualifies(s) ==
    /\ ExactlyAsked(s)
    /\ \A r \in Role : Trusts(signedBy[s][r], r)

\* The cards whose standing a read of the session asks for, anew each time.
Checked(s) == {r \in Role : StatusClaim \in asked[s][r]}

\* upheld: the cards their Authority stands behind, and says so, when this read asks.
Accepts(s, upheld) ==
    /\ Qualifies(s)
    /\ \A r \in Checked(s) : Askable(signedBy[s][r]) /\ r \in upheld

Told(s, upheld) == IF Accepts(s, upheld) THEN "accepted" ELSE "rejected"

\* A session that is waiting or not known any more has no decision to tell; nor has a read
\* that fails.
Answered(s) ==
    \/ UNCHANGED verdict
    \/ /\ Listening /\ s \in remembered /\ txn[s] = "answered"
       /\ \E upheld \in SUBSET Role : verdict' = [verdict EXCEPT ![s] = Told(s, upheld)]

\* The page the session belongs to: it starts it, and it reads it.
PageStarts(s) == Creates(s) /\ UNCHANGED driver

PageReads(s) ==
    /\ Answered(s)
    /\ UNCHANGED <<bootVars, author, remembered, transactions, driver, changes>>

\* The two lifetimes are not one: the verifier's session, and the transaction.
SessionEnds(s) ==
    /\ s \in remembered
    /\ remembered' = remembered \ {s}
    /\ UNCHANGED <<bootVars, author, transactions, verdict, driver, changes>>

TransactionEnds(s) ==
    /\ txn[s] \in {"pending", "answered"}
    /\ txn' = [txn EXCEPT ![s] = "gone"]
    /\ UNCHANGED <<bootVars, author, remembered, asked, shown, signedBy, verdict, driver,
                   changes>>

-----------------------------------------------------------------------------
(***************************************************************************)
(* The drivers.                                                            *)
(***************************************************************************)
serverSide == <<bootVars, author, remembered, transactions, verdict, changes>>

Goes(to) == pc' = to

Independent == \A r, q \in Role : author[r] = author[q] => r = q

\* One credential of each issuer that has a record of the person.
Collected(records) == [r \in Role |-> IF r \in records THEN author[r] ELSE NoDID]

\* With a session a page has started.  A person may have no record at some issuers.
HandBegins(s, records) ==
    /\ kind = "hand" /\ pc = "idle" /\ txn[s] # "none"
    /\ Independent /\ MustHold \subseteq records
    /\ held' = Collected(records)
    /\ session' = s
    /\ Goes("policy")
    /\ UNCHANGED <<serverSide, kind, plan, applied>>

\* Signed in, with credentials requested by the wallet itself.
FilmBegins ==
    /\ kind = "film" /\ pc = "idle"
    /\ \A r \in Role : StatusClaim \in Carried["film"][r]
    /\ held' = author
    /\ Goes("policy")
    /\ UNCHANGED <<serverSide, kind, plan, session, applied>>

ReadsPolicy ==
    /\ pc = "policy" /\ Listening
    /\ plan' = RequestedClaims
    /\ Goes(IF kind = "hand" THEN "session" ELSE "ready")
    /\ UNCHANGED <<serverSide, kind, held, session, applied>>

\* Whatever is known of the session.
AnyQr == TRUE

\* The request is where the QR says; without a QR, which an error answer carries as little as
\* a decided session does, the driver tries the age signer, which has the transaction only
\* where the use cases share one signing instance.
HasQr == session \in remembered /\ txn[session] = "pending"

ReadsSession ==
    /\ pc = "session"
    /\ Goes(IF HasQr \/ OneSigner THEN "request" ELSE "stopped")
    /\ UNCHANGED <<serverSide, kind, held, plan, session, applied>>

FilmStarts(s) ==
    /\ pc = "ready" /\ Creates(s)
    /\ session' = s
    /\ Goes("request")
    /\ UNCHANGED <<kind, held, plan, applied>>

FetchesRequest ==
    /\ pc = "request"
    /\ Goes(IF txn[session] = "pending" THEN "present" ELSE "stopped")
    /\ UNCHANGED <<serverSide, kind, held, plan, session, applied>>

Disclosure == [r \in Role |-> IF held[r] = NoDID THEN {} ELSE plan[r]]

CanDisclose == \A r \in Role : held[r] # NoDID => plan[r] \subseteq Carried[kind][r]

\* One presentation of all the cards the driver holds.  A transaction that is over refuses
\* it, and the driver goes on to read the answer.
Presents ==
    /\ pc = "present" /\ CanDisclose
    /\ IF txn[session] = "pending"
       THEN /\ txn' = [txn EXCEPT ![session] = "answered"]
            /\ shown' = [shown EXCEPT ![session] = Disclosure]
            /\ signedBy' = [signedBy EXCEPT ![session] = held]
       ELSE UNCHANGED <<txn, shown, signedBy>>
    /\ Goes("answer")
    /\ UNCHANGED <<bootVars, author, remembered, asked, verdict, changes,
                   kind, held, plan, session, applied>>

\* presentSdJwt throws for a claim the credential does not carry.
CannotPresent ==
    /\ pc = "present" /\ ~CanDisclose
    /\ Goes("stopped")
    /\ UNCHANGED <<serverSide, kind, held, plan, session, applied>>

\* Whatever it reads, an error as well, check-film-subject applies again, with the policy it
\* read before the first time.
ReadsAnswer ==
    /\ pc = "answer"
    /\ Answered(session)
    /\ applied < Applications
    /\ applied' = applied + 1
    /\ Goes(IF kind = "film" /\ applied' < Applications THEN "ready" ELSE "done")
    /\ UNCHANGED <<bootVars, author, remembered, transactions, changes,
                   kind, held, plan, session>>

\* A call to a verifier that does not listen ends the script where the fetch rejects, or
\* where the error status it answers with is looked at (ok() of stack.mjs).
CallRefused ==
    /\ pc \in {"policy", "session", "ready", "answer"} /\ ~Listening
    /\ Goes("stopped")
    /\ UNCHANGED <<serverSide, kind, held, plan, session, applied>>

-----------------------------------------------------------------------------
\* An issuer set up again signs with another DID from now on.
Rotates(r, d) ==
    /\ author[r] # d /\ changes < MaxChanges
    /\ author' = [author EXCEPT ![r] = d]
    /\ changes' = changes + 1
    /\ UNCHANGED <<bootVars, remembered, transactions, verdict, driver>>

\* Sessions that outlive the process.
StoredSessions == UNCHANGED remembered

\* A verifier that goes down forgets its sessions; the signers keep their transactions.
Forgets == remembered' = IF process' = "down" THEN {} ELSE remembered

Beside == Forgets /\ UNCHANGED <<author, transactions, verdict, driver>>

AuthorityChanges ==
    /\ changes < MaxChanges
    /\ changes' = changes + 1
    /\ \E i \in Issuer, d \in DID \cup {NoDID} : Publishes(i, d)
    /\ Beside

Next ==
    \/ BootStep /\ Beside /\ UNCHANGED changes
    \/ AuthorityChanges
    \/ \E r \in Role, d \in DID : Rotates(r, d)
    \/ \E s \in Session : PageStarts(s) \/ PageReads(s) \/ SessionEnds(s) \/ TransactionEnds(s)
                          \/ FilmStarts(s)
    \/ \E s \in Session, records \in SUBSET Role : HandBegins(s, records)
    \/ FilmBegins \/ ReadsPolicy \/ ReadsSession \/ FetchesRequest
    \/ Presents \/ CannotPresent \/ ReadsAnswer \/ CallRefused

Spec == Init /\ [][Next]_vars

-----------------------------------------------------------------------------
(***************************************************************************)
(* What the journey promises.                                              *)
(***************************************************************************)
\* A verifier that listens has an issuer for every entry of its policy, named for that
\* entry since its boot began: never a part of the list, never an empty DID, and stale by
\* no more than the process is old (resolveTrustPolicy).
TrustVouched == Listening => \A e \in Entry : trust[e] \in DID /\ trust[e] \in vouched[e]

\* "This driver cannot over-disclose relative to the ask" (wallet-agriculture.mjs), although
\* it discloses by the published policy and the ask is the session's: between the two reads
\* the verifier may be recreated and ask for something else.
DisclosesAsAsked ==
    kind = "hand" => \A s \in Session, r \in Role : shown[s][r] \in {{}, asked[s][r]}

\* One issuer never stands behind two cards of an accepted application, also when two
\* registries come to share a DID: byDid finds one entry for it.
IndependentIssuers ==
    \A s \in Session : verdict[s] = "accepted" =>
        \A r, q \in Role : signedBy[s][r] = signedBy[s][q] => r = q

\* What was told of a session can only turn on the standing of its cards.
HangsOnStanding(s) ==
    /\ Qualifies(s)
    /\ Checked(s) # {} /\ \A r \in Checked(s) : Askable(signedBy[s][r])

\* Reading a decided session again tells another verdict only if its Authority answers
\* otherwise of a card the session asked the standing of: never for another disclosure or
\* another trust, for the verifier that might decide by those does not know the session.
VerdictTurnsOnStanding ==
    [][\A s \in Session :
        verdict[s] # "none" /\ verdict'[s] # verdict[s] => HangsOnStanding(s)]_vars

(***************************************************************************)
(* The journey implements ApplicationPromise.  A verifier is open while it *)
(* listens; what it allows is what its lookup finds for each role.         *)
(***************************************************************************)
AllowedFor(r) == {d \in DID : Trusts(d, r)}

Promise == INSTANCE ApplicationPromise WITH
    careful <- kind = "hand" /\ ~OneSigner,
    open <- Listening,
    allowed <- IF Listening THEN [r \in Role |-> AllowedFor(r)] ELSE Nothing,
    request <- IF Listening THEN RequestedClaims ELSE Nothing,
    known <- remembered,
    awaited <- {s \in Session : txn[s] = "pending"},
    answered <- {s \in Session : txn[s] = "answered"}

\* Whatever boots, crashes, recreations and changes lie between the calls of a driver, its
\* application goes as promised: one allowlist and one request from boot to crash, no claim
\* disclosed that was not asked, one verdict but for the standing of the cards.
KeepsPromise == Promise!Spec

(***************************************************************************)
(* Liveness.  The container's restart policy starts a process that is      *)
(* down; every fetch ends, by its answer or by AbortSignal.timeout.        *)
(***************************************************************************)
FairSpec ==
    /\ Spec
    /\ WF_vars(Boots /\ Beside /\ UNCHANGED changes)
    /\ WF_vars(Listens /\ Beside /\ UNCHANGED changes)
    /\ \A e \in Entry :
        WF_vars((FetchAnswered(e) \/ FetchFails(e)) /\ Beside /\ UNCHANGED changes)

\* Once the environment is complete and the Authority answers for every issuer, the
\* verifier comes to listen, however many boots have failed before.
ListensAgain == <>[]Healthy => <>[]Listening

\* Its safety half: a boot that finds everything it needs does not fail, and waits for fewer
\* and fewer issuers; and a process that listens ends by a crash or a recreation only, also
\* when the Authority is down or withdraws what it has published.
BootsGoOn ==
    [][upsets' = upsets =>
        /\ Listening => Listening'
        /\ process = "resolving" /\ Healthy =>
            /\ process' # "down"
            /\ \A e \in Entry : fetched'[e] = Waiting => fetched[e] = Waiting]_vars
=============================================================================
