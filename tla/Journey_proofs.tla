---------------------------- MODULE Journey_proofs ----------------------------
(***************************************************************************)
(* Proofs about WalletJourney, for every policy file, environment,         *)
(* Authority, number of sessions, and set of credentials and claims.       *)
(*                                                                         *)
(* The plan: a step is the boot's and the world's beside a still journey   *)
(* (WorldMoves), the start of a session (Creates), an answer (Answered),   *)
(* a presentation (Presents), or the driver's alone (DriverMoves).  One    *)
(* lemma per shape keeps IInv, and each theorem reads what it needs.       *)
(***************************************************************************)
EXTENDS JourneyInvariant, TLAPS

\* The parts that look at the process alone.
BootPart == BootTypeOK /\ Resolving /\ TrustVouched

\* The parts that look at sessions and the driver.
SessionPart ==
    /\ KnownHere /\ Fresh /\ MightTellAgain
    /\ AtWork /\ PlanIsAsked /\ Discloses /\ IndependentIssuers

\* What may be different for a session the verifier knows: nothing it decides by.
Keeps ==
    \/ remembered' = {}
    \/ /\ remembered' \subseteq remembered
       /\ Listening => Listening' /\ UNCHANGED <<container, trust>>

\* A step of the world beside the journey.
WorldMoves == Keeps /\ UNCHANGED <<transactions, verdict, driver>>

-----------------------------------------------------------------------------
(***************************************************************************)
(* The boot.                                                               *)
(***************************************************************************)
LEMMA ContainerTyped ==
    ASSUME BootTypeOK
    PROVE  /\ container.vars \in [Var -> DID \cup {NoDID}]
           /\ container.statusClaim \in BOOLEAN
BY BootAssumption DEF BootTypeOK

LEMMA EntryTyped ==
    ASSUME NEW e \in Entry
    PROVE  /\ File[e].var \in Var \cup {NoVar}
           /\ File[e].authority \in Issuer \cup {NoIssuer}
           /\ e \in Nat
<1> DEFINE Issuers == [var : Var \cup {NoVar}, authority : Issuer \cup {NoIssuer},
                       roles : SUBSET STRING]
<1>1. File \in Seq(Issuers)
  BY BootAssumption
<1>2. e \in 1..Len(File) /\ File[e] \in Issuers
  <2> HIDE DEF Issuers
  <2> QED BY <1>1 DEF Entry
<1> QED BY <1>2

\* A process that is over is down, with nothing resolved.
LEMMA GoneKeeps ==
    ASSUME BootTypeOK, Gone, container' \in Deployment, upsets' \in 0..MaxUpsets
    PROVE  BootPart' /\ process' = "down"
BY DEF BootTypeOK, Gone, Unresolved, BootPart, Resolving, TrustVouched, Listening

\* A boot step keeps what it has resolved, and never touches a process that listens but
\* to end it.
LEMMA BootStepKeeps ==
    ASSUME BootPart, BootStep
    PROVE  /\ BootPart'
           /\ process' = "down" \/ (Listening => Listening' /\ UNCHANGED <<container, trust>>)
<1> USE DEF Listening
<1>1. CASE Boots
  <2>1. \A e \in Entry : ~FromAuthority(e) => Expanded(e) \in DID
    BY <1>1, ContainerTyped, EntryTyped
       DEF BootPart, Boots, Startable, Readable, Expanded, FromAuthority
  <2>2. BootTypeOK'
    BY <1>1, <2>1 DEF BootPart, BootTypeOK, Boots
  <2>3. Resolving' /\ TrustVouched'
    BY <1>1, <2>1 DEF Boots, Resolving, TrustVouched, FromAuthority
  <2> QED BY <1>1, <2>2, <2>3 DEF BootPart, Boots, Restarted
<1>2. CASE Listens
  <2>1. BootTypeOK'
    <3>1. trust' \in [Entry -> DID \cup {NoDID}]
      BY <1>2 DEF BootPart, BootTypeOK, Listens, AllResolved
    <3> QED BY <1>2, <3>1 DEF BootPart, BootTypeOK, Listens
  <2>2. Resolving' /\ TrustVouched'
    BY <1>2 DEF BootPart, Listens, AllResolved, Resolving, TrustVouched
  <2> QED BY <1>2, <2>1, <2>2 DEF BootPart, Listens
<1>3. CASE Crashes
  <2>1. container' \in Deployment /\ upsets' \in 0..MaxUpsets /\ Gone
    BY <1>3, BootAssumption DEF BootPart, BootTypeOK, Crashes
  <2> QED BY <2>1, GoneKeeps DEF BootPart
<1>4. CASE AuthorityTurns
  <2>1. BootTypeOK'
    BY <1>4 DEF BootPart, BootTypeOK, AuthorityTurns, memory
  <2>2. Resolving' /\ TrustVouched'
    BY <1>4 DEF BootPart, AuthorityTurns, memory, Resolving, TrustVouched
  <2> QED BY <1>4, <2>1, <2>2 DEF BootPart, AuthorityTurns, memory
<1>5. ASSUME NEW e \in Entry, FetchAnswered(e)
      PROVE  /\ BootPart'
             /\ Listening => Listening' /\ UNCHANGED <<container, trust>>
  <2>0. process = "resolving"
    BY <1>5 DEF FetchAnswered
  <2>1. PICK d \in DID : /\ d = published[File[e].authority]
                         /\ fetched' = [fetched EXCEPT ![e] = d]
                         /\ vouched' = [vouched EXCEPT ![e] = @ \cup {d}]
    <3>1. FromAuthority(e)
      BY <1>5, <2>0, BootAssumption DEF FetchAnswered, BootPart, Resolving
    <3>2. File[e].authority \in Issuer
      BY <3>1, EntryTyped DEF FromAuthority
    <3> QED BY <1>5, <3>2 DEF FetchAnswered, BootPart, BootTypeOK
  <2>2. BootTypeOK'
    BY <1>5, <2>1 DEF FetchAnswered, BootPart, BootTypeOK
  <2>3. Resolving' /\ TrustVouched'
    BY <1>5, <2>0, <2>1
       DEF FetchAnswered, BootPart, BootTypeOK, Resolving, TrustVouched, FromAuthority
  <2> QED BY <2>0, <2>2, <2>3 DEF BootPart
<1>6. ASSUME NEW e \in Entry, FetchFails(e)
      PROVE  BootPart' /\ process' = "down"
  <2>1. Gone /\ container' \in Deployment /\ upsets' \in 0..MaxUpsets
    BY <1>6 DEF FetchFails, Stops, BootPart, BootTypeOK
  <2> QED BY <2>1, GoneKeeps DEF BootPart
<1>7. ASSUME NEW d \in Deployment, Recreates(d)
      PROVE  BootPart' /\ process' = "down"
  <2>1. Gone /\ container' \in Deployment /\ upsets' \in 0..MaxUpsets
    BY <1>7, BootAssumption DEF Recreates, BootPart, BootTypeOK
  <2> QED BY <2>1, GoneKeeps DEF BootPart
<1> QED BY <1>1, <1>2, <1>3, <1>4, <1>5, <1>6, <1>7 DEF BootStep

LEMMA PublishesKeeps ==
    ASSUME BootPart, NEW i \in Issuer, NEW d \in DID \cup {NoDID}, Publishes(i, d)
    PROVE  BootPart'
<1>1. BootTypeOK'
  BY DEF BootPart, BootTypeOK, Publishes, memory
<1>2. Resolving' /\ TrustVouched'
  BY DEF BootPart, Publishes, memory, Resolving, TrustVouched, Listening
<1> QED BY <1>1, <1>2 DEF BootPart

\* A boot that stands still.
LEMMA BootStill ==
    ASSUME BootPart, UNCHANGED bootVars
    PROVE  BootPart'
BY DEF BootPart, BootTypeOK, bootVars, memory, Resolving, TrustVouched, Listening

-----------------------------------------------------------------------------
(***************************************************************************)
(* The types of the journey.                                               *)
(***************************************************************************)
\* What a verifier asks is a set of claims for each credential.
LEMMA RequestTyped ==
    ASSUME BootTypeOK
    PROVE  RequestedClaims \in [Role -> SUBSET Claim]
BY JourneyAssumption DEF RequestedClaims

\* The types that are the journey's own.
OwnTypes ==
    /\ author \in [Role -> DID]
    /\ remembered \subseteq Session
    /\ txn \in [Session -> {"none", "pending", "answered", "gone"}]
    /\ asked \in [Session -> [Role -> SUBSET Claim]]
    /\ shown \in [Session -> [Role -> SUBSET Claim]]
    /\ signedBy \in [Session -> [Role -> DID \cup {NoDID}]]
    /\ verdict \in [Session -> {"none", "accepted", "rejected"}]

DriverTypes ==
    /\ kind \in Kind
    /\ pc \in {"idle", "policy", "session", "ready", "request", "present", "answer",
               "done", "stopped"}
    /\ held \in [Role -> DID \cup {NoDID}]
    /\ plan \in [Role -> SUBSET Claim]
    /\ session \in Session \cup {NoSession}
    /\ applied \in 0..Applications

LEMMA TypeParts ==
    /\ JourneyTypeOK <=> BootTypeOK /\ OwnTypes /\ DriverTypes /\ changes \in 0..MaxChanges
    /\ JourneyTypeOK' <=> (BootTypeOK /\ OwnTypes /\ DriverTypes /\ changes \in 0..MaxChanges)'
BY DEF JourneyTypeOK, OwnTypes, DriverTypes

LEMMA OwnTypesStill ==
    ASSUME OwnTypes, UNCHANGED <<author, remembered, transactions, verdict>>
    PROVE  OwnTypes'
BY DEF OwnTypes, transactions

LEMMA DriverTypesStill ==
    ASSUME DriverTypes, UNCHANGED driver
    PROVE  DriverTypes'
BY DEF DriverTypes, driver

-----------------------------------------------------------------------------
(***************************************************************************)
(* The verifier's side of the journey.                                     *)
(***************************************************************************)
\* A DID stands for one role, whatever entries name it.
LEMMA OneRole ==
    ASSUME NEW d, NEW r \in Role, NEW q \in Role, Trusts(d, r), Trusts(d, q)
    PROVE  r = q
<1>1. PICK e \in Entry : /\ trust[e] = d /\ \A g \in Entry : trust[g] = d => g <= e
                         /\ r \in File[e].roles
  BY DEF Trusts, FoundAt
<1>2. PICK f \in Entry : /\ trust[f] = d /\ \A g \in Entry : trust[g] = d => g <= f
                         /\ q \in File[f].roles
  BY DEF Trusts, FoundAt
<1>3. e <= f /\ f <= e /\ e \in Nat /\ f \in Nat
  BY <1>1, <1>2, EntryTyped
<1>4. e = f
  BY <1>3
<1> QED BY <1>1, <1>2, <1>4, OneRoleEach

\* What may be told of a session stands and falls with what it was asked, what it was shown,
\* by whom that is signed, and the trust.
LEMMA SameTold ==
    ASSUME NEW s, NEW u, trust' = trust,
           asked'[s] = asked[s], shown'[s] = shown[s], signedBy'[s] = signedBy[s]
    PROVE  Told(s, u)' = Told(s, u)
BY DEF Told, Accepts, Qualifies, Checked, Askable,
       ExactlyAsked, Trusts, FoundAt

LEMMA WorldKeeps ==
    ASSUME IInv, WorldMoves
    PROVE  SessionPart'
<1>1. /\ remembered' \subseteq remembered
      /\ \A s \in remembered' : /\ s \in remembered /\ Listening /\ Listening'
                                /\ container' = container /\ trust' = trust
  BY DEF IInv, WorldMoves, Keeps, KnownHere
<1>2. KnownHere'
  BY <1>1 DEF IInv, WorldMoves, transactions, KnownHere, RequestedClaims
<1>3. Fresh'
  BY DEF IInv, WorldMoves, transactions, Fresh
<1>4. MightTellAgain'
  <2> SUFFICES ASSUME NEW s \in remembered', verdict'[s] # "none"
               PROVE  \E u \in SUBSET Role : verdict'[s] = Told(s, u)'
    BY DEF MightTellAgain
  <2>1. \A u : Told(s, u)' = Told(s, u)
    BY <1>1, SameTold DEF WorldMoves, transactions
  <2> QED BY <1>1, <2>1 DEF IInv, WorldMoves, MightTellAgain
<1>5. AtWork' /\ PlanIsAsked'
  BY <1>1 DEF IInv, WorldMoves, transactions, driver, AtWork, PlanIsAsked
<1>6. Discloses' /\ IndependentIssuers'
  BY DEF IInv, WorldMoves, transactions, driver, Discloses, DisclosesAsAsked, IndependentIssuers
<1> QED BY <1>2, <1>3, <1>4, <1>5, <1>6 DEF SessionPart

\* Starting a session disturbs no other, and is to nobody's surprise.
LEMMA CreatesKeeps ==
    ASSUME IInv, NEW s \in Session, Creates(s),
           UNCHANGED driver \/ (kind = "film" /\ kind' = kind /\ session' = s
                                /\ pc' = "request")
    PROVE  SessionPart'
<1> USE DEF Creates, Listening
<1>1. /\ \A q \in Session \ {s} : txn'[q] = txn[q] /\ asked'[q] = asked[q]
      /\ txn'[s] = "pending" /\ asked'[s] = RequestedClaims /\ txn[s] = "none"
      /\ s \notin remembered /\ shown[s] = Nothing /\ verdict[s] = "none"
      /\ remembered \subseteq Session
  BY DEF IInv, JourneyTypeOK, KnownHere, Fresh
<1>2. KnownHere'
  <2>1. RequestedClaims' = RequestedClaims /\ process' = process
    BY DEF RequestedClaims, bootVars
  <2> QED BY <1>1, <2>1 DEF IInv, KnownHere
<1>3. Fresh'
  <2>1. Nothing' = Nothing
    BY DEF Nothing
  <2> QED BY <1>1, <2>1 DEF IInv, Fresh
<1>4. MightTellAgain'
  <2> SUFFICES ASSUME NEW q \in remembered', verdict'[q] # "none"
               PROVE  \E u \in SUBSET Role : verdict'[q] = Told(q, u)'
    BY DEF MightTellAgain
  <2>1. q # s /\ q \in remembered
    BY <1>1
  <2>2. \A u : Told(q, u)' = Told(q, u)
    BY <1>1, <2>1, SameTold DEF bootVars, memory
  <2> QED BY <2>1, <2>2 DEF IInv, MightTellAgain
<1>5. AtWork'
  BY <1>1 DEF IInv, AtWork, driver
<1>6. PlanIsAsked'
  <2>1. CASE UNCHANGED driver
    <3>1. kind = "hand" /\ pc # "idle" => session \in Session \ {s}
      BY <1>1 DEF IInv, AtWork
    <3> QED BY <1>1, <2>1, <3>1 DEF IInv, PlanIsAsked, driver
  <2>2. CASE kind' = "film"
    BY <2>2 DEF PlanIsAsked
  <2> QED BY <2>1, <2>2
<1>7. Discloses'
  <2> SUFFICES ASSUME ~OneSigner, kind' = "hand", NEW q \in Session, NEW r \in Role
               PROVE  shown'[q][r] \in {{}, asked'[q][r]}
    BY DEF Discloses, DisclosesAsAsked
  <2>1. kind = "hand"
    BY DEF driver
  <2>2. CASE q = s
    BY <1>1, <2>2 DEF Nothing
  <2>3. CASE q # s
    BY <1>1, <2>1, <2>3 DEF IInv, Discloses, DisclosesAsAsked
  <2> QED BY <2>2, <2>3
<1>8. IndependentIssuers'
  BY DEF IInv, IndependentIssuers
<1> QED BY <1>2, <1>3, <1>4, <1>5, <1>6, <1>7, <1>8 DEF SessionPart

\* What an answer changes: the verdict of a known, answered session, by its own trust and
\* what is upheld of its cards at the time.
LEMMA AnsweredAs ==
    ASSUME IInv, NEW s \in Session, Answered(s)
    PROVE  /\ verdict' \in [Session -> {"none", "accepted", "rejected"}]
           /\ \A q \in Session :
                \/ verdict'[q] = verdict[q]
                \/ /\ Listening /\ q \in remembered /\ txn[q] = "answered"
                   /\ \E u \in SUBSET Role : verdict'[q] = Told(q, u)
BY DEF IInv, JourneyTypeOK, Answered, Told

LEMMA AnsweredKeeps ==
    ASSUME IInv, NEW s \in Session, Answered(s),
           UNCHANGED <<bootVars, remembered, transactions>>
    PROVE  (KnownHere /\ Fresh /\ MightTellAgain /\ IndependentIssuers)'
<1>1. KnownHere'
  BY DEF IInv, KnownHere, Listening, RequestedClaims, bootVars, transactions
<1>2. Fresh'
  BY AnsweredAs DEF IInv, Fresh, Nothing, transactions
<1>3. MightTellAgain'
  <2>1. \A q, u : Told(q, u)' = Told(q, u)
    BY SameTold DEF bootVars, memory, transactions
  <2>2. remembered' \subseteq Session /\ remembered' = remembered
    BY DEF IInv, JourneyTypeOK
  <2> QED BY AnsweredAs, <2>1, <2>2 DEF IInv, MightTellAgain
<1>4. IndependentIssuers'
  <2> SUFFICES ASSUME NEW q \in Session, verdict'[q] = "accepted",
                      NEW r \in Role, NEW t \in Role, signedBy[q][r] = signedBy[q][t]
               PROVE  r = t
    BY DEF IndependentIssuers, transactions
  <2>1. CASE verdict[q] = "accepted"
    BY <2>1 DEF IInv, IndependentIssuers
  <2>2. CASE verdict[q] # "accepted"
    <3>1. PICK u \in SUBSET Role : "accepted" = Told(q, u)
      BY <2>2, AnsweredAs
    <3>2. Trusts(signedBy[q][r], r) /\ Trusts(signedBy[q][t], t)
      BY <3>1 DEF Told, Accepts, Qualifies
    <3> QED BY <3>2, OneRole
  <2> QED BY <2>1, <2>2
<1> QED BY <1>1, <1>2, <1>3, <1>4

\* The driver alone moves: nothing of the verifier's side is disturbed.
LEMMA ServerStill ==
    ASSUME IInv, UNCHANGED serverSide
    PROVE  /\ BootPart' /\ OwnTypes' /\ changes' \in 0..MaxChanges
           /\ (KnownHere /\ Fresh /\ MightTellAgain /\ IndependentIssuers)'
           /\ \A s \in Session : txn'[s] = txn[s] /\ shown'[s] = shown[s] /\ asked'[s] = asked[s]
<1>1. BootPart' /\ OwnTypes' /\ changes' \in 0..MaxChanges
  <2>1. UNCHANGED bootVars /\ UNCHANGED <<author, remembered, transactions, verdict>>
        /\ changes' = changes
    BY DEF serverSide
  <2> QED BY <2>1, BootStill, OwnTypesStill, TypeParts DEF IInv, BootPart
<1>2. KnownHere' /\ Fresh'
  BY DEF IInv, serverSide, bootVars, transactions, KnownHere, Fresh, Listening,
         RequestedClaims, Nothing
<1>3. MightTellAgain'
  <2>1. \A s, u : Told(s, u)' = Told(s, u)
    BY SameTold DEF serverSide, bootVars, memory, transactions
  <2> QED BY <2>1 DEF IInv, MightTellAgain, serverSide
<1>4. IndependentIssuers'
  BY DEF IInv, IndependentIssuers, serverSide, transactions
<1> QED BY <1>1, <1>2, <1>3, <1>4 DEF serverSide, transactions

DriverMoves ==
    \/ \E s \in Session, records \in SUBSET Role : HandBegins(s, records)
    \/ FilmBegins \/ ReadsPolicy \/ ReadsSession \/ FetchesRequest
    \/ CannotPresent \/ CallRefused

LEMMA DriverKeeps ==
    ASSUME IInv, DriverMoves
    PROVE  IInv'
<1> USE DEF Goes
<1>0. /\ DriverTypes /\ author \in [Role -> DID]
      /\ RequestedClaims \in [Role -> SUBSET Claim]
      /\ Kind \subseteq {"hand", "film"}
  BY RequestTyped, TypeParts, JourneyAssumption DEF IInv, OwnTypes
<1>1. UNCHANGED serverSide /\ kind' = kind
  BY DEF DriverMoves, HandBegins, FilmBegins, ReadsPolicy, ReadsSession, FetchesRequest,
         CannotPresent, CallRefused
<1>2. /\ BootPart' /\ OwnTypes' /\ changes' \in 0..MaxChanges
      /\ (KnownHere /\ Fresh /\ MightTellAgain /\ IndependentIssuers)'
      /\ \A s \in Session : txn'[s] = txn[s] /\ shown'[s] = shown[s] /\ asked'[s] = asked[s]
  BY <1>1, ServerStill
<1>3. Discloses'
  BY <1>1, <1>2 DEF IInv, Discloses, DisclosesAsAsked
<1> SUFFICES DriverTypes' /\ AtWork' /\ PlanIsAsked'
  BY <1>2, <1>3, TypeParts DEF IInv, BootPart
<1>4. ASSUME NEW s \in Session, NEW records \in SUBSET Role, HandBegins(s, records)
      PROVE  DriverTypes' /\ AtWork' /\ PlanIsAsked'
  <2>1. DriverTypes'
    BY <1>0, <1>4 DEF DriverTypes, HandBegins, Collected
  <2>2. AtWork' /\ PlanIsAsked'
    BY <1>1, <1>4 DEF HandBegins, AtWork, PlanIsAsked, serverSide, transactions
  <2> QED BY <2>1, <2>2
<1>5. CASE FilmBegins
  BY <1>0, <1>5 DEF FilmBegins, DriverTypes, AtWork, PlanIsAsked
<1>6. CASE ReadsPolicy
  <2>1. DriverTypes'
    BY <1>0, <1>6 DEF DriverTypes, ReadsPolicy
  <2>2. AtWork'
    BY <1>0, <1>1, <1>6 DEF IInv, DriverTypes, ReadsPolicy, AtWork, serverSide, transactions
  <2>3. PlanIsAsked'
    BY <1>1, <1>6
       DEF IInv, ReadsPolicy, KnownHere, PlanIsAsked, serverSide, transactions
  <2> QED BY <2>1, <2>2, <2>3
<1>7. CASE ReadsSession
  <2>1. DriverTypes'
    BY <1>0, <1>7 DEF DriverTypes, ReadsSession
  <2>2. AtWork'
    BY <1>0, <1>1, <1>7 DEF IInv, ReadsSession, AtWork, serverSide, transactions
  <2>3. PlanIsAsked'
    BY <1>0, <1>1, <1>7
       DEF IInv, ReadsSession, HasQr, PlanIsAsked, serverSide, transactions
  <2> QED BY <2>1, <2>2, <2>3
<1>8. CASE FetchesRequest
  <2>1. DriverTypes'
    BY <1>0, <1>8 DEF DriverTypes, FetchesRequest
  <2>2. AtWork' /\ PlanIsAsked'
    BY <1>0, <1>1, <1>8
       DEF IInv, FetchesRequest, AtWork, PlanIsAsked, serverSide, transactions
  <2> QED BY <2>1, <2>2
<1>9. CASE CannotPresent \/ CallRefused
  <2>1. DriverTypes'
    BY <1>0, <1>9 DEF DriverTypes, CannotPresent, CallRefused
  <2>2. AtWork' /\ PlanIsAsked'
    BY <1>1, <1>9
       DEF IInv, CannotPresent, CallRefused, AtWork, PlanIsAsked, serverSide, transactions
  <2> QED BY <2>1, <2>2
<1> QED BY <1>4, <1>5, <1>6, <1>7, <1>8, <1>9 DEF DriverMoves

\* A presentation is of the plan, to a request nobody has answered.
LEMMA PresentsKeeps ==
    ASSUME IInv, Presents
    PROVE  IInv'
<1> USE DEF Goes
<1>0. BootPart /\ OwnTypes /\ DriverTypes /\ changes \in 0..MaxChanges
  BY TypeParts DEF IInv, BootPart
<1>1. session \in Session /\ txn[session] # "none" /\ pc = "present"
  BY DEF IInv, AtWork, Presents
<1>2. Disclosure \in [Role -> SUBSET Claim] /\ held \in [Role -> DID \cup {NoDID}]
  BY <1>0 DEF DriverTypes, Disclosure
<1>3. BootPart'
  BY <1>0, BootStill DEF Presents
<1>4. DriverTypes'
  BY <1>0 DEF Presents, DriverTypes
<1>5. OwnTypes'
  BY <1>0, <1>1, <1>2 DEF Presents, OwnTypes
<1>6. /\ \A s \in Session \ {session} :
            txn'[s] = txn[s] /\ shown'[s] = shown[s] /\ signedBy'[s] = signedBy[s]
      /\ txn'[session] # "none"
      /\ txn[session] # "pending" => /\ txn'[session] = txn[session]
                                     /\ shown'[session] = shown[session]
                                     /\ signedBy'[session] = signedBy[session]
      /\ txn[session] = "pending" => /\ txn'[session] = "answered"
                                     /\ shown'[session] = Disclosure
  BY <1>0, <1>1 DEF Presents, OwnTypes
<1>7. txn[session] = "pending" => verdict[session] = "none"
  BY <1>0, <1>1 DEF IInv, Fresh, OwnTypes
<1>8. verdict' = verdict /\ remembered' = remembered /\ remembered \subseteq Session
  BY <1>0 DEF Presents, OwnTypes
<1>9. KnownHere'
  BY <1>6, <1>8 DEF IInv, Presents, KnownHere, Listening, RequestedClaims, bootVars
<1>10. Fresh'
  BY <1>1, <1>6, <1>7, <1>8 DEF IInv, Fresh, Nothing, Presents
<1>11. MightTellAgain'
  <2> SUFFICES ASSUME NEW s \in remembered', verdict'[s] # "none"
               PROVE  \E u \in SUBSET Role : verdict'[s] = Told(s, u)'
    BY DEF MightTellAgain
  <2>1. shown'[s] = shown[s] /\ signedBy'[s] = signedBy[s] /\ asked'[s] = asked[s]
    BY <1>6, <1>7, <1>8 DEF Presents
  <2>2. \A u : Told(s, u)' = Told(s, u)
    BY <2>1, SameTold DEF Presents, bootVars, memory
  <2> QED BY <1>8, <2>2 DEF IInv, MightTellAgain
<1>12. AtWork' /\ PlanIsAsked'
  BY <1>1, <1>6 DEF IInv, Presents, AtWork, PlanIsAsked
<1>13. Discloses'
  <2> SUFFICES ASSUME ~OneSigner, kind' = "hand", NEW s \in Session, NEW r \in Role
               PROVE  shown'[s][r] \in {{}, asked'[s][r]}
    BY DEF Discloses, DisclosesAsAsked
  <2>0. kind = "hand" /\ asked' = asked
    BY DEF Presents
  <2>1. CASE s = session /\ txn[session] = "pending"
    <3>1. plan = asked[session]
      BY <1>1, <2>0 DEF IInv, PlanIsAsked
    <3> QED BY <1>6, <2>0, <2>1, <3>1 DEF Disclosure
  <2>2. CASE ~(s = session /\ txn[session] = "pending")
    BY <1>6, <2>0, <2>2 DEF IInv, Discloses, DisclosesAsAsked
  <2> QED BY <2>1, <2>2
<1>14. IndependentIssuers'
  BY <1>6, <1>7, <1>8 DEF IInv, IndependentIssuers
<1>15. changes' = changes
  BY DEF Presents
<1> QED BY <1>0, <1>3, <1>4, <1>5, <1>9, <1>10, <1>11, <1>12, <1>13, <1>14, <1>15, TypeParts
    DEF IInv, BootPart

\* The world beside the journey: boots, crashes, what the Authority and issuers change, and
\* the two lifetimes of a session.
LEMMA BesideKeeps ==
    ASSUME IInv, Beside, BootPart', changes' \in 0..MaxChanges,
           process' = "down" \/ (Listening => Listening' /\ UNCHANGED <<container, trust>>)
    PROVE  IInv'
<1>1. WorldMoves
  BY DEF Beside, Forgets, WorldMoves, Keeps
<1>2. SessionPart'
  BY <1>1, WorldKeeps
<1>3. OwnTypes' /\ DriverTypes'
  <2>1. author' = author /\ txn' = txn /\ asked' = asked /\ shown' = shown
        /\ signedBy' = signedBy /\ verdict' = verdict /\ UNCHANGED driver
        /\ remembered' \subseteq remembered
    BY DEF Beside, Forgets, transactions
  <2> QED BY <2>1, DriverTypesStill, TypeParts DEF IInv, OwnTypes
<1> QED BY <1>2, <1>3, TypeParts DEF IInv, BootPart, SessionPart

-----------------------------------------------------------------------------
(***************************************************************************)
(* The invariant.                                                          *)
(***************************************************************************)
LEMMA InitHolds == ASSUME Init PROVE IInv
<1> USE DEF Init, BootInit
<1>1. BootTypeOK
  BY BootAssumption DEF BootTypeOK, Unresolved
<1>2. OwnTypes /\ DriverTypes /\ changes \in 0..MaxChanges
  BY JourneyAssumption DEF OwnTypes, DriverTypes, Nothing, Nobody
<1>3. Resolving /\ TrustVouched
  BY DEF Resolving, TrustVouched, Listening
<1>4. SessionPart
  BY DEF SessionPart, KnownHere, Fresh, MightTellAgain, AtWork, PlanIsAsked, Discloses,
         DisclosesAsAsked, IndependentIssuers, Nothing
<1> QED BY <1>1, <1>2, <1>3, <1>4, TypeParts DEF IInv, SessionPart

LEMMA StartKeeps ==
    ASSUME IInv, NEW s \in Session, PageStarts(s) \/ FilmStarts(s)
    PROVE  IInv'
<1>0. BootPart /\ OwnTypes /\ DriverTypes /\ changes \in 0..MaxChanges
  BY TypeParts DEF IInv, BootPart
<1>1. Creates(s)
  BY DEF PageStarts, FilmStarts
<1>2. UNCHANGED driver \/ (kind = "film" /\ kind' = kind /\ session' = s /\ pc' = "request")
  BY DEF PageStarts, FilmStarts, IInv, AtWork, Goes
<1>3. SessionPart'
  BY <1>1, <1>2, CreatesKeeps
<1>4. BootPart' /\ changes' \in 0..MaxChanges
  BY <1>0, <1>1, BootStill DEF Creates
<1>5. OwnTypes'
  BY <1>0, <1>1, RequestTyped DEF BootPart, Creates, OwnTypes
<1>6. DriverTypes'
  BY <1>0, DriverTypesStill DEF PageStarts, FilmStarts, DriverTypes, Goes
<1> QED BY <1>3, <1>4, <1>5, <1>6, TypeParts DEF IInv, BootPart, SessionPart

LEMMA ReadKeeps ==
    ASSUME IInv, ReadsAnswer \/ \E s \in Session : PageReads(s)
    PROVE  IInv'
<1>0. BootPart /\ OwnTypes /\ DriverTypes /\ changes \in 0..MaxChanges
  BY TypeParts DEF IInv, BootPart
<1>1. PICK s \in Session : Answered(s)
  BY DEF ReadsAnswer, PageReads, IInv, AtWork
<1>2. /\ UNCHANGED bootVars /\ UNCHANGED <<bootVars, remembered, transactions>>
      /\ author' = author /\ changes' = changes /\ kind' = kind
      /\ session' = session /\ plan' = plan
      /\ \/ pc' = pc
         \/ pc = "answer" /\ pc' \in {"ready", "done"} /\ (pc' = "ready" => kind = "film")
  BY DEF ReadsAnswer, PageReads, driver, Goes
<1>3. (KnownHere /\ Fresh /\ MightTellAgain /\ IndependentIssuers)'
  BY <1>1, <1>2, AnsweredKeeps
<1>4. BootPart'
  BY <1>0, <1>2, BootStill
<1>5. OwnTypes'
  BY <1>0, <1>1, <1>2, AnsweredAs DEF OwnTypes, transactions
<1>6. DriverTypes'
  <2>1. CASE ReadsAnswer
    BY <1>0, <2>1, JourneyAssumption DEF ReadsAnswer, DriverTypes, Goes
  <2>2. CASE UNCHANGED driver
    BY <1>0, <2>2, DriverTypesStill
  <2> QED BY <2>1, <2>2 DEF PageReads
<1>7. AtWork' /\ PlanIsAsked' /\ Discloses'
  BY <1>2 DEF IInv, AtWork, PlanIsAsked, Discloses, DisclosesAsAsked, transactions
<1> QED BY <1>0, <1>2, <1>3, <1>4, <1>5, <1>6, <1>7, TypeParts DEF IInv, BootPart

\* The two lifetimes of a session, and another DID an issuer signs with.
LEMMA EndsKeep ==
    ASSUME IInv,
           \/ \E s \in Session : SessionEnds(s) \/ TransactionEnds(s)
           \/ \E r \in Role, d \in DID : Rotates(r, d)
    PROVE  IInv'
<1>0. BootPart /\ OwnTypes /\ DriverTypes /\ changes \in 0..MaxChanges
  BY TypeParts DEF IInv, BootPart
<1>1. ASSUME NEW s \in Session, SessionEnds(s)
      PROVE  IInv'
  <2>1. WorldMoves
    BY <1>1 DEF SessionEnds, WorldMoves, Keeps, Listening, bootVars, memory
  <2>2. SessionPart'
    BY <2>1, WorldKeeps
  <2>3. BootPart' /\ changes' \in 0..MaxChanges
    BY <1>0, <1>1, BootStill DEF SessionEnds
  <2>4. OwnTypes' /\ DriverTypes'
    BY <1>0, <1>1, DriverTypesStill DEF SessionEnds, OwnTypes, transactions
  <2> QED BY <2>2, <2>3, <2>4, TypeParts DEF IInv, BootPart, SessionPart
<1>2. ASSUME NEW s \in Session, TransactionEnds(s)
      PROVE  IInv'
  <2>1. BootPart' /\ changes' \in 0..MaxChanges
    BY <1>0, <1>2, BootStill DEF TransactionEnds
  <2>2. OwnTypes' /\ DriverTypes'
    BY <1>0, <1>2, DriverTypesStill DEF TransactionEnds, OwnTypes
  <2>3. /\ \A q \in Session \ {s} : txn'[q] = txn[q]
        /\ txn'[s] = "gone"
        /\ remembered \subseteq Session
    BY <1>0, <1>2 DEF TransactionEnds, OwnTypes
  <2>4. KnownHere' /\ Fresh'
    BY <1>2, <2>3
       DEF IInv, TransactionEnds, KnownHere, Fresh, Listening, RequestedClaims, bootVars, Nothing
  <2>5. MightTellAgain'
    <3>1. \A q, u : Told(q, u)' = Told(q, u)
      BY <1>2, SameTold DEF TransactionEnds, bootVars, memory
    <3> QED BY <1>2, <3>1 DEF IInv, TransactionEnds, MightTellAgain
  <2>6. AtWork' /\ PlanIsAsked' /\ Discloses' /\ IndependentIssuers'
    BY <1>2, <2>3 DEF IInv, TransactionEnds, driver, AtWork, PlanIsAsked, Discloses,
                      DisclosesAsAsked, IndependentIssuers
  <2> QED BY <2>1, <2>2, <2>4, <2>5, <2>6, TypeParts DEF IInv, BootPart
<1>3. ASSUME NEW r \in Role, NEW d \in DID, Rotates(r, d)
      PROVE  IInv'
  <2>1. WorldMoves
    BY <1>3 DEF Rotates, WorldMoves, Keeps, Listening, bootVars, memory
  <2>2. SessionPart'
    BY <2>1, WorldKeeps
  <2>3. BootPart'
    BY <1>0, <1>3, BootStill DEF Rotates
  <2>4. OwnTypes' /\ DriverTypes' /\ changes' \in 0..MaxChanges
    BY <1>0, <1>3, DriverTypesStill, JourneyAssumption DEF Rotates, OwnTypes, transactions
  <2> QED BY <2>2, <2>3, <2>4, TypeParts DEF IInv, BootPart, SessionPart
<1> QED BY <1>1, <1>2, <1>3

\* A boot step, or a change at the Authority, beside the journey.
LEMMA BootKeeps ==
    ASSUME IInv, (BootStep /\ Beside /\ UNCHANGED changes) \/ AuthorityChanges
    PROVE  IInv'
<1>0. BootPart /\ changes \in 0..MaxChanges
  BY TypeParts DEF IInv, BootPart
<1>1. CASE BootStep /\ Beside /\ UNCHANGED changes
  BY <1>0, <1>1, BootStepKeeps, BesideKeeps
<1>2. CASE AuthorityChanges
  <2>1. PICK i \in Issuer, d \in DID \cup {NoDID} : Publishes(i, d)
    BY <1>2 DEF AuthorityChanges
  <2>2. BootPart'
    BY <1>0, <2>1, PublishesKeeps
  <2>3. changes' \in 0..MaxChanges /\ Beside
    BY <1>0, <1>2, JourneyAssumption DEF AuthorityChanges
  <2>4. Listening => Listening' /\ UNCHANGED <<container, trust>>
    BY <2>1 DEF Publishes, Listening, memory
  <2> QED BY <2>2, <2>3, <2>4, BesideKeeps
<1> QED BY <1>1, <1>2

LEMMA NextKeeps == ASSUME IInv, [Next]_vars PROVE IInv'
<1>1. CASE (BootStep /\ Beside /\ UNCHANGED changes) \/ AuthorityChanges
  BY <1>1, BootKeeps
<1>2. CASE \/ \E r \in Role, d \in DID : Rotates(r, d)
           \/ \E s \in Session : SessionEnds(s) \/ TransactionEnds(s)
  BY <1>2, EndsKeep
<1>3. CASE \E s \in Session : PageStarts(s) \/ FilmStarts(s)
  BY <1>3, StartKeeps
<1>4. CASE ReadsAnswer \/ \E s \in Session : PageReads(s)
  BY <1>4, ReadKeeps
<1>5. CASE DriverMoves
  BY <1>5, DriverKeeps
<1>6. CASE Presents
  BY <1>6, PresentsKeeps
<1>7. CASE UNCHANGED vars
  <2>1. WorldMoves /\ UNCHANGED bootVars /\ UNCHANGED <<author, remembered, transactions, verdict>>
        /\ UNCHANGED driver /\ changes' = changes
    BY <1>7 DEF vars, WorldMoves, Keeps, Listening, bootVars, memory
  <2>2. SessionPart'
    BY <2>1, WorldKeeps
  <2>3. JourneyTypeOK'
    BY <2>1, BootStill, OwnTypesStill, DriverTypesStill, TypeParts DEF IInv, BootPart
  <2>4. BootPart'
    BY <2>1, BootStill, TypeParts DEF IInv, BootPart
  <2> QED BY <2>2, <2>3, <2>4 DEF IInv, BootPart, SessionPart
<1> QED BY <1>1, <1>2, <1>3, <1>4, <1>5, <1>6, <1>7 DEF Next, DriverMoves

\* The journey keeps its invariant, whatever the drivers, the operator, the issuers and the
\* Authority do.
THEOREM Invariance == Spec => []IInv
<1> QED BY InitHolds, NextKeeps, PTL DEF Spec

-----------------------------------------------------------------------------
(***************************************************************************)
(* The promises.                                                           *)
(***************************************************************************)
\* resolveTrustPolicy fails closed: no process listens with an issuer missing from its
\* allowlist, or with one that was not named for its entry since the boot began.
THEOREM NoPartialTrust == Spec => []TrustVouched
<1>1. IInv => TrustVouched
  BY DEF IInv
<1> QED BY <1>1, Invariance, PTL

\* The drivers of scripts/ that read the published policy and the session one after the
\* other never disclose what the session did not ask, where no other use case shares the
\* signing instance they fall back to.
THEOREM DriverDisclosesAsAsked ==
    ASSUME OneSigner = FALSE
    PROVE  Spec => []DisclosesAsAsked
<1>1. IInv => DisclosesAsAsked
  BY DEF IInv, Discloses
<1> QED BY <1>1, Invariance, PTL

\* No issuer stands behind two credentials of one accepted application.
THEOREM Independence == Spec => []IndependentIssuers
<1>1. IInv => IndependentIssuers
  BY DEF IInv
<1> QED BY <1>1, Invariance, PTL

\* Of two different outcomes of one session, one is an acceptance, and the other is for what
\* an Authority did not uphold.
LEMMA TurnsOnStanding ==
    ASSUME NEW s, NEW u, NEW w, Told(s, u) # Told(s, w)
    PROVE  HangsOnStanding(s)
<1>1. PICK a, b : Accepts(s, a) /\ ~Accepts(s, b)
  BY DEF Told
<1>2. Qualifies(s) /\ \A r \in Checked(s) : Askable(signedBy[s][r])
  BY <1>1 DEF Accepts
<1>3. Checked(s) # {}
  BY <1>1, <1>2 DEF Accepts
<1> QED BY <1>2, <1>3 DEF HangsOnStanding

\* A verdict that was told turns only with the standing of a card the session asked about.
THEOREM OnlyStandingTurns == Spec => VerdictTurnsOnStanding
<1> DEFINE Turns == \A s \in Session :
                        verdict[s] # "none" /\ verdict'[s] # verdict[s] => HangsOnStanding(s)
<1>1. ASSUME IInv, [Next]_vars PROVE [Turns]_vars
  <2>1. CASE ReadsAnswer \/ \E s \in Session : PageReads(s)
    <3>1. PICK s \in Session : Answered(s)
      BY <1>1, <2>1 DEF ReadsAnswer, PageReads, IInv, AtWork
    <3>2. ASSUME NEW q \in Session, verdict[q] # "none", verdict'[q] # verdict[q]
          PROVE  HangsOnStanding(q)
      <4>1. q \in remembered /\ \E u \in SUBSET Role : verdict'[q] = Told(q, u)
        BY <1>1, <3>1, <3>2, AnsweredAs
      <4>2. \E w \in SUBSET Role : verdict[q] = Told(q, w)
        BY <1>1, <3>2, <4>1 DEF IInv, MightTellAgain
      <4> QED BY <3>2, <4>1, <4>2, TurnsOnStanding
    <3> QED BY <3>2
  <2>2. CASE ~(ReadsAnswer \/ \E s \in Session : PageReads(s))
    <3>1. verdict' = verdict
      BY <1>1, <2>2
         DEF Next, vars, Beside, AuthorityChanges, Rotates, PageStarts, FilmStarts, Creates,
             SessionEnds, TransactionEnds, HandBegins, FilmBegins, ReadsPolicy, ReadsSession,
             FetchesRequest, CannotPresent, CallRefused, Presents, serverSide
    <3> QED BY <3>1
  <2> QED BY <2>1, <2>2
<1> QED BY <1>1, Invariance, PTL DEF Spec, VerdictTurnsOnStanding

\* A boot that has what it needs only goes on, and nothing but an upset ends a process that
\* listens: the part of ListensAgain that needs no fairness.
THEOREM BootOnlyGoesOn == Spec => BootsGoOn
<1> DEFINE GoesOn ==
        upsets' = upsets =>
            /\ Listening => Listening'
            /\ process = "resolving" /\ Healthy =>
                /\ process' # "down"
                /\ \A e \in Entry : fetched'[e] = Waiting => fetched[e] = Waiting
<1>1. ASSUME IInv, [Next]_vars PROVE [GoesOn]_vars
  <2>1. CASE UNCHANGED <<process, fetched>>
    BY <2>1 DEF Listening
  <2>2. CASE BootStep
    <3>0. BootTypeOK
      BY <1>1, TypeParts DEF IInv
    <3>1. CASE Boots \/ AuthorityTurns
      BY <3>1 DEF Boots, Restarted, AuthorityTurns, Listening, memory
    <3>2. CASE Crashes \/ \E d \in Deployment : Recreates(d)
      BY <3>0, <3>2 DEF Crashes, Recreates, BootTypeOK
    <3>3. CASE Listens
      BY <3>3 DEF Listens, Listening
    <3>4. ASSUME NEW e \in Entry, FetchAnswered(e)
          PROVE  [GoesOn]_vars
      <4>1. e \in DOMAIN fetched /\ fetched[e] = Waiting
        BY <3>0, <3>4 DEF FetchAnswered, BootTypeOK
      <4> QED BY <3>0, <3>4, <4>1 DEF FetchAnswered, Listening, BootTypeOK
    <3>5. ASSUME NEW e \in Entry, FetchFails(e)
          PROVE  [GoesOn]_vars
      <4>1. process = "resolving" /\ FromAuthority(e)
        BY <1>1, <3>5, BootAssumption DEF FetchFails, IInv, Resolving
      <4>2. ~Healthy
        BY <3>5, <4>1 DEF FetchFails, Healthy
      <4> QED BY <4>1, <4>2 DEF Listening
    <3> QED BY <2>2, <3>1, <3>2, <3>3, <3>4, <3>5 DEF BootStep
  <2>3. BootStep \/ UNCHANGED <<process, fetched>>
    BY <1>1
       DEF Next, vars, AuthorityChanges, Publishes, Rotates, PageStarts, PageReads, FilmStarts,
           Creates, SessionEnds, TransactionEnds, HandBegins, FilmBegins, ReadsPolicy,
           ReadsSession, FetchesRequest, CannotPresent, CallRefused, Presents, ReadsAnswer,
           serverSide, bootVars, memory
  <2> QED BY <2>1, <2>2, <2>3
<1> QED BY <1>1, Invariance, PTL DEF Spec, BootsGoOn

-----------------------------------------------------------------------------
(***************************************************************************)
(* The refinement of ApplicationPromise.  What the world does is seen as   *)
(* the verifier opening, closing, or nothing; what is asked, shown and     *)
(* told is a step of its own; everything else is a stutter.                *)
(***************************************************************************)
\* What the promise looks at.
LEMMA PromiseStutters ==
    ASSUME kind' = kind, process' = process, remembered' = remembered,
           UNCHANGED <<transactions, verdict>>,
           Listening => UNCHANGED <<trust, container>>
    PROVE  UNCHANGED Promise!vars
<1>1. Listening' = Listening
  BY DEF Listening
<1>2. Listening => /\ RequestedClaims' = RequestedClaims
                   /\ \A r \in Role : AllowedFor(r)' = AllowedFor(r)
  BY DEF RequestedClaims, AllowedFor, Trusts, FoundAt
<1> QED BY <1>1, <1>2 DEF Promise!vars, Promise!told, transactions, Nothing

\* A presentation is of the plan, and a careful wallet's plan is the request.
LEMMA ShowsAsAsked ==
    ASSUME IInv, IInv', Presents
    PROVE  [Promise!Next]_Promise!vars
<1>1. session \in Session /\ Disclosure \in [Role -> SUBSET Claim]
      /\ held \in [Role -> DID \cup {NoDID}]
  BY TypeParts DEF IInv, AtWork, Presents, DriverTypes, Disclosure
<1>2. /\ UNCHANGED <<kind, process, trust, container, remembered, asked, verdict>>
      /\ txn \in [Session -> {"none", "pending", "answered", "gone"}]
  BY DEF Presents, bootVars, memory, IInv, JourneyTypeOK
<1>3. CASE txn[session] # "pending"
  <2>1. UNCHANGED transactions
    BY <1>2, <1>3 DEF Presents, transactions
  <2> QED BY <1>2, <2>1, PromiseStutters
<1>4. CASE txn[session] = "pending"
  <2>1. /\ txn' = [txn EXCEPT ![session] = "answered"]
        /\ shown' = [shown EXCEPT ![session] = Disclosure]
        /\ signedBy' = [signedBy EXCEPT ![session] = held]
    BY <1>4 DEF Presents
  <2>2. kind = "hand" /\ ~OneSigner => \A r \in Role : Disclosure[r] \in {{}, asked[session][r]}
    <3>1. pc = "present"
      BY DEF Presents
    <3> QED BY <3>1 DEF IInv, PlanIsAsked, Disclosure
  <2>3. /\ {s \in Session : txn'[s] = "pending"} = {s \in Session : txn[s] = "pending"} \ {session}
        /\ {s \in Session : txn'[s] = "answered"} = {s \in Session : txn[s] = "answered"} \cup {session}
    BY <1>1, <1>2, <2>1
  <2>4. Listening' = Listening /\ RequestedClaims' = RequestedClaims
        /\ \A r \in Role : AllowedFor(r)' = AllowedFor(r)
    BY <1>2 DEF Listening, RequestedClaims, AllowedFor, Trusts, FoundAt
  <2>5. PICK s \in Session : s = session
    BY <1>1
  <2>6. Promise!Shows(s)
    BY <1>1, <1>2, <1>4, <2>1, <2>2, <2>3, <2>4, <2>5 DEF Promise!Shows, Nothing
  <2> QED BY <2>6 DEF Promise!Next
<1> QED BY <1>3, <1>4

\* What this verifier may tell of a session is one of the promise's outcomes: what it allows
\* for a role is what it trusts for it, for every entry of its list is a DID.
LEMMA ToldIsOutcome ==
    ASSUME IInv, Listening, NEW s \in Session, NEW u
    PROVE  Told(s, u) \in Promise!Outcomes(s)
<1>1. shown[s] = asked[s] <=> ExactlyAsked(s)
  BY DEF ExactlyAsked, IInv, JourneyTypeOK
<1>2. ASSUME NEW r \in Role
      PROVE  signedBy[s][r] \in AllowedFor(r) <=> Trusts(signedBy[s][r], r)
  BY DEF AllowedFor, Trusts, FoundAt, IInv, TrustVouched
<1>3. Promise!Fits(s) <=> Qualifies(s)
  BY <1>1, <1>2 DEF Promise!Fits, Qualifies
<1>4. Promise!StandingAsked(s) <=> Checked(s) # {}
  BY DEF Promise!StandingAsked, Checked
<1>5. Accepts(s, u) => Promise!Fits(s)
  BY <1>3 DEF Accepts
<1>6. ~Accepts(s, u) => (Promise!Fits(s) => Promise!StandingAsked(s))
  BY <1>3, <1>4 DEF Accepts
<1> QED BY <1>5, <1>6 DEF Promise!Outcomes, Told

\* An answer tells one of the outcomes, or nothing.
LEMMA AnswerTells ==
    ASSUME IInv, NEW s \in Session, Answered(s),
           UNCHANGED <<bootVars, remembered, transactions, kind>>
    PROVE  [Promise!Next]_Promise!vars
<1>1. UNCHANGED <<process, trust, container>>
  BY DEF bootVars, memory
<1>2. CASE verdict' = verdict
  BY <1>1, <1>2, PromiseStutters
<1>3. CASE verdict' # verdict
  <2>1. PICK u \in SUBSET Role :
            /\ Listening /\ s \in remembered /\ txn[s] = "answered"
            /\ verdict' = [verdict EXCEPT ![s] = Told(s, u)]
    BY <1>3 DEF Answered
  <2>2. verdict[s] \in {"none"} \cup Promise!Outcomes(s)
    BY <2>1, ToldIsOutcome DEF IInv, MightTellAgain
  <2>3. Told(s, u) \in Promise!Outcomes(s)
    BY <2>1, ToldIsOutcome
  <2>4. Listening' = Listening /\ RequestedClaims' = RequestedClaims
        /\ \A r \in Role : AllowedFor(r)' = AllowedFor(r)
    BY <1>1 DEF Listening, RequestedClaims, AllowedFor, Trusts, FoundAt
  <2>5. Promise!Tells(s)
    BY <2>1, <2>2, <2>3, <2>4 DEF Promise!Tells, transactions, Nothing
  <2> QED BY <2>5 DEF Promise!Next
<1> QED BY <1>2, <1>3

\* A session asks for what the verifier that starts it requests, once.
LEMMA CreatesAsks ==
    ASSUME IInv, NEW s \in Session, Creates(s), kind' = kind
    PROVE  [Promise!Next]_Promise!vars
<1>1. /\ UNCHANGED <<process, trust, container, shown, signedBy, verdict>>
      /\ txn' = [txn EXCEPT ![s] = "pending"] /\ txn[s] = "none"
      /\ txn \in [Session -> {"none", "pending", "answered", "gone"}]
  BY DEF Creates, bootVars, memory, IInv, JourneyTypeOK
<1>2. /\ {q \in Session : txn'[q] = "pending"} = {q \in Session : txn[q] = "pending"} \cup {s}
      /\ {q \in Session : txn'[q] = "answered"} = {q \in Session : txn[q] = "answered"}
  BY <1>1
<1>3. asked[s] = Nothing /\ Nothing = Promise!Nothing
  BY <1>1 DEF IInv, Fresh, Nothing, Promise!Nothing
<1>4. Listening' = Listening /\ RequestedClaims' = RequestedClaims
      /\ \A r \in Role : AllowedFor(r)' = AllowedFor(r)
  BY <1>1 DEF Listening, RequestedClaims, AllowedFor, Trusts, FoundAt
<1>5. Promise!Asks(s)
  BY <1>1, <1>2, <1>3, <1>4 DEF Promise!Asks, Creates, WellFormed
<1> QED BY <1>5 DEF Promise!Next

\* OneRole of the allowlist a step leaves.
LEMMA OneRoleNext ==
    ASSUME NEW d, NEW r \in Role, NEW q \in Role, Trusts(d, r)', Trusts(d, q)'
    PROVE  r = q
<1>1. PICK e \in Entry : /\ trust'[e] = d /\ \A g \in Entry : trust'[g] = d => g <= e
                         /\ r \in File[e].roles
  BY DEF Trusts, FoundAt
<1>2. PICK f \in Entry : /\ trust'[f] = d /\ \A g \in Entry : trust'[g] = d => g <= f
                         /\ q \in File[f].roles
  BY DEF Trusts, FoundAt
<1>3. e <= f /\ f <= e /\ e \in Nat /\ f \in Nat
  BY <1>1, <1>2, EntryTyped
<1>4. e = f
  BY <1>3
<1> QED BY <1>1, <1>2, <1>4, OneRoleEach

\* A verifier that comes to listen opens; one that goes down closes, and knows no session.
LEMMA WorldOpensOrCloses ==
    ASSUME IInv, IInv', Beside,
           process' = "down" \/ (Listening => Listening' /\ UNCHANGED <<container, trust>>)
    PROVE  [Promise!Next]_Promise!vars
<1>0. /\ kind' = kind /\ UNCHANGED <<transactions, verdict>>
      /\ UNCHANGED <<txn, asked, shown, signedBy>>
      /\ remembered' = IF process' = "down" THEN {} ELSE remembered
  BY DEF Beside, Forgets, driver, transactions
<1>1. ~Listening => remembered = {}
  BY DEF IInv, KnownHere
<1>2. CASE Listening /\ Listening'
  <2>1. process' = process /\ process' # "down" /\ UNCHANGED <<trust, container>>
    BY <1>2 DEF Listening
  <2> QED BY <1>0, <2>1, PromiseStutters
<1>3. CASE Listening /\ ~Listening'
  <2>1. process' = "down" /\ remembered' = {}
    BY <1>0, <1>3
  <2>2. Promise!Closes
    BY <1>0, <1>3, <2>1 DEF Promise!Closes, Promise!told, Promise!Nothing, Nothing
  <2> QED BY <2>2 DEF Promise!Next
<1>4. CASE ~Listening /\ ~Listening'
  BY <1>0, <1>1, <1>4 DEF Promise!vars, Promise!told, Nothing, Listening
<1>5. CASE ~Listening /\ Listening'
  <2>1. remembered' = remembered
    BY <1>0, <1>1, <1>5 DEF Listening
  <2>2. RequestedClaims' \in [Role -> SUBSET Claim]
    <3>1. BootTypeOK'
      BY TypeParts DEF IInv
    <3>2. container'.statusClaim \in BOOLEAN
      BY <3>1, BootAssumption DEF BootTypeOK
    <3> QED BY <3>2, JourneyAssumption DEF RequestedClaims
  <2>3. [r \in Role |-> AllowedFor(r)'] \in [Role -> SUBSET DID]
    BY DEF AllowedFor
  <2>4. \A r, q \in Role : r # q => AllowedFor(r)' \cap AllowedFor(q)' = {}
    BY OneRoleNext DEF AllowedFor
  <2>5. Promise!Opens
    BY <1>0, <1>5, <2>1, <2>2, <2>3, <2>4 DEF Promise!Opens, Promise!told
  <2> QED BY <2>5 DEF Promise!Next
<1> QED BY <1>2, <1>3, <1>4, <1>5

\* The two lifetimes of a session; and what issuers do, which the promise does not see.
LEMMA EndsForgetOrLapse ==
    ASSUME IInv,
           \/ \E s \in Session : SessionEnds(s) \/ TransactionEnds(s)
           \/ \E r \in Role, d \in DID : Rotates(r, d)
    PROVE  [Promise!Next]_Promise!vars
<1>0. /\ UNCHANGED <<kind, process, trust, container, asked, shown, signedBy, verdict>>
      /\ Listening' = Listening /\ RequestedClaims' = RequestedClaims
      /\ \A r \in Role : AllowedFor(r)' = AllowedFor(r)
  BY DEF SessionEnds, TransactionEnds, Rotates, bootVars, memory, driver, transactions,
         Listening, RequestedClaims, AllowedFor, Trusts, FoundAt
<1>1. ASSUME NEW s \in Session, SessionEnds(s)
      PROVE  [Promise!Next]_Promise!vars
  <2>1. Promise!Forgets(s)
    BY <1>0, <1>1 DEF SessionEnds, Promise!Forgets, Promise!told, transactions, Nothing
  <2> QED BY <2>1 DEF Promise!Next
<1>2. ASSUME NEW s \in Session, TransactionEnds(s)
      PROVE  [Promise!Next]_Promise!vars
  <2>1. /\ {q \in Session : txn'[q] = "pending"} = {q \in Session : txn[q] = "pending"} \ {s}
        /\ {q \in Session : txn'[q] = "answered"} = {q \in Session : txn[q] = "answered"} \ {s}
    BY <1>2 DEF TransactionEnds, IInv, JourneyTypeOK
  <2>2. Promise!Lapses(s)
    BY <1>0, <1>2, <2>1 DEF TransactionEnds, Promise!Lapses, Promise!told, Nothing
  <2> QED BY <2>2 DEF Promise!Next
<1>3. ASSUME NEW r \in Role, NEW d \in DID, Rotates(r, d)
      PROVE  [Promise!Next]_Promise!vars
  BY <1>0, <1>3, PromiseStutters DEF Rotates
<1> QED BY <1>1, <1>2, <1>3

\* An application goes as promised, whatever the drivers, the operator, the issuers and the
\* Authority do between its calls: WalletJourney implements ApplicationPromise.
THEOREM Implements == Spec => KeepsPromise
<1>1. Init => Promise!Init
  BY DEF Init, BootInit, Listening, Promise!Init, Promise!Nothing, Promise!Nobody, Nothing, Nobody
<1>2. ASSUME IInv, IInv', [Next]_vars
      PROVE  [Promise!Next]_Promise!vars
  <2>1. CASE BootStep /\ Beside /\ UNCHANGED changes
    <3>1. BootPart
      BY <1>2, TypeParts DEF IInv, BootPart
    <3> QED BY <1>2, <2>1, <3>1, BootStepKeeps, WorldOpensOrCloses
  <2>2. CASE AuthorityChanges
    <3>1. Beside /\ (Listening => Listening' /\ UNCHANGED <<container, trust>>)
      BY <2>2 DEF AuthorityChanges, Publishes, Listening, memory
    <3> QED BY <1>2, <3>1, WorldOpensOrCloses
  <2>3. CASE \/ \E r \in Role, d \in DID : Rotates(r, d)
             \/ \E s \in Session : SessionEnds(s) \/ TransactionEnds(s)
    BY <1>2, <2>3, EndsForgetOrLapse
  <2>4. ASSUME NEW s \in Session, PageStarts(s) \/ FilmStarts(s)
        PROVE  [Promise!Next]_Promise!vars
    BY <1>2, <2>4, CreatesAsks DEF PageStarts, FilmStarts, driver
  <2>5. CASE ReadsAnswer \/ \E s \in Session : PageReads(s)
    <3>1. PICK s \in Session : Answered(s)
      BY <1>2, <2>5 DEF ReadsAnswer, PageReads, IInv, AtWork
    <3>2. UNCHANGED <<bootVars, remembered, transactions, kind>>
      BY <2>5 DEF ReadsAnswer, PageReads, driver
    <3> QED BY <1>2, <3>1, <3>2, AnswerTells
  <2>6. CASE Presents
    BY <1>2, <2>6, ShowsAsAsked
  <2>7. CASE DriverMoves \/ UNCHANGED vars
    <3>1. UNCHANGED serverSide /\ kind' = kind
      BY <2>7 DEF DriverMoves, HandBegins, FilmBegins, ReadsPolicy, ReadsSession,
                  FetchesRequest, CannotPresent, CallRefused, vars, serverSide, driver
    <3>2. UNCHANGED <<process, trust, container, remembered, transactions, verdict>>
      BY <3>1 DEF serverSide, bootVars, memory
    <3> QED BY <3>1, <3>2, PromiseStutters
  <2> QED BY <1>2, <2>1, <2>2, <2>3, <2>4, <2>5, <2>6, <2>7 DEF Next, DriverMoves
<1> QED BY <1>1, <1>2, Invariance, PTL DEF Spec, KeepsPromise, Promise!Spec

=============================================================================
