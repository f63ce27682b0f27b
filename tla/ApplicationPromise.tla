-------------------------- MODULE ApplicationPromise --------------------------
(***************************************************************************)
(* What a holder's application is promised, without saying how (no process *)
(* that boots, no policy file, no reads of a wallet driver).  A verifier   *)
(* that is open has one allowlist, where no issuer stands for two cards,   *)
(* and one request, for as long as it is open.  An application is asked    *)
(* and answered by one presentation, a careful wallet's with nothing not   *)
(* asked; it is accepted only if all that was asked came, each card from   *)
(* an issuer allowed for it.  If the standing of a card was asked, it may  *)
(* be rejected all the same, and told otherwise later; if not, what was    *)
(* told of it is never another.                                            *)
(***************************************************************************)
CONSTANTS Session, Role, Claim, DID, NoDID,
          StatusClaim  \* asked of a card, its standing is asked with it

VARIABLES
    careful,    \* the wallet discloses by the session's request
    open,
    allowed,    \* while open: the issuers allowed for each card
    request,    \* while open: the claims asked of each card
    known,      \* sessions the verifier can still tell of
    awaited,    \* sessions that can still be answered
    answered,   \* sessions whose answer is still to be had
    asked, shown, signedBy, verdict

vars == <<careful, open, allowed, request, known, awaited, answered,
          asked, shown, signedBy, verdict>>

told == <<asked, shown, signedBy, verdict>>

Nothing == [r \in Role |-> {}]
Nobody == [r \in Role |-> NoDID]

Init ==
    /\ careful \in BOOLEAN
    /\ open = FALSE /\ allowed = Nothing /\ request = Nothing
    /\ known = {} /\ awaited = {} /\ answered = {}
    /\ asked = [s \in Session |-> Nothing]
    /\ shown = [s \in Session |-> Nothing]
    /\ signedBy = [s \in Session |-> Nobody]
    /\ verdict = [s \in Session |-> "none"]

Opens ==
    /\ ~open /\ open'
    /\ allowed' \in [Role -> SUBSET DID] /\ request' \in [Role -> SUBSET Claim]
    /\ \A r, q \in Role : r # q => allowed'[r] \cap allowed'[q] = {}
    /\ UNCHANGED <<careful, known, awaited, answered, told>>

\* Nothing is told any more of the sessions it knew.
Closes ==
    /\ open /\ ~open'
    /\ allowed' = Nothing /\ request' = Nothing /\ known' = {}
    /\ UNCHANGED <<careful, awaited, answered, told>>

Asks(s) ==
    /\ open /\ asked[s] = Nothing /\ \A r \in Role : request[r] # {}
    /\ asked' = [asked EXCEPT ![s] = request]
    /\ known' = known \cup {s} /\ awaited' = awaited \cup {s}
    /\ UNCHANGED <<careful, open, allowed, request, answered, shown, signedBy, verdict>>

Shows(s) ==
    /\ s \in awaited
    /\ awaited' = awaited \ {s} /\ answered' = answered \cup {s}
    /\ \E claims \in [Role -> SUBSET Claim] :
        /\ careful => \A r \in Role : claims[r] \in {{}, asked[s][r]}
        /\ shown' = [shown EXCEPT ![s] = claims]
    /\ \E issuers \in [Role -> DID \cup {NoDID}] :
        signedBy' = [signedBy EXCEPT ![s] = issuers]
    /\ UNCHANGED <<careful, open, allowed, request, known, asked, verdict>>

Fits(s) == shown[s] = asked[s] /\ \A r \in Role : signedBy[s][r] \in allowed[r]

StandingAsked(s) == \E r \in Role : StatusClaim \in asked[s][r]

\* What may be told of a session that was answered.
Outcomes(s) ==
    {v \in {"accepted", "rejected"} :
        IF v = "accepted" THEN Fits(s) ELSE Fits(s) => StandingAsked(s)}

\* Earlier and now, one of the same outcomes.
Tells(s) ==
    /\ open /\ s \in known \cap answered
    /\ verdict[s] \in {"none"} \cup Outcomes(s)
    /\ \E outcome \in Outcomes(s) : verdict' = [verdict EXCEPT ![s] = outcome]
    /\ UNCHANGED <<careful, open, allowed, request, known, awaited, answered,
                   asked, shown, signedBy>>

\* The verifier's session and the signer's transaction end, in any order.
Forgets(s) ==
    /\ known' = known \ {s}
    /\ UNCHANGED <<careful, open, allowed, request, awaited, answered, told>>

Lapses(s) ==
    /\ awaited' = awaited \ {s} /\ answered' = answered \ {s}
    /\ UNCHANGED <<careful, open, allowed, request, known, told>>

Next ==
    \/ Opens \/ Closes
    \/ \E s \in Session : Asks(s) \/ Shows(s) \/ Tells(s) \/ Forgets(s) \/ Lapses(s)

Spec == Init /\ [][Next]_vars
=============================================================================
