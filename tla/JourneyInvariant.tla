--------------------------- MODULE JourneyInvariant ---------------------------
(***************************************************************************)
(* Why the promises of WalletJourney hold: the inductive invariant behind  *)
(* them.  A verifier is either resolving, with an answer vouched for or    *)
(* still out for every entry, or listening with all of them; it knows only *)
(* sessions this process has started, whose requests are its own; and the  *)
(* driver's plan is the request of the session it found pending.           *)
(***************************************************************************)
EXTENDS WalletJourney

\* Resolving: what has come is vouched for, and only the Authority is waited for.
Resolving ==
    process = "resolving" =>
        \A e \in Entry :
            \/ fetched[e] = Waiting /\ FromAuthority(e)
            \/ fetched[e] \in DID /\ fetched[e] \in vouched[e]

\* A session in memory was started by the process that listens, and asks what it asks.
KnownHere ==
    \A s \in remembered :
        Listening /\ txn[s] # "none" /\ asked[s] = RequestedClaims

\* Nothing is asked of, shown to, or told of a session that is not there yet.
Fresh ==
    \A s \in Session :
        /\ txn[s] = "none" => asked[s] = Nothing /\ shown[s] = Nothing
        /\ verdict[s] # "none" => txn[s] \in {"answered", "gone"}

\* A verdict is one this process, if it knows the session, might tell again: with the same
\* cards upheld it would.
MightTellAgain ==
    \A s \in remembered :
        verdict[s] # "none" => \E upheld \in SUBSET Role : verdict[s] = Told(s, upheld)

\* Where the driver is, the session it works on is there.
AtWork ==
    /\ kind = "hand" /\ pc # "idle" => session \in Session /\ txn[session] # "none"
    /\ pc = "session" => kind = "hand"
    /\ pc = "ready" => kind = "film"
    /\ pc \in {"request", "present", "answer"} => session \in Session /\ txn[session] # "none"

\* The plan, read before the session, is the session's request as long as it is known.
PlanIsAsked ==
    kind = "hand" =>
        /\ pc = "session" /\ session \in remembered => plan = asked[session]
        /\ pc \in {"request", "present"} /\ ~OneSigner => plan = asked[session]

\* DisclosesAsAsked where each use case has a signing instance of its own.
Discloses == ~OneSigner => DisclosesAsAsked

\* The journey's inductive invariant: the parts above, with types and the promises.
IInv ==
    /\ JourneyTypeOK
    /\ Resolving /\ TrustVouched
    /\ KnownHere /\ Fresh /\ MightTellAgain
    /\ AtWork /\ PlanIsAsked /\ Discloses
    /\ IndependentIssuers
=============================================================================
