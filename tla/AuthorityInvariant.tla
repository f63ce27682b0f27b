------------------------- MODULE AuthorityInvariant --------------------------
(***************************************************************************)
(* The inductive invariant behind the safety properties of                 *)
(* AuthorityIssuance: what the requests that share the provider may rely   *)
(* on while one of them awaits, and what is known of the Authority's past. *)
(***************************************************************************)
EXTENDS AuthorityIssuance

\* The provider knows exactly the exchange that is out.
ExchangeKnown ==
    /\ inFlight # NoToken => exchange[inFlight] # "none"
    /\ \A t \in Token : exchange[t] # "none" => t = inFlight

\* A request awaits the exchange in flight, and nothing else.
AwaitsInFlight ==
    \A r \in Request :
        /\ req[r].pc = "awaiting" <=> req[r].waitsFor # NoToken
        /\ req[r].waitsFor # NoToken => req[r].waitsFor = inFlight

\* The token an exchange will return is new: neither cached nor in any call.
ComingIsNew ==
    inFlight # NoToken =>
        /\ cache.token # inFlight
        /\ \A r \in Request : req[r].held # inFlight

\* Counted from the arrival of the answer less the margin, a token is never offered for
\* longer than the IdP, counting from the minting, accepts it.
OfferedInTime ==
    /\ cache.token # NoToken => cache.offeredFor <= left[cache.token]
    /\ \A t \in Token : exchange[t] = "minted" =>
            \E l \in Lifetime : expiresIn[t] \in Told(l) /\ l <= left[t] + age[t]

\* What a search found alone was alone, when it was answered.
MatchWasSole ==
    /\ \A s \in Subject, o \in Osid : records[s] = {o} => <<s, o>> \in everSole
    /\ \A r \in Request :
        /\ \A o \in Osid : Receives(r, "rows") /\ req[r].reply.rows = {o} =>
                <<req[r].asked.subject, o>> \in everSole
        /\ req[r].stage = "issue" => <<req[r].asked.subject, req[r].osid>> \in everSole

\* A request that is under way was asked for someone.
AskedWhileServed ==
    \A r \in Request :
        /\ req[r].pc # "idle" => req[r].asked \in Ask
        /\ req[r].pc = "idle" => req[r].stage = "profile" /\ req[r].asked = NoAsk
        /\ Receives(r, "bound") => req[r].stage = "profile"
        /\ Receives(r, "rows") => req[r].stage = "search"
        /\ Receives(r, "issued") => req[r].stage = "issue"
        /\ req[r].stage = "issue" => req[r].osid \in Osid

\* The key of an issue call for a record that was the only match for its subject.
SoleKey(key) ==
    \E p \in Profile, o \in Osid, s \in Subject : key = <<p, o, s>> /\ <<s, o>> \in everSole

\* Whatever the Authority was asked to issue, or may still be asked, is for such a record.
AskedForSole ==
    /\ \A call \in straggling : SoleKey(call.key)
    /\ \A x \in anchors : SoleKey(x[1])

\* The Authority holds one credential per key and one key per credential.
AnchorsPaired == \A x, y \in anchors : x[1] = y[1] <=> x[2] = y[2]

\* What was handed on, or is about to be, is the Authority's credential for its key.
LinkageHeld ==
    /\ \A r \in Request : Receives(r, "issued") /\ req[r].reply.anchor # NoAnchor =>
            <<IdempotencyKey(req[r], r), req[r].reply.anchor>> \in anchors
    /\ \A d \in delivered : <<<<d.profile, d.osid, d.subject>>, d.anchor>> \in anchors

\* What was handed on came from such a record.
LinkedFromSole == \A d \in delivered : <<d.subject, d.osid>> \in everSole

\* The invariant every step preserves, apart from time (OfferedInTime needs the margin, or
\* what is assumed in its place, to cover the exchange).
IInv ==
    /\ TypeOK
    /\ ExchangeKnown
    /\ AwaitsInFlight
    /\ ComingIsNew
    /\ MatchWasSole
    /\ AskedWhileServed
    /\ AskedForSole
    /\ AnchorsPaired
    /\ LinkageHeld
    /\ LinkedFromSole

=============================================================================
