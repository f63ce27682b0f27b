--------------------------- MODULE AuthorityTokens ---------------------------
(***************************************************************************)
(* The token an issuing oid4vc-service shows the Authority Service:        *)
(* src/claims/authority-token.ts (patch 0009), class AuthorityTokenProvider.*)
(* One provider is shared by every credential request of a client: it      *)
(* caches a token, drops it when the Authority refuses it, and lets all    *)
(* callers that find none await one exchange.                              *)
(*                                                                         *)
(* Time is what is left of it: a deadline is the ticks until it passes.    *)
(* A token identity is reused once nobody holds the token; an exchange is  *)
(* named by the token it will return.                                      *)
(***************************************************************************)
EXTENDS Naturals

CONSTANTS
    Token,
    NoToken,
    Lifetime,         \* the lifetimes the IdP grants
    Untold,           \* those it may grant without telling a usable expires_in
    AssumedLifetime,  \* the sixty seconds a token is then taken to live
    MarginCap,        \* the ten seconds of the renewal margin
    ExchangeTimeout   \* AUTHORITY_TIMEOUT, which bounds an exchange

ASSUME TokensAssumption ==
    /\ NoToken \notin Token
    /\ Lifetime \subseteq Nat \ {0} /\ Untold \subseteq Lifetime
    /\ AssumedLifetime \in Nat \ {0}
    /\ MarginCap \in Nat /\ ExchangeTimeout \in Nat \ {0}

VARIABLES
    cache,      \* this.token, and how long it is still offered (this.expiresAt)
    inFlight,   \* the exchange callers await (this.inFlight), or NoToken
    exchange,   \* each exchange: "none", "requested" of the IdP, or "minted"
    age,        \* how long an exchange has been out
    expiresIn,  \* the lifetime told in the answer on its way; 0 for none that is positive
    left        \* IdP: how long a token is still accepted

provider  == <<cache, inFlight>>
exchanges == <<exchange, age, expiresIn, left>>

Empty == [token |-> NoToken, offeredFor |-> 0]

TokensInit ==
    /\ cache = Empty
    /\ inFlight = NoToken
    /\ exchange = [t \in Token |-> "none"]
    /\ age = [t \in Token |-> 0]
    /\ expiresIn = [t \in Token |-> 0]
    /\ left = [t \in Token |-> 0]

\* get() answers from the cache.
Offers(c) == c.token # NoToken /\ c.offeredFor > 0

KeptAnyway(c) == c

\* invalidate(): whatever is cached is dropped, whoever acquired it.
Invalidated(c) == Empty

NoMargin(l) == 0

\* The part of a token's lifetime in which it is renewed rather than offered.
Margin(l) == IF l \div 3 < MarginCap THEN l \div 3 ELSE MarginCap

\* How long a token is offered, by the lifetime its answer told.
OfferedFor(e) ==
    LET lifetime == IF e > 0 THEN e ELSE AssumedLifetime IN lifetime - Margin(lifetime)

EachItsOwn == FALSE

Shared == inFlight # NoToken

(***************************************************************************)
(* get() with nothing to offer: the caller awaits exchange t, which is the *)
(* one in flight or a new one, for a token nobody holds.                   *)
(***************************************************************************)
Joins(t, held) ==
    \/ Shared /\ t = inFlight /\ UNCHANGED <<inFlight, exchanges>>
    \/ /\ ~Shared
       /\ t \notin held /\ t # cache.token /\ exchange[t] = "none"
       /\ inFlight' = t
       /\ exchange' = [exchange EXCEPT ![t] = "requested"]
       /\ age' = [age EXCEPT ![t] = 0]
       /\ left' = [left EXCEPT ![t] = 0]
       /\ UNCHANGED expiresIn

\* What the IdP may tell of a lifetime it grants.
Told(l) == IF l \in Untold THEN {l, 0} ELSE {l}

\* External: the IdP mints the token; its answer is on its way.
Mints(t) ==
    /\ exchange[t] = "requested"
    /\ \E l \in Lifetime :
        /\ \E e \in Told(l) : expiresIn' = [expiresIn EXCEPT ![t] = e]
        /\ left' = [left EXCEPT ![t] = l]
    /\ exchange' = [exchange EXCEPT ![t] = "minted"]
    /\ UNCHANGED <<provider, age>>

Ends(t) ==
    /\ inFlight' = NoToken
    /\ exchange' = [exchange EXCEPT ![t] = "none"]
    /\ age' = [age EXCEPT ![t] = 0]
    /\ expiresIn' = [expiresIn EXCEPT ![t] = 0]
    /\ UNCHANGED left

\* The answer arrives: the token is cached from now on, counted from now.
Acquires(t) ==
    /\ exchange[t] = "minted"
    /\ cache' = [token |-> t, offeredFor |-> OfferedFor(expiresIn[t])]
    /\ Ends(t)

\* Refused, unreachable, unreadable, no access_token, or timed out.
Fails(t) ==
    /\ exchange[t] # "none"
    /\ UNCHANGED cache
    /\ Ends(t)

Less(n) == IF n = 0 THEN 0 ELSE n - 1

TimesOut(t) == exchange[t] # "none" /\ age[t] = ExchangeTimeout

\* A tick; an exchange that has reached its timeout ends before time goes on.
TokensTick ==
    /\ \A t \in Token : ~TimesOut(t)
    /\ cache' = [cache EXCEPT !.offeredFor = Less(@)]
    /\ age' = [t \in Token |-> IF exchange[t] = "none" THEN 0 ELSE age[t] + 1]
    /\ left' = [t \in Token |-> Less(left[t])]
    /\ UNCHANGED <<inFlight, exchange, expiresIn>>

\* The process stops: the cache and what was awaited are gone.
TokensLost ==
    /\ cache' = Empty
    /\ inFlight' = NoToken
    /\ exchange' = [t \in Token |-> "none"]
    /\ age' = [t \in Token |-> 0]
    /\ expiresIn' = [t \in Token |-> 0]
    /\ UNCHANGED left

Accepted(t) == left[t] > 0

Outstanding == {t \in Token : exchange[t] # "none"}

=============================================================================
