# A TLA+ model of the Sunbird RC reference implementations

This directory specifies, model-checks and proves properties of the program in
`src/`: the reusable verifier service, and the services and pages around it.
The modules are translated from the code; where a comment or a test says
something the code does not do, a run shows it (see *Findings*).

## The system

| Part | Code | State it keeps | Operations |
|---|---|---|---|
| verifier service | `services/verifier/src/server.mjs` | `sessions`, `abandoned`, the handlers in flight | POST sessions, GET a session (poll), POST cancel, GET healthz, boot |
| session store | `core/sessions.mjs` | session → expiry | create, get, size; each sweeps first |
| presentation gate | `core/{checks,algorithms,claim-policy,trust}.mjs` | policies loaded at boot | evaluateChecks, check algorithms, exact claims, trust for a role |
| credential status checker | `core/credential-status.mjs` | none | ask the issuing Authority for a credential's standing |
| decision rules | `domains/{age,agriculture,education}` | the lending policy, loaded at boot | decideAge, decideFarmCredit, decideEducation |
| trust resolution | `core/trust.mjs` | the allowlist | resolve DIDs at the Authority once, before listening |
| web pages | `verifier-web`, `bank-web`, `education-web`, `verifier-mobile` | session id, poll timer, countdown | start, poll, cancel |
| age issuer | `services/age-issuer` | none | look up a citizen, derive claims, create an offer |
| Authority token provider | patch 0009 | cached token, its expiry, the exchange in flight | get, invalidate, exchange |
| Authority claim source | patch 0008, 0009 | none (shares the provider) | profile, search, issue; retry once on 401/403 |
| self-service issuance | patches 0001, 0003, 0005–0007 | oid4vc-service's stores | issue to a logged-in holder, or from an offer; refuse another issuer's type; refuse an unrequested disclosure |
| wallet drivers | `scripts/wallet-*.mjs`, `check-film-subject.mjs` | the credentials they hold | collect credentials, read policy and session, present |
| scripts | `scripts/*.sh` | `.env` files, registries | bootstrap, seed, lifecycle |
| external | images and `vendor/` | — | Sunbird RC services, Keycloak, Authority Service, wallet |

How they interact. A page POSTs a session and polls it every 1.5 s. The verifier
creates a transaction at oid4vc-service, whose QR a wallet answers once. Every
poll reads the transaction's status, runs the gate over each requested
credential, asks the Authority about a credential's standing where the request
says so, and only then applies the business rule. Nothing is cached between
polls: **a decision is recomputed by each**. An issuing oid4vc-service obtains its
claims from the Authority Service with a token the requests share.

What is hard. Node runs one handler at a time, but a handler gives way at every
`await`: polls of one session overlap each other, a cancel, an expiry, the
wallet's answer and changes at the Authority. The session store, the
transaction store and the abandoned set forget at different times; a restart
loses two of the three. On the issuing side many requests share one token, one
exchange and a retry that invalidates what others use. Every answer about
what is published, who is trusted and what is on record is a call to another
service: two such answers are two moments, and what a program reads second may
not fit what it read first.

### What makes each component correct

| Component | Correct when | Stated by |
|---|---|---|
| verifier service | a decision is the rule's answer on the body stored for that very session, after every check of every credential; overlapping polls agree; a session told to be over stays over, across restarts; a poll asks once about each thing it needs, in order, and is answered | `DecisionEarned`, `DecisionsAgree`, `ClosedStaysClosed`, `KeepsPromise`, `ReadsAdvance`, `ReadAnswered` |
| session store | a stored presentation does not expire before the session that polls for it | `AnswerReadable` |
| presentation gate | no early slot of a presentation stands in for a later one, nothing unverified reaches a rule | `DecisionEarned` |
| status checker | each credential a decision rests on was ACTIVE during the read that decided | `DecisionStanding` |
| token provider | one exchange at a time; a retry carries another token than the refused one; no call carries a token that is over, where margin and assumed lifetime fit the IdP's | `OneExchange`, `RetryWithAnother`, `SentFresh` |
| Authority claim source | never a choice between two records; one Authority credential per profile, record and subject, handed only to a request that asked for it; a request makes six calls at most and is answered | `SoleMatchIssued`, `OneAnchor`, `KeepsPromise`, `Advances`, `ResolveEnds` |
| web pages | a page shows only the decision of the session whose QR it shows, never waits without asking and comes to a result unless its cancel is lost | `ShownIsOwn`, `StillAsking`, `ResultShown` |
| mobile verifier | "verified result" stands over a decision the service made; the spinner ends | `DecisionWasJustified`, `StillAsking`, `SpinnerEnds` |
| business rules | they approve exactly what the policy publishes, whatever the order of their checks; credentials of two people are never a business answer; a loan is fair | `EligibleExactly`, `AnswerIsAboutOneSubject`, `LoanIsFair`, `MoreLandNeverLess`, `DisclosureFollowsPurpose`, `BetterMarksNeverHurt` |
| age issuer | an assertion is exact on the day it is issued, and nobody under age is approved with an old one; an offer is of the age issuer's own type, about a citizen of its registry | `AgeIsExact`, `ApprovedIsOver18`, `OfferedAsMeant` |
| trust resolution | a verifier that listens has a vouched DID for every entry of its policy; no issuer stands behind two cards; it comes up again once everything it needs is there | `TrustVouched`, `IndependentIssuers`, `ListensAgain` |
| a holder's application | a wallet discloses what its session's request names, whatever restarts lie between; a verdict that was told turns only with the standing of a card; all of it goes as one list of trusted issuers and one request decide | `DisclosesAsAsked`, `VerdictTurnsOnStanding`, `KeepsPromise` |
| self-service issuance | a holder gets the type and format asked for, with claims on record for that holder only; an outage is never "no record" | `IssuedAsAsked`, `ClaimsOfSubject`, `NoRecordIsTrue` |

## The modules

```
VerifierPromise            what the verifier promises about a session
   ^ implemented by                       ^ environment of
PresentationGate                       PollingClient
Verifier  (EXTENDS)                    VerifierPage, VerifierApp  (EXTEND)
VerifierInvariant                      VerifierPage_proofs, VerifierApp_proofs
Verifier_proofs                        PollingClient_proofs

AuthorityPromise           one Authority credential per profile, record and subject
   ^ implemented by
AuthorityTokens                        Decimals
AuthorityIssuance  (EXTENDS)           FarmCredit, Education, AgeClaims  (EXTEND)
AuthorityInvariant                     Decisions  (EXTENDS all three)
Authority_proofs                       Decisions_proofs

ApplicationPromise         one request, one allowlist, one answer but for standing
   ^ implemented by
VerifierBoot                           CredentialTypes
WalletJourney  (EXTENDS)               Issuance  (EXTENDS)
JourneyInvariant                       IssuanceInvariant
Journey_proofs                         Issuance_proofs
```

`MCVerifier`, `MCAuthority`, `MCVerifierPage`, `MCVerifierApp`, `MCDecisions`,
`MCJourney` and `MCIssuance` give the constants small values for TLC.

The composition is by promise. `Verifier` is shown to implement
`VerifierPromise` (`KeepsPromise`, model-checked and proved); the front ends are
composed with `VerifierPromise`, not with `Verifier`, so what holds of a page
holds with every service that keeps the promise. Two more promises say in a page
each what a component is for: `AuthorityPromise` has no calls, tokens or retries,
`ApplicationPromise` no process that boots and no driver that reads; the
components with all of these are shown to implement them. `Decisions` stands behind the
field `outcome` of a presentation in `Verifier`: the rule is a function of the
claims, so that a poll's answer is a constant of the presentation.
`WalletJourney` composes differently: it keeps of the verifier what a journey
sees (trust, sessions, requests, verdicts) and puts its boots and restarts, the
wallet and the Authority beside it. There a read is one step, and the trust that
`Verifier` has as the constant `TrustPolicy` is a variable.

### Verifier, PresentationGate

One action is what a handler of `server.mjs` runs between two awaits. Node runs
it without interruption, everything else may happen before the next.

| Action | Code |
|---|---|
| `RequestCreated`, `FinishCreate`, `CreateFails` | POST sessions: the awaited createRequest, then `sessions.create` with the sweep |
| `BeginReadClosed`, `BeginRead` | GET up to the awaited getStatus: sweep, unknown session, `abandoned` |
| `StatusReplies`, `StandingReplies` | the awaited fetches end: an answer, 404, an error |
| `ResumeWithoutResult`, `ResumeRefused`, `ResumeVerified` | after getStatus: waiting, declined, rejected; the checks up to the first credential whose standing is asked |
| `ResumeStanding` | after a status check: refuse, or on to the next slot, or to the rule |
| `Cancel`, `Health`, `Restart`, `Tick` | POST cancel; GET healthz, which sweeps; a restart loses the sessions and the abandoned set, not the transactions; time |
| `WalletAnswers`, `StandingChanges` | external: the wallet answers once; a credential is suspended, reinstated, revoked |

`seenActive`, `late` and `history` are history variables: no action reads them.
The gate's operators are the checks of `core/*.mjs` on an abstract body: which
named checks passed, which algorithms were observed, which claim names each
credential disclosed, its issuer, and the credential's id at its Authority.

### AuthorityTokens, AuthorityIssuance

Patches 0008 and 0009 of oid4vc-service. `AuthorityTokens` is the provider:
`cache`, the exchange in flight, and the IdP that mints tokens with a lifetime.
`Joins` is what a request finds in `get()`: a usable token, the exchange in
flight, or a new one. `AuthorityIssuance` is `resolve()` with its three calls
(profile, search, issue), each with headers that may await the provider, its
refusal with one retry, its faults and its time limit; a call that was given up
on may still be executed (`straggling`). Time advances for tokens on both
sides: `offeredFor` counts at the provider, `left` at the IdP. A token whose answer
tells no positive `expires_in` (`Untold`) is taken to live the code's sixty seconds
(`AssumedLifetime`), whatever the IdP gave it.

Of all this the refinement (`Promise`) keeps what each request asks for, which
records were ever a subject's single match (`everSole`, a history variable),
what the Authority has registered and what was handed on. A late call that the
Authority executes for a request that has given up is a step `Registers` of the
promise; most other steps are stutters.

### PollingClient, VerifierPage, VerifierApp

`PollingClient` is the network between a front end and the promise: a poll or a
cancel is idle, sent, served or answered; it can be lost either way.
`VerifierPage` is the three web pages, which share start, poll, timers, cancel
and showResult; `again` reloads the page. `VerifierApp` is the mobile app, which
does not reload: requests of an earlier session come back to a later one, and
`start` awaits twice, with the cancel button on the screen in between.

### Decimals, FarmCredit, Education, AgeClaims, Decisions

The four rules as operators in the order of the code's early returns (`Then`),
each check three-valued (`Checked`): malformed throws and is rejected, otherwise
it passes or is a business answer. Numbers are integers in units of 1/`Fine` of
a hundredth; `Slack` units are the tolerance 1e-6, so both extra decimals and
the error of a binary fraction exist. Any value of another type than the schema
promised is `Malformed`. `Decisions` drives them: an applicant presents again
with one claim changed; a citizen is issued an age credential on one day and
presents it on another. The calendar is Gregorian, day by day.

### VerifierBoot, WalletJourney

A process that is down boots: the policy file is read with the container's
environment, every issuer named at the Authority is fetched, all at once, and
when all have come the port is opened; one failure exits.

| Action | Code |
|---|---|
| `Boots` | `resolveTrustPolicy` up to the fetches: `normalise`, `expand`, the entries with a literal DID |
| `FetchAnswered`, `FetchFails` | one entry of the `Promise.all`: an answer; a rejected or timed-out fetch, not published, no DID |
| `Listens` | `buildPolicy` and `server.listen` |
| `Crashes`, `Recreates`, `Publishes`, `AuthorityTurns`, `Rotates` | external: the process, the operator, the Authority, an issuer |
| `PageStarts`, `PageReads`, `SessionEnds`, `TransactionEnds` | a page's session and its two lifetimes |
| `HandBegins`, `ReadsPolicy`, `ReadsSession`, `FetchesRequest`, `Presents`, `CannotPresent`, `ReadsAnswer`, `CallRefused` | the calls of `wallet-agriculture.mjs` and `wallet-education.mjs`, in their order; a call that throws ends the script; one that reads an error answer with `json()` does not |
| `FilmBegins`, `FilmStarts` | `check-film-subject.mjs`, which starts its own session and applies several times with the policy it read first |

`Trusts` is `byDid`: of two entries with one DID the later one is found, with its roles
only. `vouched` is a history variable.

A read of a session decides anew. What was disclosed and who is trusted cannot change
while a process knows the session (`Qualifies`); the standing of the cards can, and
is asked at every read where the request says so (`Checked`). The record may be suspended
or reinstated, or the Authority out of reach, at any of the awaits of a read, which is one
step here: `Answered` lets it uphold any set of cards, `upheld`, which covers every order in
which the code may ask; `Verifier` has the awaits one by one. For a card of an issuer
that was given by its DID there is no Authority to ask (`Askable`), and it is refused. A
read that fails, or that finds no process, tells nothing.

The refinement by `ApplicationPromise` maps a listening process to an open
verifier, what `Trusts` finds to the issuers allowed for a card, and the two
lifetimes to `known`, `awaited` and `answered`; boots, fetches and reads of the drivers
are stutters. The promise has two outcomes of a session only where a card's standing was
asked, and then either may be told, again and again; where none was asked, one verdict is
told for good. A driver is careful if it is run by hand and the use case has an
instance of its own for each issuer.

### CredentialTypes, Issuance

The credential endpoint of oid4vc-service as the patches leave it, one action
per awaited call. `CredentialTypes` says which published type a request means:
the id, the suffixed id, the vct and the last resort are tried in that
order, and `find` returns any of several.

| Action | Code |
|---|---|
| `Begins` | `buildSelfServiceSession` up to the first lookup; an account without a record |
| `Listed`, `ListedInVain`, `LookedElsewhere` | the published types come back: settled, unsupported format, no claim source; or nothing of this issuer's, and a second lookup tells "not mine" from "no such thing" |
| `SearchAnswered`, `SearchFails` | one search of `subjectSources`' `Promise.all`, or an authority's endpoint |
| `Resolves` | `resolveRegistryClaims`: no record, a required claim missing, or the claims with their provenance |
| `Mints`, `Fails`, `Ends` | the proof of possession and the signature; a service that fails; the answer |
| `AskedFor`, `Found`, `Resolved`, `Offered`, `AskFails` | the age issuer's `issueOffer`: citizen, type, offer |
| `Redeems`, `RedeemsLate`, `OfferEnds` | the credential endpoint for an offer's token |
| `RowChanges`, `SchemaChanges` | external: what is on record and published changes between any two calls |

A claim is represented by the record it was taken from, the resolver's
provenance: what matters is whose it is and which source it came from. `since` and
`gone` are history variables.

## Plan and order

1. The verifier service: sessions, polls, cancel, expiry, restart. *Done.*
2. The abstract promise, and that the verifier implements it. *Done.*
3. The Authority: the token provider and the issuing requests. *Done.*
4. The front ends, on the promise. *Done.*
5. The business rules and the age issuer's computation. *Done.*
6. Trust resolution at boot, and an application end to end across restarts. *Done.*
7. Self-service issuance and the age issuer's calls. *Done, but for tokens,
   transaction codes and deferred issuance.*
8. *Left:* the bootstrap scripts, where a crash between minting an issuer and
   recording it leaves two; an abstract promise for self-service issuance; a
   proof that `Decisions` gives `Verifier` its constant `outcome`. The abstract
   promises of the Authority and of an application are *done*, and proved.

## The runs

| Run | Question | Result | Distinct states |
|---|---|---|---|
| `farm` | two polls of an agriculture session with two credentials, a cancel, a restart, expiry, and standing that changes between any two awaits; a read under way only comes nearer to its answer | holds | 1.5 million |
| `polls` | two polls under good, ineligible and refused answers: the refinement of the promise, and every poll is answered | holds, liveness included | 165 thousand |
| `cancel` | no decision after a cancel was answered | violated: finding 1 | |
| `tokens` | two requests share the provider while tokens are refused, dropped, run out; calls time out and arrive late; the process restarts | holds | 400 thousand |
| `records` | the records of a subject change between the calls; tokens age during the exchange; the refinement of `AuthorityPromise`, and every request is answered | holds, liveness included | 600 thousand |
| `drops` | a refusal drops the token that was refused | violated: finding 2 | |
| `page` | a web page with two polls and a cancel out, reloaded at any time | holds, liveness included | 229 thousand |
| `app` | the mobile app through two sessions | holds, liveness included | 101 thousand |
| `nothing_shared` | what the app calls cancelled was not shared | violated: finding 3 | |
| `rules` | the four rules at every threshold, half-rupee and birthday | holds | 92 thousand |
| `journey` | an application by each wallet driver while the verifier boots, fails, crashes and is recreated, issuers change their DIDs and the Authority what it publishes; the refinement of `ApplicationPromise` | holds, liveness included | 288 thousand |
| `issuance` | a request by id, suffixed id, vct or nothing, and an age offer made and redeemed, while types and records come and go | holds | 631 thousand |

Deadlock is checked in every run but `rules`: there the calendar ends, and a
citizen whose date of birth cannot be read has nothing left to do.

### Bounds, and why they are enough

* *Verifier.* `MaxTime` is the clock, `TTL` a session's life in its ticks. Two
  ticks are enough to create a session one tick after its transaction, let one
  expire before the other and answer in between; one session suffices, since
  handlers of different sessions share only the sweep, and the proofs cover any
  number. Two reads overlap with two credentials. `farm` has the presentations
  that fail one check each (an issuer in another's slot, a card without its Authority
  id, a weak algorithm, a rule that throws, a failed verification); `polls` has a good, an
  ineligible and a refused one, one tick, two standings and no symmetry, under which
  liveness would not be sound: for the agreement of two polls it matters what
  may change between them, not in how many ways one can fail.
* *Authority.* There is always a token that nobody holds: one per request, one
  cached, one in the exchange, hence |Request| + 2. `Lifetime` 1 makes a token
  run out while it is held; 3 is the shortest whose margin covers an exchange of
  one tick. In `tokens` the assumed lifetime is longer than the IdP's, so that a request
  is given tokens that are over and the retry has to cope; in `records` it is shorter and
  fits, which `SentFresh` needs: with one of 5 ticks for a token of 3, TLC finds
  a token sent that is over. `records` has two records for one subject, so that a match is
  absent, single or ambiguous, with a credential for each, and two tokens: a lone
  request never holds another token than the cached one. One request is enough for
  the refinement, for it is given up on and made again while its late calls are
  still executed, so that an old and a new request meet at the Authority. Two
  profiles (4.5 million states with tokens of lifetime 1) were checked as well.
* *Pages.* Two polls of one page come back in either order; a third adds no new
  order of two. The app needs two sessions and two calls of `start` for
  a request of the first to come back to the second; with one poll and one
  cancel the liveness check stays small. The proofs cover any number.
* *Rules.* `Fine` = 10 and `Slack` = 1 stand for the code's 1e-6 in a hundredth: a
  value a tolerated fraction off, one just outside it, and extra decimals exist.
  Rates 33 and 50 give half-rupees at small acreages, which the real rates do
  only for large products. `MaxFlaws` = 3 lets three claims be wrong at once, enough
  for any two checks to compete and a third to be behind them. The calendar
  runs from 2018 to 2022 over the 18th and 21st birthdays of people born on 28 and 29 February and 1
  March 2000, through a leap year. The theorems hold for every value of these.
* *Journey.* One literal DID and two issuers resolved at the Authority, two of them
  able to come to the same DID; containers that differ in whether the standing
  is checked and whether the environment is complete. Two upsets make a verifier go
  down twice, as between a policy read and a session read, and after a verdict; one
  change of an issuer or of the Authority is enough to make DIDs collide. The
  film driver applies twice. One session: two (1.6 million states with one
  upset) were checked as well; the proofs cover any number.
* *Issuance.* Two issuers' age types under one name and one vct, a type with two
  formats, one with an endpoint of its own, one with no claim source; two people,
  one with two records in a related entity. What is published and on record
  starts anyhow and changes once between any two lookups; two changes (2.4
  million states) were checked as well. One request and one age offer: they
  share only what is published, on record and on offer.

### Fairness

`ServeRead`, `PollReturns`, `Resumes`: Node and the browser resume a handler
whose awaited call has ended, weakly fair. That an awaited call ends is assumed
of every fetch. The Authority's calls and the token exchange carry
`AbortSignal.timeout`, so the code provides it; `getStatus` (`oid4vc-client.mjs`)
and the pages' fetches carry no timeout, there the assumption is about the
runtime and the network. Timers fire while they are set. A session expires
(`Ends`). Strong fairness is used once, on `Refuses`: of the polls that go on being
sent to a closed session not every single one is lost; with weak fairness
only, a network that loses each poll would keep a page waiting for ever, which is
true of the code and not of interest. Nothing is assumed of the wallet, the
user or the Authority's verdicts. `Boots`: the container has `restart: unless-stopped`;
every fetch of a boot ends (`AbortSignal.timeout`), and `Listens` is the next step of a
process that has all answers. Each is weakly fair, and only while the process is not
crashed by somebody; that the environment is complete and the Authority answers is not
assumed but the hypothesis of `ListensAgain`.

## What is proved

tlapm checks every theorem below for all values of the constants that satisfy the
named assumptions.

| Module | Theorems |
|---|---|
| `Verifier_proofs` | `Invariance`, `TypeCorrect`, `DecisionIsEarned`, `DecisionHadStanding`, `ClosedForEver`, `OneDecision`, `AnswersStayReadable`, `ReadsOnlyGoOn`, `Implements` (the refinement) |
| `Authority_proofs` | `Invariance`, `TypeCorrect`, `OneExchangeOut`, `RetryDiffers`, `IssuedFromSoleMatch`, `OneAnchorEach`, `FreshWhenMarginCovers`, `RequestsOnlyAdvance`, `Implements` (the refinement) |
| `VerifierPage_proofs` | `Invariance`, `TypeCorrect`, `ShowsItsOwn`, `NeverSilent` |
| `VerifierApp_proofs` | `Invariance`, `TypeCorrect`, `ShowsDecisions`, `NeverSilent` |
| `Journey_proofs` | `Invariance`, `NoPartialTrust`, `DriverDisclosesAsAsked`, `Independence`, `OnlyStandingTurns`, `BootOnlyGoesOn`, `Implements` (the refinement) |
| `Issuance_proofs` | `Invariance`, `TypeCorrect`, `AskedAndIssued`, `OwnClaims`, `AbsenceIsReal`, `OffersAreMeant` |
| `Decisions_proofs` | `Invariance`, `TypeCorrect`, `Eligibility`, `Correlation`, `FairLoans`, `MoreLand`, `Disclosure`, `BetterMarks`, `ExactAges`, `NobodyUnderAge` |

*Verifier.* `IInv` has ten parts. The safety of a decision needs more than
that the checks passed: `BodyCurrent` says the reply a handler holds is still
what upstream stores, which is true only because a transaction is answered
once; `LoopProgress` says that at slot *k* the checks of slots 1 to *k* passed on that
very body, and that earlier status checks found their credentials ACTIVE during this read;
`LateFindsNothing` and `ClosedForGood` give the reason a session stays closed in a
form no step undoes: it is expired, abandoned, or its transaction is gone; a
restart forgets the abandoned set, but with it the session, which no read finds
again.
`ResultOutlives` relates the three clocks. The refinement maps
a session's promise to what its stored body justifies and to the reads that
are not late; each action is a step of the promise or a stutter. `ReadsOnlyGoOn` is the
variant behind the termination of a read: with each reply `StepsLeft` goes down, and
it is bounded by the number of requested credentials.

*Authority.* `AwaitsInFlight`, `ExchangeKnown` and `ComingIsNew` together make the
retry's token new: whatever a request awaits is the one exchange in flight, and
what that will return is in no call yet. `AnchorsPaired` and `LinkageHeld` carry
the idempotency key through late and repeated calls. The refinement needs one
part more, `AskedForSole`: not only what was handed on but whatever the
Authority holds, or may still be made to register by a call nobody waits for, is
for a record that was its subject's single match. Then an executed call either
finds its key registered, a stutter, or registers a new pair, and a request is
handed the credential of its own subject and profile, since both have been in
its key from the start. `RequestsOnlyAdvance` has the variant `StepsLeft` of a request:
three calls and at most one retry of each. Freshness is a
theorem under a condition, `MarginCovers`, in two parts. The margin min(10, ⌊lifetime/3⌋)
must cover the longest exchange, because the provider counts a lifetime from the
answer and the IdP from the minting. And where the IdP may leave out `expires_in`, the
assumed sixty seconds less their margin, and the exchange, must fit the lifetime it really
gives: with the code's values (60, 10, 8 seconds) one of 58 seconds at least. A token that
lives less than three exchange times, or less than 58 seconds untold, may be sent
after it is over; the theorem says so in its hypothesis.

*Front ends.* `TrueOf` says when a reply is true of a session: a decision is the one
the service reported and justified for it, "cancelled" or "expired" means that the session is
closed. What is true of a session stays true in every step of the service
(`StaysTrue`), so that a reply may be lost, late or out of order and still be
believed; `VerdictJustified` (whatever was reported was justified) makes a shown
decision a justified one. One lemma (`PollingClient_proofs`) says this, and that
no step of the service or the network changes the session a request is about.
The steps of the page and of the app are then taken one by one.

*Rules.* Rounding first (`Quotient`, `TwoMultiples`, `RoundedExact`, `RoundedClose`,
`RoundedMonotone`): the rounding of a number with two decimals is within the
tolerance of it and keeps order. From these, each check decides exactly what the
requirement says, and the loan's error is that of two roundings. The
invariant is that an answer is the rule's on the claims on the table, and that
an assertion in a wallet stays true: days only pass forward.

*Journey.* The promises are not inductive. That a hand-run wallet discloses what was
asked rests on the two reads it makes: `KnownHere` says a session in memory
was started by this very process, whose published policy is the query it
sent; a process that goes down forgets all of them; so a QR that is still
there proves that the policy read before it is the session's request
(`PlanIsAsked`). The driver's fall-back without a QR goes to the age signer's
instance, hence the hypothesis that the use case has another (`OneSigner` is
FALSE). `MightTellAgain` gives `VerdictTurnsOnStanding`: a process that would decide
otherwise by disclosure or trust does not know the session, so that of two different
verdicts one is an acceptance and the other differs in what was upheld. `Resolving` carries `TrustVouched` through the fetches. The
theorems hold for every policy file and environment; `IndependentIssuers` needs
`OneRoleEach`, that no entry stands for two roles.

The refinement of `ApplicationPromise` puts these together: what is allowed and
what is requested stay the same from `Listens` to a crash, because nothing they
are computed from changes in a process that listens; a verifier opens with disjoint
issuers for different cards (`OneRoleEach`); a careful wallet shows a card whole or not at
all (`PlanIsAsked`); and the verdict told is one of the outcomes the promise computes from
the allowlist (`ToldIsOutcome`), which needs `TrustVouched`: the lookup finds only
entries with a DID. `BootOnlyGoesOn` is the safety half of `ListensAgain`: without an
upset a listening process goes on listening, and a boot with a healthy Authority neither fails
nor asks for an entry twice.

*Issuance.* `MeantIsAsked` takes the four ways of naming a type one by one.
`Remembers` says the histories cover the present for as long as the searches are
out, and `HasSearched` that every record read was on record since, is the
holder's and of an entity that was asked, and that a search without a result
was without one for a reason; the promises about claims and about "no record"
follow at `Resolves`. `AtCounter` carries the age issuer's citizen and type from one
call to the next: an id is unique, so the offer service's own lookup finds the
same type, or none.

The type invariant of each module is a conjunct of its `IInv`. No run lists an
`IInv`: each was checked with TLC in the configurations above before it was
proved, as was `BootsGoOn`, and the runs list what follows from them.

### Assumptions

* `VerifierAssumption`: requests, presentations and the markers have their types;
  "ACTIVE" is a standing.
* `TokensAssumption`, `IssuanceAssumption`: lifetimes, margin and time limit are
  numbers, markers are no members. An `expires_in` that is told is the IdP's lifetime of
  the token.
* `PollingAssumption`: markers are no sessions and no states.
* `DecimalsAssumption`: the tolerance is less than half a hundredth.
  `CropPolicyAssumption`: the policy is one `loadCropPolicy` accepts, since the
  verifier does not start with another. `ValuesAssumption`, `CalendarAssumption`: claims
  that are numbers are numbers, a date of birth is unreadable or has three numbers.
* `BootAssumption`, `OneRoleEach`, `JourneyAssumption`: the policy file and the
  containers have their types; no entry has two roles (config/trust has none); the
  claim that asks for the standing is none of the domain's own.
* `TypesAssumption`, `IssuanceAssumption` (of `Issuance`): a schema id is unique;
  a subject's record is never sorted for, precedence orders the entities; a claim
  source that is named is a source that is declared.
* The Authority honours its idempotency key; oid4vc-service accepts one answer
  per transaction and keeps an answered one for the TTL again.

### Model-checked only

`ReadAnswered`, `ResolveEnds`, `ResultShown`, `SpinnerEnds` and `ListensAgain` are liveness
properties under fairness, which the prover does not reach; the three
violations are traces of TLC. Of `ResolveEnds`, `ReadAnswered` and `ListensAgain` the
half that needs no fairness is proved: `Advances`, `ReadsAdvance` and `BootsGoOn`
say that each step there is goes the right way, so that only its coming is left to TLC.

## Findings

1. *A decision after a cancel.* `readSession` looks at `abandoned` once, before it
   awaits, and not after. A poll that began earlier reports a decision after
   POST cancel was answered. The comment on `abandoned` (server.mjs:475) says it
   will not; the end-to-end test cancels only while no poll is in flight.
2. *The wrong token is dropped.* `invalidate()` drops whatever is cached. When two
   calls went out with one token, the second refusal drops the replacement the
   first has just acquired. It costs an exchange; nothing unsafe follows, and `OneExchange`,
   `RetryWithAnother` hold nevertheless.
3. *"Nothing was disclosed."* The app says so after a cancel whatever the session's
   state; the wallet may have answered between the last poll and the button.
   Only the decision is withheld.

Observed without a run of their own: the session's expiry is computed after
`createRequest` returns, so the session outlives its transaction by that time,
against the comment at server.mjs:75. A lifetime below 24 s has a
margin shorter than the eight seconds the exchange may take; and where an answer has no
usable `expires_in`, a token that lives less than 58 s may be sent after it is over. A failure of the
token endpoint leaves `resolve` as an unnamed error and not as the source failure
the interface names. The app swallows a failed cancel and shows the cancelled
screen all the same. An early business answer hides a malformed claim that is
checked later, and a crop that is no string is a business answer, although
domains/agriculture/index.mjs:12 keeps the two kinds of refusal apart.

On trust and issuance: the comment in `normalise` (trust.mjs:112) calls an entry
without roles one with "no role constraint", while the check refuses such an
issuer wherever a role is asked for. The wallet drivers say that reading a decided session is
"idempotent" (wallet-agriculture.mjs:216); where the standing is checked a later
read may tell another verdict, as the code means it to. The field `credentials` of the policy is read and
never checked. `resolveClaimsFor` says an outage and a missing record "must not collapse
into one"; a failed search of the subject at the registry is a plain error without a message of
its own, and one of a related entity counts as no record, so that an outage there
is told as a missing claim. `createOffer` finds its type among all published
schemas, not this issuer's own. The second lookup behind "not issued by this
issuer" may find this issuer's own type, if it was published in between, and
then sends the holder from it to itself. The hand-run agriculture wallet issues
credentials without the status claim, so where the standing is checked it stops
at `presentSdJwt`. The age issuer passes the status of a failed call on when
it is below 500.

## Not modelled

* The JSON of a DCQL query, an issuer's display name, and what a page or a script prints.
* In issuance: validating tokens and choosing their subject claim, transaction codes,
  authorization_code offers, the staff gate, deferred issuance, the encodings of
  a credential, the search limit of 100, a registry that is not configured, claim
  sources that are named and not declared, and the derivation of `age_over_NN`
  from a date, which is a claim of its record like any other. Patches 0002 and 0004
  report algorithms and display data and keep no state.
* The shell scripts, which orchestrate Docker and HTTP services, and the
  mismatched pairs the wallet drivers can be told to present.
* A static Authority token, which never retries; session creation's request
  body; the formatting of money, percentages and reasons; what a page draws
  besides the state of its session; an app that is unmounted.
* Registry, identity and credential services, Keycloak, the Authority Service and
  the vendored wallet run from elsewhere, and appear as the actions the code
  under `src/` observes of them.
