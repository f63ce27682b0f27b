-------------------------- MODULE AuthorityIssuance --------------------------
(***************************************************************************)
(* Issuing through the Authority Service: AuthorityClaimSource.resolve,    *)
(* src/claims/authority.claim-source.ts (patches 0008 and 0009).  A        *)
(* credential request makes three calls in a row (read the profile, search *)
(* the subject's record, issue), each with a token from the provider the   *)
(* requests share and each retried once when the token is refused.  A      *)
(* wallet may ask again at any time, and a call that was given up on here  *)
(* may still be executed there.                                            *)
(*                                                                         *)
(* External: the IdP (AuthorityTokens), and the Authority Service with its *)
(* records and the idempotency keys it remembers.                          *)
(***************************************************************************)
EXTENDS AuthorityTokens, FiniteSets

CONSTANTS
    Request,            \* credential requests that can be served at once
    Subject, Profile,
    Osid, NoOsid,       \* identifiers of registry records
    Anchor, NoAnchor,   \* identifiers of credentials the Authority issued
    NoAsk

Ask == [subject : Subject, profile : Profile]

ASSUME IssuanceAssumption ==
    NoOsid \notin Osid /\ NoAnchor \notin Anchor /\ NoAsk \notin Ask

VARIABLES
    req,        \* each credential request being served, see Serving
    records,    \* Authority: the records matching each subject
    anchors,    \* Authority: <<idempotency key, credential>> pairs
    straggling, \* issue calls given up on here that may still reach it
    everSole,   \* history: <<subject, osid>> where osid was the only match
    delivered   \* history: the linkages handed to credentials

authority == <<records, anchors, straggling>>
history   == <<everSole, delivered>>
vars == <<provider, exchanges, req, authority, history>>

Reply ==
    [kind : {"none", "refused", "fault", "bound", "unbound", "rows", "issued"},
     rows : SUBSET (Osid \cup {NoOsid}), anchor : Anchor \cup {NoAnchor}]

Serving ==
    [pc : {"idle", "awaiting", "sent", "answered"},  \* awaiting a token, or a call's answer
     asked : Ask \cup {NoAsk},
     stage : {"profile", "search", "issue"},         \* which of the three calls
     retried : BOOLEAN,                              \* call()'s argument: sent again already
     held : Token \cup {NoToken},                    \* the token in the call's headers
     waitsFor : Token \cup {NoToken},                \* the exchange it awaits
     osid : Osid \cup {NoOsid},                      \* the record the search found
     reply : Reply,                                  \* the Authority's answer, on its way
     outcome : {"none", "issued", "notFound", "incomplete", "unavailable", "error"}]

NoReply == [kind |-> "none", rows |-> {}, anchor |-> NoAnchor]

\* resolve() has returned or thrown, or was never called.
Ended(outcome) ==
    [pc |-> "idle", asked |-> NoAsk, stage |-> "profile", retried |-> FALSE, held |-> NoToken,
     waitsFor |-> NoToken, osid |-> NoOsid, reply |-> NoReply, outcome |-> outcome]

Init ==
    /\ TokensInit
    /\ req = [r \in Request |-> Ended("none")]
    /\ records = [s \in Subject |-> {}]
    /\ anchors = {} /\ straggling = {}
    /\ everSole = {} /\ delivered = {}

-----------------------------------------------------------------------------
InUse == {req[r].held : r \in Request} \cup {req[r].waitsFor : r \in Request}

(***************************************************************************)
(* headers() and the fetch that follows it, for a request in state q: with *)
(* a token in c, the cache, the call goes out at once; without one the     *)
(* request awaits an exchange.                                             *)
(***************************************************************************)
Sends(r, q, c) ==
    \/ /\ Offers(c)
       /\ req' = [req EXCEPT ![r] = [q EXCEPT !.pc = "sent", !.held = c.token]]
       /\ UNCHANGED <<inFlight, exchanges>>
    \/ /\ ~Offers(c)
       /\ \E t \in Token :
            /\ Joins(t, InUse)
            /\ req' = [req EXCEPT ![r] = [q EXCEPT !.pc = "awaiting", !.waitsFor = t]]

\* The next of the three calls.
Calls(r, stage, osid) ==
    /\ Sends(r, [req[r] EXCEPT !.stage = stage, !.osid = osid, !.retried = FALSE,
                               !.reply = NoReply], cache)
    /\ UNCHANGED cache

Finishes(r, outcome) ==
    /\ req' = [req EXCEPT ![r] = Ended(outcome)]
    /\ UNCHANGED <<provider, exchanges>>

Begins(r, ask) ==
    /\ req[r].pc = "idle"
    /\ Sends(r, [Ended("none") EXCEPT !.asked = ask], cache)
    /\ UNCHANGED <<cache, authority, history>>

\* profileFor() finds no profile for the credential type.
BeginsUnmapped(r) ==
    /\ req[r].pc = "idle"
    /\ Finishes(r, "unavailable")
    /\ UNCHANGED <<authority, history>>

\* The awaited exchange ends: every request that awaits it goes on in the same turn.
TokenAcquired(t) ==
    /\ Acquires(t)
    /\ req' = [r \in Request |-> IF req[r].waitsFor = t
                THEN [req[r] EXCEPT !.pc = "sent", !.held = t, !.waitsFor = NoToken]
                ELSE req[r]]
    /\ UNCHANGED <<authority, history>>

\* ... or fails, and the plain error reaches all of them.
TokenFails(t) ==
    /\ Fails(t)
    /\ req' = [r \in Request |-> IF req[r].waitsFor = t THEN Ended("error") ELSE req[r]]
    /\ UNCHANGED <<authority, history>>

-----------------------------------------------------------------------------
(***************************************************************************)
(* The idempotency key names what is issued, never when or by whom.        *)
(***************************************************************************)
KeyOfThisRequest(q, r) == <<q.asked.profile, q.osid, r>>

IdempotencyKey(q, r) == <<q.asked.profile, q.osid, q.asked.subject>>

\* What the Authority holds, read back from a key and its credential.
Registered(x) ==
    [subject |-> x[1][3], osid |-> x[1][2], profile |-> x[1][1], anchor |-> x[2]]

IssueCall(r) ==
    [key |-> IdempotencyKey(req[r], r), subject |-> req[r].asked.subject, osid |-> req[r].osid]

\* External: the Authority issues once per key, for a record that is there.
Issues(call, a) ==
    /\ call.osid \in records[call.subject]
    /\ \/ <<call.key, a>> \in anchors
       \/ \A x \in anchors : x[1] # call.key /\ x[2] # a
    /\ anchors' = anchors \cup {<<call.key, a>>}

Answers(r, kind, rows, a) ==
    req' = [req EXCEPT ![r].pc = "answered",
                       ![r].reply = [kind |-> kind, rows |-> rows, anchor |-> a]]

FirstOnly == 1

\* findRecord() asks for two records, to tell one match from several.
SearchLimit == 2

Found(s, rows) ==
    /\ rows \subseteq records[s]
    /\ Cardinality(rows) <= SearchLimit
    /\ rows # records[s] => Cardinality(rows) = SearchLimit

\* External: the Authority handles the call it was sent.  It may refuse any token
\* (withdrawn, not entitled) and accepts none that is over.
AuthorityReplies(r) ==
    /\ req[r].pc = "sent"
    /\ \/ /\ \E kind \in {"refused", "fault"} : Answers(r, kind, {}, NoAnchor)
          /\ UNCHANGED anchors
       \/ /\ Accepted(req[r].held) /\ req[r].stage = "profile"
          /\ \E kind \in {"bound", "unbound"} : Answers(r, kind, {}, NoAnchor)
          /\ UNCHANGED anchors
       \/ /\ Accepted(req[r].held) /\ req[r].stage = "search"
          /\ \E rows \in (SUBSET Osid) \cup {{NoOsid}} :
                /\ rows = {NoOsid} \/ Found(req[r].asked.subject, rows)
                /\ Answers(r, "rows", rows, NoAnchor)
          /\ UNCHANGED anchors
       \/ /\ Accepted(req[r].held) /\ req[r].stage = "issue"
          /\ \/ \E a \in Anchor : Issues(IssueCall(r), a) /\ Answers(r, "issued", {}, a)
             \/ Answers(r, "issued", {}, NoAnchor) /\ UNCHANGED anchors
    /\ UNCHANGED <<provider, exchanges, records, straggling, history>>

Abandons(Q) ==
    straggling' = straggling \cup
        {IssueCall(r) : r \in {q \in Q : req[q].pc = "sent" /\ req[q].stage = "issue"}}

\* fetch fails or times out; the Authority may have acted, or may yet.
CallFails(r) ==
    /\ req[r].pc \in {"sent", "answered"}
    /\ Finishes(r, "unavailable")
    /\ Abandons({r})
    /\ UNCHANGED <<records, anchors, history>>

\* External: an issue call nobody waits for any more arrives, or never does.
StragglerArrives(call) ==
    /\ call \in straggling
    /\ straggling' = straggling \ {call}
    /\ UNCHANGED anchors \/ \E a \in Anchor : Issues(call, a)
    /\ UNCHANGED <<provider, exchanges, req, records, history>>

-----------------------------------------------------------------------------
Receives(r, kind) == req[r].pc = "answered" /\ req[r].reply.kind = kind

EverAgain(q) == TRUE

\* call() sends a refused call again once.
MayRetry(q) == ~q.retried

ReceivesRefusal(r) ==
    /\ Receives(r, "refused")
    /\ \/ /\ MayRetry(req[r])
          /\ cache' = Invalidated(cache)
          /\ Sends(r, [req[r] EXCEPT !.retried = TRUE, !.reply = NoReply], Invalidated(cache))
       \/ ~MayRetry(req[r]) /\ Finishes(r, "unavailable")
    /\ UNCHANGED <<authority, history>>

\* 404, another status, or something unreadable.
ReceivesFault(r) ==
    /\ Receives(r, "fault")
    /\ Finishes(r, "unavailable")
    /\ UNCHANGED <<authority, history>>

ReceivesProfile(r) ==
    /\ \/ Receives(r, "bound") /\ Calls(r, "search", NoOsid)
       \/ Receives(r, "unbound") /\ Finishes(r, "unavailable")
    /\ UNCHANGED <<authority, history>>

ReceivesRows(r) ==
    /\ Receives(r, "rows")
    /\ \/ \E o \in Osid : req[r].reply.rows = {o} /\ Calls(r, "issue", o)
       \/ req[r].reply.rows \in {{}, {NoOsid}} /\ Finishes(r, "notFound")
       \/ Cardinality(req[r].reply.rows) > 1 /\ Finishes(r, "unavailable")
    /\ UNCHANGED <<authority, history>>

\* The linkage is handed on, unless resolveRegistryClaims() misses a required claim.
ReceivesAnchor(r) ==
    LET q == req[r]
    IN  /\ Receives(r, "issued")
        /\ \/ /\ q.reply.anchor # NoAnchor
              /\ Finishes(r, "issued")
              /\ delivered' = delivered \cup {[subject |-> q.asked.subject, osid |-> q.osid,
                        profile |-> q.asked.profile, anchor |-> q.reply.anchor]}
           \/ /\ Finishes(r, IF q.reply.anchor = NoAnchor THEN "unavailable" ELSE "incomplete")
              /\ UNCHANGED delivered
        /\ UNCHANGED <<authority, everSole>>

-----------------------------------------------------------------------------
\* External: records are added, merged and removed at the Authority.
RecordsChange(s, rows) ==
    /\ rows # records[s]
    /\ records' = [records EXCEPT ![s] = rows]
    /\ everSole' = everSole \cup {<<s, o>> : o \in {o \in Osid : rows = {o}}}
    /\ UNCHANGED <<provider, exchanges, req, anchors, straggling, delivered>>

IdP(t) == Mints(t) /\ UNCHANGED <<req, authority, history>>

Tick == TokensTick /\ UNCHANGED <<req, authority, history>>

\* oid4vc-service stops and starts again; its calls may still be executed.
Restart ==
    /\ TokensLost
    /\ req' = [r \in Request |-> Ended("none")]
    /\ Abandons(Request)
    /\ UNCHANGED <<records, anchors, history>>

Resumes(r) ==
    \/ ReceivesRefusal(r) \/ ReceivesFault(r)
    \/ ReceivesProfile(r) \/ ReceivesRows(r) \/ ReceivesAnchor(r)

Next ==
    \/ \E r \in Request, ask \in Ask : Begins(r, ask)
    \/ \E r \in Request : BeginsUnmapped(r) \/ AuthorityReplies(r) \/ CallFails(r) \/ Resumes(r)
    \/ \E t \in Token : TokenAcquired(t) \/ TokenFails(t) \/ IdP(t)
    \/ \E call \in straggling : StragglerArrives(call)
    \/ \E s \in Subject, rows \in SUBSET Osid : RecordsChange(s, rows)
    \/ Tick
    \/ Restart

Spec == Init /\ [][Next]_vars

-----------------------------------------------------------------------------
(***************************************************************************)
(* Properties.                                                             *)
(***************************************************************************)

\* Every variable of the provider, of resolve() and of the services around keeps its type.
TypeOK ==
    /\ cache \in [token : Token \cup {NoToken}, offeredFor : Nat]
    /\ inFlight \in Token \cup {NoToken}
    /\ exchange \in [Token -> {"none", "requested", "minted"}]
    /\ age \in [Token -> 0 .. ExchangeTimeout]
    /\ expiresIn \in [Token -> Lifetime \cup {0}]
    /\ left \in [Token -> Nat]
    /\ req \in [Request -> Serving]
    /\ records \in [Subject -> SUBSET Osid]
    /\ \A x \in anchors : x[2] \in Anchor
    /\ \A call \in straggling : call.subject \in Subject /\ call.osid \in Osid
    /\ everSole \subseteq Subject \X Osid
    /\ delivered \subseteq [subject : Subject, osid : Osid, profile : Profile, anchor : Anchor]

\* However many requests find no usable token, and whoever invalidates it meanwhile, at
\* most one exchange is out at the IdP (the promise AuthorityTokenProvider shares).
OneExchange == \A t, u \in Outstanding : t = u

GoesOut(r) == req[r].pc # "sent" /\ req'[r].pc = "sent"

FreshTokensSent == \A r \in Request : GoesOut(r) => left'[req'[r].held] > 0

\* No call goes out with a token whose lifetime at the IdP is over, although the provider
\* counts it from the arrival of the answer, and by a lifetime of its own where the answer
\* tells none: the margin covers the exchange, and the assumed lifetime fits the IdP's.
SentFresh == [][FreshTokensSent]_vars

RetriesChangeToken ==
    \A r \in Request : GoesOut(r) /\ req'[r].retried => req'[r].held # req[r].held

\* The one retry of a refused call carries another token than the one that was refused,
\* also when others acquire, drop or await a token in between (call).
RetryWithAnother == [][RetriesChangeToken]_vars

\* What a request has left to do at most: for each of its calls a token to await, an answer
\* to await and an answer to read, and the same again for a call that is refused.
StepsLeft(q) ==
    IF q.pc = "idle" THEN 0
    ELSE 6 * [profile |-> 2, search |-> 1, issue |-> 0][q.stage]
         + (IF q.retried THEN 0 ELSE 3)
         + [awaiting |-> 3, sent |-> 2, answered |-> 1][q.pc]

RequestsAdvance ==
    \A r \in Request : req[r].pc # "idle" /\ req'[r] # req[r] =>
        StepsLeft(req'[r]) < StepsLeft(req[r])

\* Whatever the tokens, the IdP and the Authority do, every step of a request brings it
\* nearer its end: at most six calls, no retry of a retry, and no way back (resolve, call).
Advances == [][RequestsAdvance]_vars

\* One credential of the Authority per profile, record and subject, and one of those per
\* credential, however often a wallet asks again and however late a call arrives (issue).
OneAnchor ==
    \A d, e \in delivered :
        (d.anchor = e.anchor) <=>
            (d.profile = e.profile /\ d.osid = e.osid /\ d.subject = e.subject)

\* A credential is only ever issued from a record that was the single match for the subject
\* who asked (findRecord refuses to choose), and the Authority is never made to register one
\* for another, not even by a call that arrives after its request has ended.
SoleMatchIssued ==
    /\ \A d \in delivered : <<d.subject, d.osid>> \in everSole
    /\ \A x \in anchors : <<Registered(x).subject, Registered(x).osid>> \in everSole

(***************************************************************************)
(* The promise this service keeps, and how its state realises it.          *)
(***************************************************************************)
Asking == [r \in Request |-> req[r].asked]
AllRegistered == {Registered(x) : x \in anchors}

Promise == INSTANCE AuthorityPromise WITH
    asking     <- Asking,
    sole       <- everSole,
    registered <- AllRegistered,
    linked     <- delivered

\* The provider, the three calls with their retries, lost answers, late arrivals and restarts
\* implement AuthorityPromise: one credential per profile, record and subject, of a single
\* match, handed at most once to a request that asked for just that (resolve).
KeepsPromise == Promise!Spec

(***************************************************************************)
(* Liveness.  Both fetches are bounded by AbortSignal.timeout, and Node    *)
(* resumes a request whose awaited answer has come.                        *)
(***************************************************************************)
FairSpec ==
    /\ Spec
    /\ WF_vars(\E t \in Token : TokenAcquired(t) \/ TokenFails(t))
    /\ \A r \in Request : WF_vars(AuthorityReplies(r) \/ CallFails(r)) /\ WF_vars(Resumes(r))

\* Every credential request is answered, even when each token is refused: call() retries
\* once, and no request waits for an exchange that is over.
ResolveEnds == \A r \in Request : req[r].pc # "idle" ~> req[r].pc = "idle"

(***************************************************************************)
(* What a comment says, and the code does not do.                          *)
(***************************************************************************)
\* "The token was refused.  [...] Drop it and try once with a fresh one" (call): what a
\* refusal drops is the token that was refused.
DropsRefused ==
    [][\A r \in Request :
        Receives(r, "refused") /\ req'[r].retried /\ ~req[r].retried =>
            cache.token \in {NoToken, req[r].held}]_vars

=============================================================================
