--------------------------- MODULE Authority_proofs ---------------------------
(***************************************************************************)
(* Proofs about AuthorityIssuance, for every number of requests, tokens,   *)
(* subjects, profiles, records and credentials.                            *)
(*                                                                         *)
(* The plan: NextCases reduces a step to a few shapes (a request goes on   *)
(* to a call, a request ends, an answer comes, an exchange ends, the world *)
(* changes), one lemma per shape keeps IInv, and each theorem reads what   *)
(* it needs from IInv.  Only SentFresh depends on time, and on the margin. *)
(***************************************************************************)
EXTENDS AuthorityInvariant, FiniteSetTheorems, TLAPS

\* The request side of a step: request r goes on as q, every other stays.
Becomes(r, q) == q \in Serving /\ req' = [req EXCEPT ![r] = q]

\* What Sends comes to.
SendsAs(r, q, c, s) ==
    /\ Becomes(r, s)
    /\ s.asked = q.asked /\ s.stage = q.stage /\ s.retried = q.retried
    /\ s.osid = q.osid /\ s.reply = q.reply /\ s.outcome = q.outcome
    /\ \/ /\ Offers(c)
          /\ s.pc = "sent" /\ s.held = c.token /\ s.waitsFor = q.waitsFor
          /\ UNCHANGED <<inFlight, exchanges>>
       \/ /\ ~Offers(c)
          /\ s.pc = "awaiting" /\ s.held = q.held
          /\ s.waitsFor \in Token /\ Joins(s.waitsFor, InUse)

\* A request sends its call, or awaits an exchange; nothing else about it changes.
LEMMA SendsCases ==
    ASSUME NEW r \in Request, NEW q \in Serving, NEW c, c.token \in Token \cup {NoToken},
           Sends(r, q, c)
    PROVE  \E s \in Serving : SendsAs(r, q, c, s)
<1>1. CASE Offers(c) /\ req' = [req EXCEPT ![r] = [q EXCEPT !.pc = "sent", !.held = c.token]]
           /\ UNCHANGED <<inFlight, exchanges>>
  <2> DEFINE s == [q EXCEPT !.pc = "sent", !.held = c.token]
  <2>1. /\ s \in Serving /\ s.pc = "sent" /\ s.held = c.token /\ s.waitsFor = q.waitsFor
        /\ s.asked = q.asked /\ s.stage = q.stage /\ s.retried = q.retried
        /\ s.osid = q.osid /\ s.reply = q.reply /\ s.outcome = q.outcome
    BY DEF Serving
  <2> HIDE DEF s
  <2>2. SendsAs(r, q, c, s)
    BY <1>1, <2>1 DEF SendsAs, Becomes, s
  <2> QED BY <2>1, <2>2
<1>2. CASE ~Offers(c) /\ \E t \in Token :
            /\ Joins(t, InUse)
            /\ req' = [req EXCEPT ![r] = [q EXCEPT !.pc = "awaiting", !.waitsFor = t]]
  <2>0. PICK t \in Token : /\ Joins(t, InUse)
            /\ req' = [req EXCEPT ![r] = [q EXCEPT !.pc = "awaiting", !.waitsFor = t]]
    BY <1>2
  <2> DEFINE s == [q EXCEPT !.pc = "awaiting", !.waitsFor = t]
  <2>1. /\ s \in Serving /\ s.pc = "awaiting" /\ s.held = q.held /\ s.waitsFor = t
        /\ s.asked = q.asked /\ s.stage = q.stage /\ s.retried = q.retried
        /\ s.osid = q.osid /\ s.reply = q.reply /\ s.outcome = q.outcome
    BY DEF Serving
  <2> HIDE DEF s
  <2>3. req' = [req EXCEPT ![r] = s]
    BY <2>0 DEF s
  <2>2. SendsAs(r, q, c, s)
    BY <1>2, <2>0, <2>1, <2>3 DEF SendsAs, Becomes
  <2> QED BY <2>1, <2>2
<1> QED BY <1>1, <1>2 DEF Sends

-----------------------------------------------------------------------------
\* A request that is over keeps nothing of what it was.
LEMMA EndedFields ==
    ASSUME NEW o \in {"none", "issued", "notFound", "incomplete", "unavailable", "error"}
    PROVE  /\ Ended(o) \in Serving
           /\ Ended(o).pc = "idle" /\ Ended(o).asked = NoAsk /\ Ended(o).stage = "profile"
           /\ Ended(o).retried = FALSE /\ Ended(o).held = NoToken
           /\ Ended(o).waitsFor = NoToken /\ Ended(o).osid = NoOsid
           /\ Ended(o).reply = NoReply
BY DEF Ended, Serving, Reply, NoReply

\* The fields a served request has.
LEMMA ServingFields ==
    ASSUME NEW q \in Serving
    PROVE  /\ q.pc \in {"idle", "awaiting", "sent", "answered"}
           /\ q.asked \in Ask \cup {NoAsk}
           /\ q.stage \in {"profile", "search", "issue"}
           /\ q.retried \in BOOLEAN
           /\ q.held \in Token \cup {NoToken}
           /\ q.waitsFor \in Token \cup {NoToken}
           /\ q.osid \in Osid \cup {NoOsid}
           /\ q.reply \in Reply
BY DEF Serving

\* The state in which a request makes its first call.
LEMMA FirstCall ==
    ASSUME NEW ask \in Ask
    PROVE  LET q == [Ended("none") EXCEPT !.asked = ask]
           IN  /\ q \in Serving /\ q.asked = ask /\ q.stage = "profile" /\ q.retried = FALSE
               /\ q.held = NoToken /\ q.waitsFor = NoToken /\ q.reply = NoReply
BY DEF Ended, Serving, Reply, NoReply

\* The state in which a request makes a further call.
Further(p, stage, o) ==
    [p EXCEPT !.stage = stage, !.osid = o, !.retried = FALSE, !.reply = NoReply]

\* Of a further call only the stage and the record differ.
LEMMA FurtherCall ==
    ASSUME NEW p \in Serving, NEW stage \in {"search", "issue"}, NEW o \in Osid \cup {NoOsid}
    PROVE  LET q == Further(p, stage, o)
           IN  /\ q \in Serving /\ q.asked = p.asked /\ q.stage = stage /\ q.osid = o
               /\ q.retried = FALSE /\ q.held = p.held /\ q.waitsFor = p.waitsFor
               /\ q.reply = NoReply
BY DEF Further, Serving, Reply, NoReply

\* The state in which it makes the same call again.
LEMMA SameCall ==
    ASSUME NEW p \in Serving
    PROVE  LET q == [p EXCEPT !.retried = TRUE, !.reply = NoReply]
           IN  /\ q \in Serving /\ q.asked = p.asked /\ q.stage = p.stage /\ q.osid = p.osid
               /\ q.retried = TRUE /\ q.held = p.held /\ q.waitsFor = p.waitsFor
               /\ q.reply = NoReply
BY DEF Serving, Reply, NoReply

\* The state of a request whose token has come.
Supplied(p, t) == [p EXCEPT !.pc = "sent", !.held = t, !.waitsFor = NoToken]

\* A token that has come changes nothing else about the request.
LEMMA WithToken ==
    ASSUME NEW p \in Serving, NEW t \in Token
    PROVE  LET q == Supplied(p, t)
           IN  /\ q \in Serving /\ q.pc = "sent" /\ q.asked = p.asked /\ q.stage = p.stage
               /\ q.osid = p.osid /\ q.retried = p.retried /\ q.held = t
               /\ q.waitsFor = NoToken /\ q.reply = p.reply
BY DEF Serving, Supplied

\* An answer on its way changes nothing else.
LEMMA AnswersAs ==
    ASSUME NEW r \in Request, req \in [Request -> Serving],
           NEW kind \in {"refused", "fault", "bound", "unbound", "rows", "issued"},
           NEW rows \in SUBSET (Osid \cup {NoOsid}), NEW a \in Anchor \cup {NoAnchor},
           Answers(r, kind, rows, a)
    PROVE  \E s \in Serving :
            /\ Becomes(r, s)
            /\ s.pc = "answered"
            /\ s.reply = [kind |-> kind, rows |-> rows, anchor |-> a]
            /\ s.asked = req[r].asked /\ s.stage = req[r].stage /\ s.osid = req[r].osid
            /\ s.retried = req[r].retried /\ s.held = req[r].held
            /\ s.waitsFor = req[r].waitsFor
<1> DEFINE p == req[r]
           s == [p EXCEPT !.pc = "answered", !.reply = [kind |-> kind, rows |-> rows, anchor |-> a]]
<1>1. [kind |-> kind, rows |-> rows, anchor |-> a] \in Reply
  BY DEF Reply
<1>2. p \in Serving
  OBVIOUS
<1>3. /\ s \in Serving /\ s.pc = "answered"
      /\ s.reply = [kind |-> kind, rows |-> rows, anchor |-> a]
      /\ s.asked = p.asked /\ s.stage = p.stage /\ s.osid = p.osid
      /\ s.retried = p.retried /\ s.held = p.held /\ s.waitsFor = p.waitsFor
  <2> HIDE DEF p
  <2> QED BY <1>1, <1>2 DEF Serving
<1>4. req' = [req EXCEPT ![r] = s]
  BY DEF Answers
<1> HIDE DEF s
<1> QED BY <1>3, <1>4 DEF Becomes

-----------------------------------------------------------------------------
\* The types of the provider and the IdP, the part of TypeOK most steps leave alone.
TokenTypes ==
    /\ cache \in [token : Token \cup {NoToken}, offeredFor : Nat]
    /\ inFlight \in Token \cup {NoToken}
    /\ exchange \in [Token -> {"none", "requested", "minted"}]
    /\ age \in [Token -> 0 .. ExchangeTimeout]
    /\ expiresIn \in [Token -> Lifetime \cup {0}]
    /\ left \in [Token -> Nat]

\* Neither the Authority nor the history moves.
NotAuthority == UNCHANGED <<authority, history>>

\* A request goes on to a call as s, with what the cache c offers or an exchange it awaits.
Goes(r, s, c) ==
    /\ Becomes(r, s)
    /\ c \in {cache, Empty} /\ cache' = c
    /\ s.asked \in Ask /\ s.reply = NoReply
    /\ \/ req[r].pc = "idle"
       \/ /\ req[r].pc = "answered" /\ s.asked = req[r].asked
          /\ \/ s.stage = req[r].stage /\ s.retried /\ ~req[r].retried
             \/ <<req[r].stage, s.stage>> \in {<<"profile", "search">>, <<"search", "issue">>}
    /\ s.stage = "issue" => s.osid \in Osid /\ <<s.asked.subject, s.osid>> \in everSole
    /\ \/ /\ Offers(c)
          /\ s.pc = "sent" /\ s.held = c.token /\ s.waitsFor = NoToken
          /\ ~s.retried
          /\ UNCHANGED <<inFlight, exchanges>>
       \/ /\ s.pc = "awaiting"
          /\ s.held \in {NoToken, req[r].held}
          /\ s.waitsFor \in Token /\ Joins(s.waitsFor, InUse)
    /\ NotAuthority

\* Nothing is on its way, so nothing is received.
LEMMA NoReplyReceived == NoReply.kind = "none" /\ NoReply.anchor = NoAnchor
BY DEF NoReply

\* A request starts.
LEMMA BeginsGoes ==
    ASSUME IInv, NEW r \in Request, NEW ask \in Ask, Begins(r, ask)
    PROVE  \E s \in Serving : Goes(r, s, cache)
<1> DEFINE q == [Ended("none") EXCEPT !.asked = ask]
<1>1. /\ q \in Serving /\ q.asked = ask /\ q.stage = "profile" /\ q.retried = FALSE
      /\ q.held = NoToken /\ q.waitsFor = NoToken /\ q.reply = NoReply
  BY FirstCall
<1>2. Sends(r, q, cache) /\ UNCHANGED <<cache, authority, history>>
  BY DEF Begins
<1> HIDE DEF q
<1>3. cache.token \in Token \cup {NoToken}
  BY DEF IInv, TypeOK
<1>4. PICK s \in Serving : SendsAs(r, q, cache, s)
  BY <1>1, <1>2, <1>3, SendsCases
<1> QED BY <1>1, <1>2, <1>4 DEF SendsAs, Goes, NotAuthority, Begins

\* A request waits for no exchange while it has an answer.
LEMMA NotAwaiting ==
    ASSUME IInv, NEW r \in Request, req[r].pc # "awaiting"
    PROVE  req[r].waitsFor = NoToken
BY DEF IInv, AwaitsInFlight, TypeOK, Serving

\* A request makes a further call.
LEMMA CallsGoes ==
    ASSUME IInv, NEW r \in Request, NEW stage \in {"search", "issue"},
           NEW o \in Osid \cup {NoOsid}, req[r].pc = "answered", Calls(r, stage, o),
           stage = "issue" => o \in Osid /\ <<req[r].asked.subject, o>> \in everSole,
           <<req[r].stage, stage>> \in {<<"profile", "search">>, <<"search", "issue">>},
           NotAuthority
    PROVE  \E s \in Serving : Goes(r, s, cache)
<1> DEFINE p == req[r]
           q == Further(p, stage, o)
<1>0. p \in Serving /\ p.waitsFor = NoToken /\ p.asked \in Ask
  BY NotAwaiting DEF IInv, TypeOK, AskedWhileServed
<1>2. Sends(r, q, cache) /\ UNCHANGED cache
  BY DEF Calls, Further
<1>5. p = req[r]
  OBVIOUS
<1> HIDE DEF p
<1>1. /\ q \in Serving /\ q.asked = p.asked /\ q.stage = stage /\ q.osid = o
      /\ q.retried = FALSE /\ q.held = p.held /\ q.waitsFor = p.waitsFor
      /\ q.reply = NoReply
  BY <1>0, FurtherCall
<1> HIDE DEF q
<1>3. cache.token \in Token \cup {NoToken}
  BY DEF IInv, TypeOK
<1>4. PICK s \in Serving : SendsAs(r, q, cache, s)
  BY <1>1, <1>2, <1>3, SendsCases
<1> QED BY <1>0, <1>1, <1>2, <1>4, <1>5 DEF SendsAs, Goes

\* A refused request retries.
LEMMA RetryGoes ==
    ASSUME IInv, NEW r \in Request, Receives(r, "refused"), MayRetry(req[r]),
           cache' = Invalidated(cache),
           Sends(r, [req[r] EXCEPT !.retried = TRUE, !.reply = NoReply], Invalidated(cache)),
           NotAuthority
    PROVE  \E s \in Serving : Goes(r, s, Empty)
<1> DEFINE p == req[r]
           q == [p EXCEPT !.retried = TRUE, !.reply = NoReply]
<1>0. p \in Serving /\ p.waitsFor = NoToken /\ p.asked \in Ask
  BY NotAwaiting DEF IInv, TypeOK, AskedWhileServed, Receives
<1>6. p.stage = "issue" => p.osid \in Osid /\ <<p.asked.subject, p.osid>> \in everSole
  BY DEF IInv, AskedWhileServed, MatchWasSole
<1>2. Sends(r, q, Empty) /\ cache' = Empty
  BY DEF Invalidated
<1>5. p = req[r]
  OBVIOUS
<1> HIDE DEF p
<1>1. /\ q \in Serving /\ q.asked = p.asked /\ q.stage = p.stage /\ q.osid = p.osid
      /\ q.retried = TRUE /\ q.held = p.held /\ q.waitsFor = p.waitsFor
      /\ q.reply = NoReply
  BY <1>0, SameCall
<1> HIDE DEF q
<1>3. Empty.token \in Token \cup {NoToken} /\ ~Offers(Empty)
  BY DEF Empty, Offers
<1>4. PICK s \in Serving : SendsAs(r, q, Empty, s)
  BY <1>1, <1>2, <1>3, SendsCases
<1>7. p.pc = "answered" /\ ~p.retried
  BY <1>5 DEF Receives, MayRetry
<1> QED BY <1>0, <1>1, <1>2, <1>3, <1>4, <1>5, <1>6, <1>7 DEF SendsAs, Goes

-----------------------------------------------------------------------------
Outcomes == {"none", "issued", "notFound", "incomplete", "unavailable", "error"}

Linkages == [subject : Subject, osid : Osid, profile : Profile, anchor : Anchor]

\* What is left behind when requests end: calls that may still arrive, and linkages that
\* the Authority holds.
LeavesSound ==
    /\ UNCHANGED <<records, anchors, everSole>>
    /\ \A call \in straggling' : call.subject \in Subject /\ call.osid \in Osid
    /\ \A call \in straggling' : SoleKey(call.key)
    /\ delivered' \subseteq Linkages
    /\ \A d \in delivered' :
        /\ <<<<d.profile, d.osid, d.subject>>, d.anchor>> \in anchors
        /\ <<d.subject, d.osid>> \in everSole

\* What an ending request hands on: nothing, or a linkage for what it asked for.
HandsOn(r) ==
    \/ delivered' = delivered
    \/ \E l \in Linkages : /\ req[r].asked = [subject |-> l.subject, profile |-> l.profile]
                            /\ delivered' = delivered \cup {l}

\* A request ends with outcome o.
Stops(r, o) == Finishes(r, o) /\ LeavesSound /\ HandsOn(r)

\* A match once the only one stays so.
LEMMA SoleKeyStays ==
    ASSUME everSole \subseteq everSole', NEW key, SoleKey(key)
    PROVE  SoleKey(key)'
BY DEF SoleKey

\* What was asked for stays sound while no more is asked for.
LEMMA AskedForSoleStays ==
    ASSUME AskedForSole, everSole \subseteq everSole', anchors' = anchors,
           \A call \in straggling' : SoleKey(call.key)
    PROVE  AskedForSole'
<1>1. \A x \in anchors' : SoleKey(x[1])'
  BY SoleKeyStays DEF AskedForSole
<1>2. \A call \in straggling' : SoleKey(call.key)'
  BY SoleKeyStays
<1> QED BY <1>1, <1>2 DEF AskedForSole

\* The key of an issue call is for a record that was the only match for its subject.
LEMMA IssueKeyIsSole ==
    ASSUME IInv, NEW r \in Request, req[r].pc # "idle", req[r].stage = "issue"
    PROVE  SoleKey(IdempotencyKey(req[r], r))
<1>1. req[r].asked \in Ask /\ req[r].osid \in Osid
  BY DEF IInv, AskedWhileServed
<1>2. req[r].asked.subject \in Subject /\ req[r].asked.profile \in Profile
  BY <1>1 DEF Ask
<1>3. <<req[r].asked.subject, req[r].osid>> \in everSole
  BY DEF IInv, MatchWasSole
<1> QED BY <1>1, <1>2, <1>3 DEF SoleKey, IdempotencyKey

\* The calls that requests leave behind name a subject and a record, its only match once.
LEMMA AbandonsSound ==
    ASSUME IInv, NEW Q \in SUBSET Request, Abandons(Q)
    PROVE  \A call \in straggling' :
                call.subject \in Subject /\ call.osid \in Osid /\ SoleKey(call.key)
<1> SUFFICES ASSUME NEW call \in straggling'
             PROVE  call.subject \in Subject /\ call.osid \in Osid /\ SoleKey(call.key)
  OBVIOUS
<1>1. CASE call \in straggling
  BY <1>1 DEF IInv, TypeOK, AskedForSole
<1>2. CASE call \notin straggling
  <2>1. PICK r \in Request : /\ req[r].pc = "sent" /\ req[r].stage = "issue"
                             /\ call = IssueCall(r)
    BY <1>2 DEF Abandons
  <2>2. req[r].asked \in Ask /\ req[r].osid \in Osid
    BY <2>1 DEF IInv, AskedWhileServed
  <2>3. req[r].asked.subject \in Subject
    BY <2>2 DEF Ask
  <2>4. SoleKey(IdempotencyKey(req[r], r))
    BY <2>1, IssueKeyIsSole
  <2> QED BY <2>1, <2>2, <2>3, <2>4 DEF IssueCall
<1> QED BY <1>1, <1>2

\* A step that leaves the Authority and the history alone leaves nothing unsound.
LEMMA NothingLeft ==
    ASSUME IInv, NotAuthority
    PROVE  LeavesSound
BY DEF IInv, TypeOK, LinkageHeld, LinkedFromSole, AskedForSole, LeavesSound, NotAuthority,
       authority, history, Linkages

\* A request that received the Authority's credential ends.
LEMMA AnchorStops ==
    ASSUME IInv, NEW r \in Request, ReceivesAnchor(r)
    PROVE  \E o \in Outcomes : Stops(r, o)
<1> DEFINE q == req[r]
           d == [subject |-> q.asked.subject, osid |-> q.osid,
                 profile |-> q.asked.profile, anchor |-> q.reply.anchor]
<1>0. Receives(r, "issued") /\ UNCHANGED <<authority, everSole>>
  BY DEF ReceivesAnchor
<1>1. CASE /\ q.reply.anchor # NoAnchor /\ Finishes(r, "issued")
           /\ delivered' = delivered \cup {d}
  <2>1. q.asked \in Ask /\ q.osid \in Osid /\ q.stage = "issue"
    BY <1>0 DEF IInv, AskedWhileServed, Receives
  <2>2. q.asked.subject \in Subject /\ q.asked.profile \in Profile
    BY <2>1 DEF Ask
  <2>3. q.reply.anchor \in Anchor
    BY <1>1 DEF IInv, TypeOK, Serving, Reply
  <2>4. <<<<q.asked.profile, q.osid, q.asked.subject>>, q.reply.anchor>> \in anchors
    BY <1>0, <1>1 DEF IInv, LinkageHeld, IdempotencyKey
  <2>5. <<q.asked.subject, q.osid>> \in everSole
    BY <2>1 DEF IInv, MatchWasSole
  <2>6. /\ d \in Linkages /\ d.subject = q.asked.subject /\ d.osid = q.osid
        /\ d.profile = q.asked.profile /\ d.anchor = q.reply.anchor
    BY <2>1, <2>2, <2>3 DEF Linkages
  <2>7. LeavesSound
    <3> HIDE DEF d, q
    <3>1. delivered' \subseteq Linkages
      BY <1>1, <2>6 DEF IInv, TypeOK, Linkages
    <3>2. \A e \in delivered' :
            /\ <<<<e.profile, e.osid, e.subject>>, e.anchor>> \in anchors
            /\ <<e.subject, e.osid>> \in everSole
      BY <1>1, <2>4, <2>5, <2>6 DEF IInv, LinkageHeld, LinkedFromSole
    <3> QED BY <1>0, <3>1, <3>2 DEF LeavesSound, IInv, TypeOK, AskedForSole, authority
  <2>8. q.asked = [subject |-> d.subject, profile |-> d.profile]
    BY <2>1, <2>6 DEF Ask
  <2>9. d \in Linkages
    BY <2>2, <2>1, <2>3, <2>6 DEF Linkages
  <2> HIDE DEF d
  <2> QED BY <1>1, <2>7, <2>8, <2>9 DEF Stops, HandsOn, Outcomes
<1>2. CASE /\ Finishes(r, IF q.reply.anchor = NoAnchor THEN "unavailable" ELSE "incomplete")
           /\ UNCHANGED delivered
  <2>1. LeavesSound
    BY <1>0, <1>2, NothingLeft DEF NotAuthority, history
  <2> QED BY <1>2, <2>1 DEF Stops, HandsOn, Outcomes
<1> QED BY <1>1, <1>2 DEF ReceivesAnchor

\* A request that an answer has reached goes on, or ends.
LEMMA ResumesCases ==
    ASSUME IInv, NEW r \in Request, Resumes(r)
    PROVE  \/ \E c, s : s \in Serving /\ Goes(r, s, c)
           \/ \E o \in Outcomes : Stops(r, o)
<1>1. CASE ReceivesRefusal(r)
  <2>1. NotAuthority
    BY <1>1 DEF ReceivesRefusal, NotAuthority
  <2>2. CASE MayRetry(req[r]) /\ cache' = Invalidated(cache)
             /\ Sends(r, [req[r] EXCEPT !.retried = TRUE, !.reply = NoReply], Invalidated(cache))
    BY <1>1, <2>1, <2>2, RetryGoes DEF ReceivesRefusal
  <2>3. CASE Finishes(r, "unavailable")
    BY <2>1, <2>3, NothingLeft DEF Stops, HandsOn, Outcomes, NotAuthority, history
  <2> QED BY <1>1, <2>2, <2>3 DEF ReceivesRefusal
<1>2. CASE ReceivesFault(r)
  BY <1>2, NothingLeft DEF ReceivesFault, NotAuthority, Stops, HandsOn, Outcomes,
                             history
<1>3. CASE ReceivesProfile(r)
  <2>1. NotAuthority
    BY <1>3 DEF ReceivesProfile, NotAuthority
  <2>2. CASE Receives(r, "bound") /\ Calls(r, "search", NoOsid)
    <3>1. req[r].pc = "answered" /\ req[r].stage = "profile"
      BY <2>2 DEF Receives, IInv, AskedWhileServed
    <3> QED BY <2>1, <2>2, <3>1, CallsGoes
  <2>3. CASE Finishes(r, "unavailable")
    BY <2>1, <2>3, NothingLeft DEF Stops, HandsOn, Outcomes, NotAuthority, history
  <2> QED BY <1>3, <2>2, <2>3 DEF ReceivesProfile
<1>4. CASE ReceivesRows(r)
  <2>1. NotAuthority
    BY <1>4 DEF ReceivesRows, NotAuthority
  <2>2. ASSUME NEW o \in Osid, req[r].reply.rows = {o}, Calls(r, "issue", o)
        PROVE  \E s \in Serving : Goes(r, s, cache)
    <3>1. Receives(r, "rows")
      BY <1>4 DEF ReceivesRows
    <3>2. <<req[r].asked.subject, o>> \in everSole
      BY <2>2, <3>1 DEF IInv, MatchWasSole
    <3>3. req[r].pc = "answered" /\ req[r].stage = "search"
      BY <3>1 DEF Receives, IInv, AskedWhileServed
    <3> QED BY <2>1, <2>2, <3>2, <3>3, CallsGoes
  <2>3. CASE Finishes(r, "notFound") \/ Finishes(r, "unavailable")
    BY <2>1, <2>3, NothingLeft DEF Stops, HandsOn, Outcomes, NotAuthority, history
  <2> QED BY <1>4, <2>2, <2>3 DEF ReceivesRows
<1>5. CASE ReceivesAnchor(r)
  BY <1>5, AnchorStops
<1> QED BY <1>1, <1>2, <1>3, <1>4, <1>5 DEF Resumes

\* Every step is one of these.
LEMMA NextCases ==
    ASSUME IInv, Next
    PROVE  \/ \E r \in Request : \E c, s : s \in Serving /\ Goes(r, s, c)
           \/ \E r \in Request, o \in Outcomes : Stops(r, o)
           \/ \E r \in Request : AuthorityReplies(r)
           \/ \E t \in Token : TokenAcquired(t) \/ TokenFails(t) \/ IdP(t)
           \/ \E call \in straggling : StragglerArrives(call)
           \/ \E s \in Subject, rows \in SUBSET Osid : RecordsChange(s, rows)
           \/ Tick
           \/ Restart
<1>1. ASSUME NEW r \in Request, NEW ask \in Ask, Begins(r, ask)
      PROVE  \E c, s : s \in Serving /\ Goes(r, s, c)
  BY <1>1, BeginsGoes
<1>2. ASSUME NEW r \in Request, BeginsUnmapped(r)
      PROVE  Stops(r, "unavailable")
  BY <1>2, NothingLeft DEF BeginsUnmapped, NotAuthority, Stops, HandsOn, history
<1>3. ASSUME NEW r \in Request, CallFails(r)
      PROVE  Stops(r, "unavailable")
  <2>1. \A call \in straggling' :
            call.subject \in Subject /\ call.osid \in Osid /\ SoleKey(call.key)
    BY <1>3, AbandonsSound DEF CallFails
  <2>2. LeavesSound
    BY <1>3, <2>1 DEF CallFails, history, LeavesSound, IInv, TypeOK, LinkageHeld,
                      LinkedFromSole, Linkages
  <2> QED BY <1>3, <2>2 DEF CallFails, Stops, HandsOn, history
<1> QED BY <1>1, <1>2, <1>3, ResumesCases DEF Next, Outcomes

-----------------------------------------------------------------------------
\* Initially.
LEMMA InitIInv == Init => IInv
<1> SUFFICES ASSUME Init PROVE IInv
  OBVIOUS
<1>1. Ended("none") \in Serving /\ Ended("none").pc = "idle" /\ Ended("none").stage = "profile"
      /\ Ended("none").held = NoToken /\ Ended("none").waitsFor = NoToken
      /\ Ended("none").asked = NoAsk
  BY EndedFields
<1>2. \A r \in Request : req[r] = Ended("none")
  BY DEF Init
<1>3. TypeOK
  BY <1>1, TokensAssumption DEF Init, TypeOK, TokensInit, Empty
<1>4. ExchangeKnown /\ ComingIsNew
  BY DEF Init, TokensInit, ExchangeKnown, ComingIsNew
<1>5. AwaitsInFlight /\ MatchWasSole /\ AskedWhileServed
  <2> HIDE DEF Ended
  <2> QED BY <1>1, <1>2 DEF Init, AwaitsInFlight, MatchWasSole, AskedWhileServed, Receives
<1>6. AskedForSole /\ AnchorsPaired /\ LinkageHeld /\ LinkedFromSole
  BY <1>1, <1>2 DEF Init, AskedForSole, AnchorsPaired, LinkageHeld, LinkedFromSole, Receives
<1> QED BY <1>3, <1>4, <1>5, <1>6 DEF IInv

\* A request that goes on to its next call.
LEMMA GoesKeeps ==
    ASSUME IInv, NEW r \in Request, NEW c, NEW s \in Serving, Goes(r, s, c)
    PROVE  IInv'
<1>1. /\ req \in [Request -> Serving] /\ req' = [req EXCEPT ![r] = s]
      /\ cache' \in {cache, Empty}
      /\ UNCHANGED <<records, anchors, straggling, everSole, delivered>>
  BY DEF IInv, TypeOK, Goes, Becomes, NotAuthority, authority, history
<1>2. /\ req'[r] = s
      /\ \A p \in Request : p # r => req'[p] = req[p]
      /\ req' \in [Request -> Serving]
  BY <1>1
<1>3. c \in {cache, Empty} /\ cache' = c /\ Empty.token = NoToken /\ Empty.offeredFor = 0
  BY DEF Goes, Empty
<1>4. NoToken \notin Token
  BY TokensAssumption
<1>5. /\ TokenTypes'
      /\ ExchangeKnown'
      /\ AwaitsInFlight'
      /\ ComingIsNew'
  <2>0. TokenTypes /\ ExchangeKnown /\ AwaitsInFlight /\ ComingIsNew
    BY DEF IInv, TypeOK, TokenTypes
  <2>c. cache' \in [token : Token \cup {NoToken}, offeredFor : Nat]
    BY <1>3, <2>0 DEF TokenTypes, Empty
  <2>1. CASE /\ Offers(c) /\ s.pc = "sent" /\ s.held = c.token /\ s.waitsFor = NoToken
             /\ UNCHANGED <<inFlight, exchanges>>
    <3>1. TokenTypes' /\ ExchangeKnown'
      BY <2>0, <2>1, <2>c DEF TokenTypes, ExchangeKnown, exchanges
    <3>2. AwaitsInFlight'
      BY <1>2, <2>0, <2>1 DEF AwaitsInFlight
    <3>3. ComingIsNew'
      BY <1>2, <1>3, <2>0, <2>1 DEF ComingIsNew, Offers
    <3> QED BY <3>1, <3>2, <3>3
  <2>2. CASE /\ s.pc = "awaiting" /\ s.held \in {NoToken, req[r].held}
             /\ s.waitsFor \in Token /\ Joins(s.waitsFor, InUse)
    <3>1. CASE inFlight # NoToken
      <4>1. s.waitsFor = inFlight /\ UNCHANGED <<inFlight, exchange, age, expiresIn, left>>
        BY <2>2, <3>1 DEF Joins, Shared, exchanges
      <4>2. TokenTypes' /\ ExchangeKnown'
        BY <2>0, <4>1, <2>c DEF TokenTypes, ExchangeKnown
      <4>3. AwaitsInFlight'
        BY <1>2, <1>4, <2>0, <2>2, <4>1 DEF AwaitsInFlight
      <4>4. ComingIsNew'
        BY <1>2, <1>3, <2>0, <2>2, <3>1, <4>1 DEF ComingIsNew
      <4> QED BY <4>2, <4>3, <4>4
    <3>2. CASE inFlight = NoToken
      <4> DEFINE t == s.waitsFor
      <4>1. /\ t \in Token /\ t \notin InUse /\ t # cache.token
            /\ inFlight' = t
            /\ exchange' = [exchange EXCEPT ![t] = "requested"]
            /\ age' = [age EXCEPT ![t] = 0]
            /\ left' = [left EXCEPT ![t] = 0]
            /\ expiresIn' = expiresIn
        BY <2>2, <3>2 DEF Joins, Shared
      <4>2. TokenTypes'
        BY <2>0, <4>1, <2>c, TokensAssumption DEF TokenTypes
      <4>3. ExchangeKnown'
        BY <1>4, <2>0, <3>2, <4>1 DEF TokenTypes, ExchangeKnown
      <4>4. AwaitsInFlight'
        BY <1>2, <1>4, <2>0, <2>2, <3>2, <4>1 DEF AwaitsInFlight
      <4>5. \A p \in Request : req[p].held # t
        BY <4>1 DEF InUse
      <4>6. ComingIsNew'
        BY <1>2, <1>3, <1>4, <2>2, <4>1, <4>5 DEF ComingIsNew
      <4> QED BY <4>2, <4>3, <4>4, <4>6
    <3> QED BY <3>1, <3>2
  <2> QED BY <2>1, <2>2 DEF Goes
<1>6. TypeOK'
  BY <1>1, <1>2, <1>5 DEF IInv, TypeOK, TokenTypes
<1>7. s.reply.kind = "none" /\ s.asked \in Ask /\ s.pc \in {"sent", "awaiting"}
      /\ (s.stage = "issue" => s.osid \in Osid /\ <<s.asked.subject, s.osid>> \in everSole)
  BY NoReplyReceived DEF Goes
<1>8. MatchWasSole' /\ AskedWhileServed'
  BY <1>1, <1>2, <1>7 DEF IInv, MatchWasSole, AskedWhileServed, Receives
<1>9. AnchorsPaired' /\ LinkageHeld' /\ LinkedFromSole'
  BY <1>1, <1>2, <1>7 DEF IInv, AnchorsPaired, LinkageHeld, LinkedFromSole, Receives,
                          IdempotencyKey
<1>10. AskedForSole'
  BY <1>1, AskedForSoleStays DEF IInv, AskedForSole
<1> QED BY <1>5, <1>6, <1>8, <1>9, <1>10 DEF IInv

\* A request that ends.
LEMMA StopsKeeps ==
    ASSUME IInv, NEW r \in Request, NEW o \in Outcomes, Stops(r, o)
    PROVE  IInv'
<1>0. Ended(o) \in Serving /\ Ended(o).pc = "idle" /\ Ended(o).asked = NoAsk
      /\ Ended(o).stage = "profile" /\ Ended(o).held = NoToken /\ Ended(o).waitsFor = NoToken
  BY EndedFields DEF Outcomes
<1>1. /\ req \in [Request -> Serving] /\ req' = [req EXCEPT ![r] = Ended(o)]
      /\ UNCHANGED <<cache, inFlight, exchange, age, expiresIn, left>>
      /\ LeavesSound
  BY DEF IInv, TypeOK, Stops, Finishes, provider, exchanges
<1>2. /\ req'[r] = Ended(o)
      /\ \A p \in Request : p # r => req'[p] = req[p]
      /\ req' \in [Request -> Serving]
  BY <1>0, <1>1
<1> HIDE DEF Ended
<1>3. TypeOK'
  BY <1>1, <1>2 DEF IInv, TypeOK, LeavesSound, Linkages
<1>4. ExchangeKnown'
  BY <1>1 DEF IInv, ExchangeKnown
<1>5. AwaitsInFlight' /\ ComingIsNew'
  BY <1>0, <1>1, <1>2 DEF IInv, AwaitsInFlight, ComingIsNew
<1>6. MatchWasSole' /\ AskedWhileServed'
  BY <1>0, <1>1, <1>2 DEF IInv, MatchWasSole, AskedWhileServed, Receives, LeavesSound
<1>7. AnchorsPaired' /\ LinkageHeld' /\ LinkedFromSole'
  BY <1>0, <1>1, <1>2 DEF IInv, AnchorsPaired, LinkageHeld, LinkedFromSole, Receives,
                          IdempotencyKey, LeavesSound
<1>8. AskedForSole'
  BY <1>1, AskedForSoleStays DEF IInv, LeavesSound
<1> QED BY <1>3, <1>4, <1>5, <1>6, <1>7, <1>8 DEF IInv

\* Distinct keys for distinct credentials, however the Authority is asked to issue.
LEMMA IssuesPaired ==
    ASSUME AnchorsPaired, NEW call, NEW a \in Anchor, Issues(call, a)
    PROVE  AnchorsPaired' /\ anchors \subseteq anchors' /\ <<call.key, a>> \in anchors'
<1>1. anchors' = anchors \cup {<<call.key, a>>}
  BY DEF Issues
<1>2. CASE <<call.key, a>> \in anchors
  BY <1>1, <1>2 DEF AnchorsPaired
<1>3. CASE \A x \in anchors : x[1] # call.key /\ x[2] # a
  BY <1>1, <1>3 DEF AnchorsPaired
<1> QED BY <1>1, <1>2, <1>3 DEF Issues

\* A search for at most two that finds one finds all there is.
LEMMA FoundAloneIsSole ==
    ASSUME NEW s, NEW o, Found(s, {o})
    PROVE  records[s] = {o}
<1>1. Cardinality({o}) = 1
  BY FS_Singleton
<1> QED BY <1>1 DEF Found, SearchLimit

\* The Authority's answer to r, and what it did.
Replied(r, kind, rows, a) ==
    /\ Answers(r, kind, rows, a)
    /\ kind = "bound" => req[r].stage = "profile"
    /\ kind = "rows" => /\ req[r].stage = "search" /\ UNCHANGED anchors
                        /\ rows = {NoOsid} \/ Found(req[r].asked.subject, rows)
    /\ kind = "issued" => req[r].stage = "issue"
    /\ \/ kind = "issued" /\ a \in Anchor /\ Issues(IssueCall(r), a)
       \/ UNCHANGED anchors /\ a = NoAnchor

\* The Authority answers a call.
LEMMA RepliesKeeps ==
    ASSUME IInv, NEW r \in Request, AuthorityReplies(r)
    PROVE  IInv'
<1>1. /\ req[r].pc = "sent" /\ req \in [Request -> Serving]
      /\ UNCHANGED <<cache, inFlight, exchange, age, expiresIn, left, records, straggling,
                     everSole, delivered>>
  BY DEF AuthorityReplies, IInv, TypeOK, provider, exchanges, history
<1>2. PICK kind \in {"refused", "fault", "bound", "unbound", "rows", "issued"},
           rows \in SUBSET (Osid \cup {NoOsid}), a \in Anchor \cup {NoAnchor} :
        Replied(r, kind, rows, a)
  <2> DEFINE Goal == \E kind \in {"refused", "fault", "bound", "unbound", "rows", "issued"},
                        rows \in SUBSET (Osid \cup {NoOsid}), a \in Anchor \cup {NoAnchor} :
                            Replied(r, kind, rows, a)
  <2>1. ASSUME NEW kind \in {"refused", "fault", "bound", "unbound"},
               kind = "bound" => req[r].stage = "profile",
               Answers(r, kind, {}, NoAnchor), UNCHANGED anchors
        PROVE  Goal
    <3>1. Replied(r, kind, {}, NoAnchor)
      BY <2>1 DEF Replied
    <3>2. {} \in SUBSET (Osid \cup {NoOsid}) /\ NoAnchor \in Anchor \cup {NoAnchor}
      OBVIOUS
    <3> QED BY <3>1, <3>2
  <2>2. ASSUME req[r].stage = "search", NEW rows \in (SUBSET Osid) \cup {{NoOsid}},
               rows = {NoOsid} \/ Found(req[r].asked.subject, rows),
               Answers(r, "rows", rows, NoAnchor), UNCHANGED anchors
        PROVE  Goal
    <3>1. Replied(r, "rows", rows, NoAnchor)
      BY <2>2 DEF Replied
    <3>2. rows \in SUBSET (Osid \cup {NoOsid}) /\ NoAnchor \in Anchor \cup {NoAnchor}
      OBVIOUS
    <3> QED BY <3>1, <3>2
  <2>3. ASSUME req[r].stage = "issue", NEW a \in Anchor, Issues(IssueCall(r), a),
               Answers(r, "issued", {}, a)
        PROVE  Goal
    <3>1. Replied(r, "issued", {}, a)
      BY <2>3 DEF Replied
    <3>2. {} \in SUBSET (Osid \cup {NoOsid}) /\ a \in Anchor \cup {NoAnchor}
      OBVIOUS
    <3> QED BY <3>1, <3>2
  <2>4. ASSUME req[r].stage = "issue", Answers(r, "issued", {}, NoAnchor), UNCHANGED anchors
        PROVE  Goal
    <3>1. Replied(r, "issued", {}, NoAnchor)
      BY <2>4 DEF Replied
    <3>2. {} \in SUBSET (Osid \cup {NoOsid}) /\ NoAnchor \in Anchor \cup {NoAnchor}
      OBVIOUS
    <3> QED BY <3>1, <3>2
  <2> HIDE DEF Goal
  <2>5. Goal
    BY <2>1, <2>2, <2>3, <2>4 DEF AuthorityReplies
  <2> QED BY <2>5 DEF Goal
<1>3. PICK s \in Serving :
        /\ Becomes(r, s)
        /\ s.pc = "answered"
        /\ s.reply = [kind |-> kind, rows |-> rows, anchor |-> a]
        /\ s.asked = req[r].asked /\ s.stage = req[r].stage /\ s.osid = req[r].osid
        /\ s.retried = req[r].retried /\ s.held = req[r].held
        /\ s.waitsFor = req[r].waitsFor
  BY <1>1, <1>2, AnswersAs DEF Replied
<1>4. /\ req'[r] = s
      /\ \A p \in Request : p # r => req'[p] = req[p]
      /\ req' \in [Request -> Serving]
  BY <1>1, <1>3 DEF Becomes
<1>5. s.reply.kind = kind /\ s.reply.rows = rows /\ s.reply.anchor = a
  BY <1>3
<1>6. req[r].asked \in Ask /\ req[r].waitsFor = NoToken
  BY <1>1, NotAwaiting DEF IInv, AskedWhileServed
<1>7. req[r].asked.subject \in Subject
  BY <1>6 DEF Ask
<1>8. /\ AnchorsPaired' /\ anchors \subseteq anchors'
      /\ \A x \in anchors' : x[2] \in Anchor
      /\ kind = "issued" /\ a # NoAnchor => <<IdempotencyKey(req[r], r), a>> \in anchors'
  <2>1. CASE kind = "issued" /\ a \in Anchor /\ Issues(IssueCall(r), a)
    <3>1. AnchorsPaired' /\ anchors \subseteq anchors' /\ <<IssueCall(r).key, a>> \in anchors'
      BY <2>1, IssuesPaired DEF IInv
    <3>2. IssueCall(r).key = IdempotencyKey(req[r], r)
      BY DEF IssueCall
    <3>3. \A x \in anchors' : x[2] \in Anchor
      BY <2>1 DEF Issues, IInv, TypeOK
    <3> QED BY <3>1, <3>2, <3>3
  <2>2. CASE UNCHANGED anchors /\ a = NoAnchor
    BY <2>2 DEF IInv, AnchorsPaired, TypeOK
  <2> QED BY <1>2, <2>1, <2>2 DEF Replied
<1>9. TypeOK' /\ ExchangeKnown'
  BY <1>1, <1>4, <1>8 DEF IInv, TypeOK, ExchangeKnown
<1>10. AwaitsInFlight' /\ ComingIsNew'
  BY <1>1, <1>3, <1>4, <1>6 DEF IInv, AwaitsInFlight, ComingIsNew
<1>11. AskedWhileServed'
  BY <1>1, <1>2, <1>3, <1>4, <1>5, <1>6 DEF IInv, AskedWhileServed, Receives, Replied
<1>12. MatchWasSole'
  <2>1. \A o \in Osid : kind = "rows" /\ rows = {o} => <<s.asked.subject, o>> \in everSole
    <3> SUFFICES ASSUME NEW o \in Osid, kind = "rows", rows = {o}
                 PROVE  <<s.asked.subject, o>> \in everSole
      OBVIOUS
    <3>1. rows # {NoOsid}
      BY IssuanceAssumption
    <3>2. records[req[r].asked.subject] = {o}
      BY <1>2, <3>1, FoundAloneIsSole DEF Replied
    <3> QED BY <1>3, <1>7, <3>2 DEF IInv, MatchWasSole
  <2>2. s.stage = "issue" => <<s.asked.subject, s.osid>> \in everSole
    BY <1>3 DEF IInv, MatchWasSole
  <2> QED BY <1>1, <1>4, <1>5, <2>1, <2>2 DEF IInv, MatchWasSole, Receives
<1>13. LinkageHeld' /\ LinkedFromSole'
  <2>1. kind = "issued" /\ a # NoAnchor => <<IdempotencyKey(s, r), a>> \in anchors'
    BY <1>3, <1>8 DEF IdempotencyKey
  <2> QED BY <1>1, <1>4, <1>5, <1>8, <2>1 DEF IInv, LinkageHeld, LinkedFromSole, Receives,
                          IdempotencyKey
<1>14. AskedForSole'
  <2>1. CASE kind = "issued" /\ Issues(IssueCall(r), a)
    <3>1. req[r].stage = "issue"
      BY <1>2, <2>1 DEF Replied
    <3>2. SoleKey(IssueCall(r).key)
      BY <1>1, <3>1, IssueKeyIsSole DEF IssueCall
    <3>3. anchors' = anchors \cup {<<IssueCall(r).key, a>>}
      BY <2>1 DEF Issues
    <3> HIDE DEF IssueCall
    <3>4. \A x \in anchors' : SoleKey(x[1])
      BY <3>2, <3>3 DEF IInv, AskedForSole
    <3>5. \A x \in anchors' : SoleKey(x[1])'
      BY <1>1, <3>4, SoleKeyStays
    <3>6. \A call \in straggling' : SoleKey(call.key)'
      BY <1>1, SoleKeyStays DEF IInv, AskedForSole
    <3> QED BY <3>5, <3>6 DEF AskedForSole
  <2>2. CASE UNCHANGED anchors
    BY <1>1, <2>2, AskedForSoleStays DEF IInv, AskedForSole
  <2> QED BY <1>2, <2>1, <2>2 DEF Replied
<1> QED BY <1>8, <1>9, <1>10, <1>11, <1>12, <1>13, <1>14 DEF IInv

\* An exchange is the one in flight.
LEMMA OutIsInFlight ==
    ASSUME IInv, NEW t \in Token, exchange[t] # "none"
    PROVE  t = inFlight /\ t # NoToken
BY TokensAssumption DEF IInv, ExchangeKnown

\* After an exchange has ended there is none.
LEMMA EndsLeavesNone ==
    ASSUME IInv, NEW t \in Token, exchange[t] # "none", Ends(t)
    PROVE  /\ inFlight' = NoToken
           /\ exchange' \in [Token -> {"none", "requested", "minted"}]
           /\ age' \in [Token -> 0 .. ExchangeTimeout]
           /\ expiresIn' \in [Token -> Lifetime \cup {0}]
           /\ left' = left
           /\ ExchangeKnown'
<1>1. \A u \in Token : u # t => exchange[u] = "none"
  BY OutIsInFlight
<1> QED BY <1>1, TokensAssumption DEF Ends, IInv, TypeOK, ExchangeKnown

\* A token is offered for some time, and for less than it is taken to live.
LEMMA OfferedSome ==
    ASSUME NEW e \in Nat
    PROVE  /\ OfferedFor(e) \in Nat \ {0}
           /\ OfferedFor(e) = IF e > 0 THEN e - Margin(e)
                                        ELSE AssumedLifetime - Margin(AssumedLifetime)
<1>1. ASSUME NEW l \in Nat \ {0}
      PROVE  l - Margin(l) \in Nat \ {0}
  BY <1>1, TokensAssumption DEF Margin
<1> QED BY <1>1, TokensAssumption DEF OfferedFor

\* The awaited exchange ends well.
LEMMA AcquiredKeeps ==
    ASSUME IInv, NEW t \in Token, TokenAcquired(t)
    PROVE  IInv'
<1>1. /\ exchange[t] = "minted" /\ Ends(t)
      /\ cache' = [token |-> t, offeredFor |-> OfferedFor(expiresIn[t])]
      /\ UNCHANGED <<records, anchors, straggling, everSole, delivered>>
  BY DEF TokenAcquired, Acquires, authority, history
<1>2. t = inFlight /\ t # NoToken
  BY <1>1, OutIsInFlight
<1>3. cache' \in [token : Token \cup {NoToken}, offeredFor : Nat]
  <2>1. expiresIn[t] \in Nat
    <3>1. Lifetime \cup {0} \subseteq Nat
      BY TokensAssumption
    <3> QED BY <3>1 DEF IInv, TypeOK
  <2> QED BY <1>1, <2>1, OfferedSome
<1>4. \A r \in Request : req[r] \in Serving
  BY DEF IInv, TypeOK
<1>5. \A r \in Request : req[r].waitsFor # t => req'[r] = req[r]
  BY DEF TokenAcquired
<1>6. \A r \in Request : req[r].waitsFor = t =>
        /\ req'[r] \in Serving /\ req'[r].pc = "sent" /\ req'[r].asked = req[r].asked
        /\ req'[r].stage = req[r].stage /\ req'[r].osid = req[r].osid
        /\ req'[r].waitsFor = NoToken /\ req'[r].reply = req[r].reply
  <2> SUFFICES ASSUME NEW r \in Request, req[r].waitsFor = t
               PROVE  /\ req'[r] \in Serving /\ req'[r].pc = "sent"
                      /\ req'[r].asked = req[r].asked
                      /\ req'[r].stage = req[r].stage /\ req'[r].osid = req[r].osid
                      /\ req'[r].waitsFor = NoToken /\ req'[r].reply = req[r].reply
    OBVIOUS
  <2>1. req'[r] = Supplied(req[r], t)
    BY DEF TokenAcquired, Supplied
  <2> QED BY <1>4, <2>1, WithToken
<1>7. req' \in [Request -> Serving]
  BY <1>4, <1>5, <1>6 DEF TokenAcquired
<1>8. TypeOK' /\ ExchangeKnown'
  BY <1>1, <1>3, <1>7, EndsLeavesNone DEF IInv, TypeOK
<1>9. inFlight' = NoToken
  BY <1>1, EndsLeavesNone
<1>10. AwaitsInFlight' /\ ComingIsNew'
  BY <1>2, <1>5, <1>6, <1>9 DEF IInv, AwaitsInFlight, ComingIsNew
<1>11. \A r \in Request : req[r].waitsFor = t => req[r].pc = "awaiting" /\ req[r].asked \in Ask
  BY <1>2 DEF IInv, AwaitsInFlight, AskedWhileServed
<1>12. MatchWasSole' /\ AskedWhileServed'
  BY <1>1, <1>5, <1>6, <1>11 DEF IInv, MatchWasSole, AskedWhileServed, Receives
<1>13. AnchorsPaired' /\ LinkageHeld' /\ LinkedFromSole'
  BY <1>1, <1>5, <1>6 DEF IInv, AnchorsPaired, LinkageHeld, LinkedFromSole, Receives,
                          IdempotencyKey
<1>14. AskedForSole'
  BY <1>1, AskedForSoleStays DEF IInv, AskedForSole
<1> QED BY <1>8, <1>10, <1>12, <1>13, <1>14 DEF IInv

\* The awaited exchange fails.
LEMMA FailedKeeps ==
    ASSUME IInv, NEW t \in Token, TokenFails(t)
    PROVE  IInv'
<1>1. /\ exchange[t] # "none" /\ Ends(t) /\ UNCHANGED cache
      /\ UNCHANGED <<records, anchors, straggling, everSole, delivered>>
  BY DEF TokenFails, Fails, authority, history
<1>2. Ended("error") \in Serving /\ Ended("error").pc = "idle"
      /\ Ended("error").stage = "profile" /\ Ended("error").held = NoToken
      /\ Ended("error").waitsFor = NoToken /\ Ended("error").asked = NoAsk
  BY EndedFields
<1>3. /\ req \in [Request -> Serving]
      /\ req' = [r \in Request |-> IF req[r].waitsFor = t THEN Ended("error") ELSE req[r]]
  BY DEF TokenFails, IInv, TypeOK
<1> HIDE DEF Ended
<1>4. /\ \A r \in Request : req'[r] = req[r] \/ req'[r] = Ended("error")
      /\ \A r \in Request : req[r].waitsFor = t => req'[r] = Ended("error")
      /\ req' \in [Request -> Serving]
  BY <1>2, <1>3
<1>5. TypeOK' /\ ExchangeKnown' /\ inFlight' = NoToken
  BY <1>1, <1>4, EndsLeavesNone DEF IInv, TypeOK
<1>6. t = inFlight
  BY <1>1, OutIsInFlight
<1>7. AwaitsInFlight' /\ ComingIsNew'
  BY <1>2, <1>4, <1>5, <1>6 DEF IInv, AwaitsInFlight, ComingIsNew
<1>8. MatchWasSole' /\ AskedWhileServed'
  BY <1>1, <1>2, <1>4 DEF IInv, MatchWasSole, AskedWhileServed, Receives
<1>9. AnchorsPaired' /\ LinkageHeld' /\ LinkedFromSole'
  BY <1>1, <1>2, <1>4 DEF IInv, AnchorsPaired, LinkageHeld, LinkedFromSole, Receives,
                          IdempotencyKey
<1>10. AskedForSole'
  BY <1>1, AskedForSoleStays DEF IInv, AskedForSole
<1> QED BY <1>5, <1>7, <1>8, <1>9, <1>10 DEF IInv

\* The process restarts.
LEMMA RestartKeeps ==
    ASSUME IInv, Restart
    PROVE  IInv'
<1>1. /\ cache' = Empty /\ inFlight' = NoToken
      /\ exchange' = [t \in Token |-> "none"] /\ age' = [t \in Token |-> 0]
      /\ expiresIn' = [t \in Token |-> 0] /\ left' = left
      /\ UNCHANGED <<records, anchors, everSole, delivered>>
  BY DEF Restart, TokensLost, history
<1>2. Ended("none") \in Serving /\ Ended("none").pc = "idle"
      /\ Ended("none").stage = "profile" /\ Ended("none").held = NoToken
      /\ Ended("none").waitsFor = NoToken /\ Ended("none").asked = NoAsk
  BY EndedFields
<1>3. req' = [r \in Request |-> Ended("none")]
  BY DEF Restart
<1> HIDE DEF Ended
<1>4. /\ \A r \in Request : req'[r] = Ended("none")
      /\ req' \in [Request -> Serving]
  BY <1>2, <1>3
<1>5. \A call \in straggling' :
        call.subject \in Subject /\ call.osid \in Osid /\ SoleKey(call.key)
  BY AbandonsSound DEF Restart
<1>6. TypeOK' /\ ExchangeKnown'
  BY <1>1, <1>4, <1>5, TokensAssumption DEF IInv, TypeOK, ExchangeKnown, Empty
<1>7. AwaitsInFlight' /\ ComingIsNew'
  BY <1>1, <1>2, <1>4 DEF AwaitsInFlight, ComingIsNew
<1>8. MatchWasSole' /\ AskedWhileServed'
  BY <1>1, <1>2, <1>4 DEF IInv, MatchWasSole, AskedWhileServed, Receives
<1>9. AnchorsPaired' /\ LinkageHeld' /\ LinkedFromSole'
  BY <1>1, <1>2, <1>4 DEF IInv, AnchorsPaired, LinkageHeld, LinkedFromSole, Receives
<1>10. AskedForSole'
  BY <1>1, <1>5, AskedForSoleStays DEF IInv
<1> QED BY <1>6, <1>7, <1>8, <1>9, <1>10 DEF IInv

\* The IdP mints, or time passes: the requests and the Authority stay as they are.
LEMMA TimeKeeps ==
    ASSUME IInv, Tick \/ \E t \in Token : IdP(t)
    PROVE  IInv'
<1>1. UNCHANGED <<req, records, anchors, straggling, everSole, delivered, inFlight>>
  BY DEF Tick, IdP, TokensTick, Mints, authority, history, provider
<1>2. TokenTypes' /\ ExchangeKnown' /\ cache'.token = cache.token
  <2>0. TokenTypes /\ ExchangeKnown
    BY DEF IInv, TypeOK, TokenTypes
  <2>1. CASE Tick
    <3>1. age' = [t \in Token |-> IF exchange[t] = "none" THEN 0 ELSE age[t] + 1]
          /\ \A t \in Token : exchange[t] = "none" \/ age[t] # ExchangeTimeout
      BY <2>1 DEF Tick, TokensTick, TimesOut
    <3>2. age' \in [Token -> 0 .. ExchangeTimeout]
      BY <2>0, <3>1, TokensAssumption DEF TokenTypes
    <3>3. left' \in [Token -> Nat]
      BY <2>0, <2>1 DEF Tick, TokensTick, TokenTypes, Less
    <3>4. cache' \in [token : Token \cup {NoToken}, offeredFor : Nat] /\ cache'.token = cache.token
      BY <2>0, <2>1 DEF Tick, TokensTick, TokenTypes, Less
    <3> QED BY <2>0, <2>1, <3>2, <3>3, <3>4 DEF Tick, TokensTick, TokenTypes, ExchangeKnown
  <2>2. ASSUME NEW t \in Token, IdP(t)
        PROVE  TokenTypes' /\ ExchangeKnown' /\ cache'.token = cache.token
    <3>1. Lifetime \subseteq Nat
      BY TokensAssumption
    <3>2. UNCHANGED <<cache, inFlight, age>>
      BY <2>2 DEF IdP, Mints, provider
    <3>3. PICK l \in Lifetime, e \in Lifetime \cup {0} :
                /\ expiresIn' = [expiresIn EXCEPT ![t] = e]
                /\ left' = [left EXCEPT ![t] = l]
      BY <2>2, TokensAssumption DEF IdP, Mints, Told
    <3>4. exchange[t] = "requested" /\ exchange' = [exchange EXCEPT ![t] = "minted"]
      BY <2>2 DEF IdP, Mints
    <3> QED BY <2>0, <3>1, <3>2, <3>3, <3>4 DEF TokenTypes, ExchangeKnown
  <2> QED BY <2>1, <2>2
<1>3. TypeOK'
  BY <1>1, <1>2 DEF IInv, TypeOK, TokenTypes
<1>4. AwaitsInFlight' /\ ComingIsNew' /\ MatchWasSole' /\ AskedWhileServed'
  BY <1>1, <1>2 DEF IInv, AwaitsInFlight, ComingIsNew, MatchWasSole, AskedWhileServed, Receives
<1>5. AnchorsPaired' /\ LinkageHeld' /\ LinkedFromSole'
  BY <1>1 DEF IInv, AnchorsPaired, LinkageHeld, LinkedFromSole, Receives, IdempotencyKey
<1>6. AskedForSole'
  BY <1>1, AskedForSoleStays DEF IInv, AskedForSole
<1> QED BY <1>2, <1>3, <1>4, <1>5, <1>6 DEF IInv

\* A late call arrives, or records change: the provider and the requests stay as they are.
LEMMA AuthorityKeeps ==
    ASSUME IInv,
           \/ \E call \in straggling : StragglerArrives(call)
           \/ \E s \in Subject, rows \in SUBSET Osid : RecordsChange(s, rows)
    PROVE  IInv'
<1>1. UNCHANGED <<cache, inFlight, exchange, age, expiresIn, left, req, delivered>>
  BY DEF StragglerArrives, RecordsChange, provider, exchanges, history
<1>2. /\ records' \in [Subject -> SUBSET Osid]
      /\ everSole \subseteq everSole' /\ everSole' \subseteq Subject \X Osid
      /\ \A s \in Subject, o \in Osid : records'[s] = {o} => <<s, o>> \in everSole'
  <2>0. /\ records \in [Subject -> SUBSET Osid] /\ everSole \subseteq Subject \X Osid
        /\ \A s \in Subject, o \in Osid : records[s] = {o} => <<s, o>> \in everSole
    BY DEF IInv, TypeOK, MatchWasSole
  <2>1. CASE UNCHANGED <<records, everSole>>
    BY <2>0, <2>1
  <2>2. ASSUME NEW s \in Subject, NEW rows \in SUBSET Osid, RecordsChange(s, rows)
        PROVE  /\ records' \in [Subject -> SUBSET Osid]
               /\ everSole \subseteq everSole' /\ everSole' \subseteq Subject \X Osid
               /\ \A u \in Subject, o \in Osid : records'[u] = {o} => <<u, o>> \in everSole'
    BY <2>0, <2>2 DEF RecordsChange
  <2> QED BY <2>1, <2>2 DEF StragglerArrives, history
<1>3. /\ AnchorsPaired' /\ anchors \subseteq anchors'
      /\ \A x \in anchors' : x[2] \in Anchor
  <2>1. CASE UNCHANGED anchors
    BY <2>1 DEF IInv, TypeOK, AnchorsPaired
  <2>2. ASSUME NEW call, NEW a \in Anchor, Issues(call, a)
        PROVE  /\ AnchorsPaired' /\ anchors \subseteq anchors'
               /\ \A x \in anchors' : x[2] \in Anchor
    <3>1. \A x \in anchors' : x[2] \in Anchor
      BY <2>2 DEF Issues, IInv, TypeOK
    <3> QED BY <2>2, <3>1, IssuesPaired DEF IInv
  <2> QED BY <2>1, <2>2 DEF StragglerArrives, RecordsChange
<1>4. straggling' \subseteq straggling
  BY DEF StragglerArrives, RecordsChange
<1>9. AskedForSole'
  <2>1. \A key : SoleKey(key) => SoleKey(key)'
    BY <1>2, SoleKeyStays
  <2>2. \A x \in anchors' : x \in anchors \/ SoleKey(x[1])
    <3>1. CASE UNCHANGED anchors
      BY <3>1
    <3>2. ASSUME NEW call \in straggling, NEW a \in Anchor, Issues(call, a)
          PROVE  \A x \in anchors' : x \in anchors \/ SoleKey(x[1])
      BY <3>2 DEF Issues, IInv, AskedForSole
    <3> QED BY <3>1, <3>2 DEF StragglerArrives, RecordsChange
  <2>3. \A x \in anchors' : SoleKey(x[1])
    BY <2>2 DEF IInv, AskedForSole
  <2>4. \A call \in straggling' : SoleKey(call.key)
    BY <1>4 DEF IInv, AskedForSole
  <2> HIDE DEF SoleKey
  <2> QED BY <2>1, <2>3, <2>4 DEF AskedForSole
<1>5. TypeOK' /\ ExchangeKnown'
  BY <1>1, <1>2, <1>3, <1>4 DEF IInv, TypeOK, ExchangeKnown
<1>6. AwaitsInFlight' /\ ComingIsNew' /\ AskedWhileServed'
  BY <1>1 DEF IInv, AwaitsInFlight, ComingIsNew, AskedWhileServed, Receives
<1>7. MatchWasSole' /\ LinkedFromSole'
  BY <1>1, <1>2 DEF IInv, MatchWasSole, LinkedFromSole, Receives
<1>8. LinkageHeld'
  BY <1>1, <1>3 DEF IInv, LinkageHeld, Receives, IdempotencyKey
<1> QED BY <1>3, <1>5, <1>6, <1>7, <1>8, <1>9 DEF IInv

\* Nothing happens.
LEMMA StutterKeeps ==
    ASSUME IInv, UNCHANGED vars
    PROVE  IInv'
<1>1. UNCHANGED <<cache, inFlight, exchange, age, expiresIn, left, req, records, anchors,
                  straggling, everSole, delivered>>
  BY DEF vars, provider, exchanges, authority, history
<1>2. TypeOK' /\ ExchangeKnown' /\ AwaitsInFlight' /\ ComingIsNew'
  BY <1>1 DEF IInv, TypeOK, ExchangeKnown, AwaitsInFlight, ComingIsNew
<1>3. MatchWasSole' /\ AskedWhileServed'
  BY <1>1 DEF IInv, MatchWasSole, AskedWhileServed, Receives
<1>4. AnchorsPaired' /\ LinkageHeld' /\ LinkedFromSole'
  BY <1>1 DEF IInv, AnchorsPaired, LinkageHeld, LinkedFromSole, Receives, IdempotencyKey
<1>6. AskedForSole'
  BY <1>1, AskedForSoleStays DEF IInv, AskedForSole
<1> QED BY <1>2, <1>3, <1>4, <1>6 DEF IInv

\* Every step keeps the invariant.
LEMMA NextIInv == IInv /\ [Next]_vars => IInv'
<1> SUFFICES ASSUME IInv, [Next]_vars PROVE IInv'
  OBVIOUS
<1>1. CASE Next
  <2>1. ASSUME NEW r \in Request, NEW c, NEW s, s \in Serving, Goes(r, s, c)
        PROVE  IInv'
    BY <2>1, GoesKeeps
  <2>2. ASSUME NEW r \in Request, NEW o \in Outcomes, Stops(r, o)
        PROVE  IInv'
    BY <2>2, StopsKeeps
  <2>3. ASSUME NEW r \in Request, AuthorityReplies(r)
        PROVE  IInv'
    BY <2>3, RepliesKeeps
  <2>4. ASSUME NEW t \in Token, TokenAcquired(t) \/ TokenFails(t) \/ IdP(t)
        PROVE  IInv'
    BY <2>4, AcquiredKeeps, FailedKeeps, TimeKeeps
  <2> QED BY <1>1, <2>1, <2>2, <2>3, <2>4, NextCases, AuthorityKeeps, TimeKeeps, RestartKeeps
<1>2. CASE UNCHANGED vars
  BY <1>2, StutterKeeps
<1> QED BY <1>1, <1>2

\* The invariant holds in every reachable state.
THEOREM Invariance == Spec => []IInv
BY InitIInv, NextIInv, PTL DEF Spec

\* Every variable of the provider, of resolve() and of the services around keeps its type.
THEOREM TypeCorrect == Spec => []TypeOK
<1>1. IInv => TypeOK
  BY DEF IInv
<1> QED BY <1>1, Invariance, PTL

\* Requests that share the provider share the exchange: at most one is out.
THEOREM OneExchangeOut == Spec => []OneExchange
<1>1. IInv => OneExchange
  BY OutIsInFlight DEF OneExchange, Outstanding
<1> QED BY <1>1, Invariance, PTL

\* A credential of the Authority, read back, is of a record that was the only match.
LEMMA RegisteredIsSole ==
    ASSUME IInv, NEW x \in anchors
    PROVE  /\ Registered(x) \in Linkages
           /\ x[1] = <<Registered(x).profile, Registered(x).osid, Registered(x).subject>>
           /\ x[2] = Registered(x).anchor
           /\ <<Registered(x).subject, Registered(x).osid>> \in everSole
<1>1. PICK p \in Profile, o \in Osid, s \in Subject : x[1] = <<p, o, s>> /\ <<s, o>> \in everSole
  BY DEF IInv, AskedForSole, SoleKey
<1>2. x[2] \in Anchor
  BY DEF IInv, TypeOK
<1>3. Registered(x) = [subject |-> s, osid |-> o, profile |-> p, anchor |-> x[2]]
  BY <1>1 DEF Registered
<1> QED BY <1>1, <1>2, <1>3 DEF Linkages

\* Nothing is issued from a record that was never the only match.
THEOREM IssuedFromSoleMatch == Spec => []SoleMatchIssued
<1>1. IInv => SoleMatchIssued
  BY RegisteredIsSole DEF IInv, LinkedFromSole, SoleMatchIssued
<1> QED BY <1>1, Invariance, PTL

\* However often and late the Authority is asked, one credential there per profile, record
\* and subject.
THEOREM OneAnchorEach == Spec => []OneAnchor
<1>1. IInv => OneAnchor
  <2> SUFFICES ASSUME IInv, NEW d \in delivered, NEW e \in delivered
               PROVE  (d.anchor = e.anchor) <=>
                        (d.profile = e.profile /\ d.osid = e.osid /\ d.subject = e.subject)
    BY DEF OneAnchor
  <2> DEFINE x == <<<<d.profile, d.osid, d.subject>>, d.anchor>>
             y == <<<<e.profile, e.osid, e.subject>>, e.anchor>>
  <2>1. x \in anchors /\ y \in anchors
    BY DEF IInv, LinkageHeld
  <2>2. x[1] = y[1] <=> x[2] = y[2]
    BY <2>1 DEF IInv, AnchorsPaired
  <2> QED BY <2>2
<1> QED BY <1>1, Invariance, PTL

-----------------------------------------------------------------------------
\* A call goes out with the cached token, and is then no retry, or when the token has come.
LEMMA GoesOutCases ==
    ASSUME IInv, Next, NEW r \in Request, GoesOut(r)
    PROVE  \/ /\ Offers(cache) /\ req'[r].held = cache.token /\ ~req'[r].retried
              /\ left' = left
           \/ \E t \in Token : TokenAcquired(t) /\ req'[r].held = t
<1>0. req \in [Request -> Serving]
  BY DEF IInv, TypeOK
<1>1. ASSUME NEW p \in Request, NEW c, NEW s, s \in Serving, Goes(p, s, c)
      PROVE  Offers(cache) /\ req'[r].held = cache.token /\ ~req'[r].retried /\ left' = left
  <2>1. p = r /\ req'[r] = s /\ s.pc = "sent"
    BY <1>0, <1>1 DEF Goes, Becomes, GoesOut
  <2>2. Offers(c) /\ s.held = c.token /\ ~s.retried /\ UNCHANGED exchanges
    BY <1>1, <2>1 DEF Goes
  <2>3. c = cache
    BY <1>1, <2>2 DEF Goes, Offers, Empty
  <2> QED BY <2>1, <2>2, <2>3 DEF exchanges
<1>2. ASSUME NEW p \in Request, NEW o \in Outcomes, Stops(p, o)
      PROVE  FALSE
  <2>1. Ended(o).pc = "idle"
    BY EndedFields DEF Outcomes
  <2>2. req' = [req EXCEPT ![p] = Ended(o)]
    BY <1>2 DEF Stops, Finishes
  <2> HIDE DEF Ended
  <2> QED BY <1>0, <2>1, <2>2 DEF GoesOut
<1>3. ASSUME NEW p \in Request, AuthorityReplies(p)
      PROVE  FALSE
  <2>1. PICK kind, rows, a : Answers(p, kind, rows, a)
    BY <1>3 DEF AuthorityReplies
  <2>2. req'[r].pc = "answered" \/ req'[r] = req[r]
    BY <1>0, <2>1 DEF Answers, Serving
  <2> QED BY <2>2 DEF GoesOut
<1>4. ASSUME NEW t \in Token, TokenAcquired(t)
      PROVE  req'[r].held = t
  <2>1. req[r].waitsFor = t
    BY <1>4 DEF TokenAcquired, GoesOut
  <2>2. req'[r] = Supplied(req[r], t)
    BY <1>4, <2>1 DEF TokenAcquired, Supplied
  <2> QED BY <1>0, <2>2, WithToken
<1>5. ASSUME NEW t \in Token, TokenFails(t)
      PROVE  FALSE
  <2>1. Ended("error").pc = "idle"
    BY EndedFields
  <2>2. req'[r] = Ended("error") \/ req'[r] = req[r]
    BY <1>5 DEF TokenFails
  <2> HIDE DEF Ended
  <2> QED BY <2>1, <2>2 DEF GoesOut
<1>6. ~Restart
  <2>1. Ended("none").pc = "idle"
    BY EndedFields
  <2>2. Restart => req'[r] = Ended("none")
    BY DEF Restart
  <2> HIDE DEF Ended
  <2> QED BY <2>1, <2>2 DEF GoesOut
<1>7. UNCHANGED req => FALSE
  BY DEF GoesOut
<1> QED BY <1>1, <1>2, <1>3, <1>4, <1>5, <1>6, <1>7, NextCases
        DEF IdP, Tick, StragglerArrives, RecordsChange

\* A retry never carries the token that was refused, whatever other requests do meanwhile.
THEOREM RetryDiffers == Spec => RetryWithAnother
<1>1. IInv /\ [Next]_vars => [RetriesChangeToken]_vars
  <2> SUFFICES ASSUME IInv, Next, NEW r \in Request, GoesOut(r), req'[r].retried
               PROVE  req'[r].held # req[r].held
    BY DEF RetriesChangeToken
  <2>1. PICK t \in Token : TokenAcquired(t) /\ req'[r].held = t
    BY GoesOutCases
  <2>2. exchange[t] # "none"
    BY <2>1 DEF TokenAcquired, Acquires
  <2>3. t = inFlight /\ t # NoToken
    BY <2>2, OutIsInFlight
  <2> QED BY <2>1, <2>3 DEF IInv, ComingIsNew
<1> QED BY <1>1, Invariance, PTL DEF Spec, RetryWithAnother

-----------------------------------------------------------------------------
\* The three parts of what a served request has left: calls after this one, a retry, and the
\* steps of this call.
CallsAfter(q) == IF q.stage = "profile" THEN 2 ELSE IF q.stage = "search" THEN 1 ELSE 0
RetryLeft(q) == IF q.retried THEN 0 ELSE 1
OfThisCall(q) == IF q.pc = "awaiting" THEN 3 ELSE IF q.pc = "sent" THEN 2 ELSE 1

\* What a served request has left, by its parts.
LEMMA StepsLeftIs ==
    ASSUME NEW q \in Serving
    PROVE  /\ q.pc = "idle" => StepsLeft(q) = 0
           /\ q.pc # "idle" =>
                StepsLeft(q) = 6 * CallsAfter(q) + 3 * RetryLeft(q) + OfThisCall(q)
           /\ CallsAfter(q) \in 0 .. 2 /\ RetryLeft(q) \in 0 .. 1 /\ OfThisCall(q) \in 1 .. 3
<1>1. /\ q.pc \in {"idle", "awaiting", "sent", "answered"}
      /\ q.stage \in {"profile", "search", "issue"} /\ q.retried \in BOOLEAN
  BY ServingFields
<1>2. [profile |-> 2, search |-> 1, issue |-> 0][q.stage] = CallsAfter(q)
  BY <1>1 DEF CallsAfter
<1>3. q.pc # "idle" => [awaiting |-> 3, sent |-> 2, answered |-> 1][q.pc] = OfThisCall(q)
  BY <1>1 DEF OfThisCall
<1>4. (IF q.retried THEN 0 ELSE 3) = 3 * RetryLeft(q)
  BY DEF RetryLeft
<1>5. CallsAfter(q) \in 0 .. 2 /\ RetryLeft(q) \in 0 .. 1 /\ OfThisCall(q) \in 1 .. 3
  BY DEF CallsAfter, RetryLeft, OfThisCall
<1> QED BY <1>2, <1>3, <1>4, <1>5 DEF StepsLeft

\* How a served request p goes on as q, unless it ends: to the same call again or to the next,
\* or on within its call.
Moves(p, q) ==
    \/ /\ p.pc = "answered" /\ q.pc \in {"awaiting", "sent"}
       /\ \/ q.stage = p.stage /\ q.retried /\ ~p.retried
          \/ <<p.stage, q.stage>> \in {<<"profile", "search">>, <<"search", "issue">>}
    \/ /\ <<p.pc, q.pc>> \in {<<"sent", "answered">>, <<"awaiting", "sent">>}
       /\ q.stage = p.stage /\ q.retried = p.retried

\* Each such step, and each end, leaves less to do.
LEMMA MoveLessens ==
    ASSUME NEW p \in Serving, NEW q \in Serving, p.pc # "idle", q.pc = "idle" \/ Moves(p, q)
    PROVE  StepsLeft(q) < StepsLeft(p)
<1>2. /\ StepsLeft(p) = 6 * CallsAfter(p) + 3 * RetryLeft(p) + OfThisCall(p)
      /\ CallsAfter(p) \in 0 .. 2 /\ RetryLeft(p) \in 0 .. 1 /\ OfThisCall(p) \in 1 .. 3
  BY StepsLeftIs
<1>3. CASE q.pc = "idle"
  BY <1>2, <1>3, StepsLeftIs
<1>4. CASE q.pc # "idle"
  <2>1. /\ StepsLeft(q) = 6 * CallsAfter(q) + 3 * RetryLeft(q) + OfThisCall(q)
        /\ CallsAfter(q) \in 0 .. 2 /\ RetryLeft(q) \in 0 .. 1 /\ OfThisCall(q) \in 1 .. 3
    BY <1>4, StepsLeftIs
  <2>2. CASE q.stage = p.stage /\ q.retried /\ ~p.retried
    <3>1. CallsAfter(q) = CallsAfter(p) /\ RetryLeft(q) = 0 /\ RetryLeft(p) = 1
      BY <2>2 DEF CallsAfter, RetryLeft
    <3> QED BY <1>2, <2>1, <3>1
  <2>3. CASE <<p.stage, q.stage>> \in {<<"profile", "search">>, <<"search", "issue">>}
    <3>1. CallsAfter(p) = CallsAfter(q) + 1 /\ OfThisCall(p) >= 1
      BY <1>2, <2>3 DEF CallsAfter
    <3>2. 3 * RetryLeft(q) + OfThisCall(q) <= 6
      BY <2>1
    <3> QED BY <1>2, <2>1, <2>3, <3>1, <3>2
  <2>4. CASE /\ <<p.pc, q.pc>> \in {<<"sent", "answered">>, <<"awaiting", "sent">>}
             /\ q.stage = p.stage /\ q.retried = p.retried
    <3>1. CallsAfter(q) = CallsAfter(p) /\ RetryLeft(q) = RetryLeft(p)
          /\ OfThisCall(q) < OfThisCall(p)
      BY <2>4 DEF CallsAfter, RetryLeft, OfThisCall
    <3> QED BY <1>2, <2>1, <3>1
  <2> QED BY <1>4, <2>2, <2>3, <2>4 DEF Moves
<1> QED BY <1>3, <1>4

\* What happens to a request that is being served.
LEMMA ServedCases ==
    ASSUME IInv, Next, NEW r \in Request, req[r].pc # "idle", req'[r] # req[r]
    PROVE  /\ req[r] \in Serving /\ req'[r] \in Serving
           /\ req'[r].pc = "idle" \/ Moves(req[r], req'[r])
<1>0. req \in [Request -> Serving] /\ req' \in [Request -> Serving]
  BY NextIInv DEF IInv, TypeOK
<1>1. ASSUME NEW p \in Request, NEW c, NEW s, s \in Serving, Goes(p, s, c)
      PROVE  Moves(req[r], req'[r])
  <2>1. p = r /\ req'[r] = s
    BY <1>0, <1>1 DEF Goes, Becomes
  <2> QED BY <1>1, <2>1 DEF Goes, Moves
<1>2. ASSUME NEW p \in Request, NEW o \in Outcomes, Stops(p, o)
      PROVE  req'[r].pc = "idle"
  <2>1. Ended(o).pc = "idle"
    BY EndedFields DEF Outcomes
  <2>2. req' = [req EXCEPT ![p] = Ended(o)]
    BY <1>2 DEF Stops, Finishes
  <2> HIDE DEF Ended
  <2> QED BY <1>0, <2>1, <2>2
<1>3. ASSUME NEW p \in Request, AuthorityReplies(p)
      PROVE  Moves(req[r], req'[r])
  <2>1. req[p].pc = "sent" /\ \E kind, rows, a : Answers(p, kind, rows, a)
    BY <1>3 DEF AuthorityReplies
  <2>2. PICK kind, rows, a : Answers(p, kind, rows, a)
    BY <2>1
  <2>3. p = r
    BY <1>0, <2>2 DEF Answers
  <2> QED BY <1>0, <2>1, <2>2, <2>3 DEF Answers, Serving, Moves
<1>4. ASSUME NEW t \in Token, TokenAcquired(t)
      PROVE  Moves(req[r], req'[r])
  <2>1. req[r].waitsFor = t
    BY <1>4 DEF TokenAcquired
  <2>2. req'[r] = Supplied(req[r], t)
    BY <1>4, <2>1 DEF TokenAcquired, Supplied
  <2>3. req[r].pc = "awaiting"
    BY <2>1, TokensAssumption DEF IInv, AwaitsInFlight
  <2> QED BY <1>0, <2>2, <2>3, WithToken DEF Moves
<1>5. ASSUME NEW t \in Token, TokenFails(t)
      PROVE  req'[r].pc = "idle"
  <2>1. Ended("error").pc = "idle"
    BY EndedFields
  <2>2. req'[r] = Ended("error")
    BY <1>5 DEF TokenFails
  <2> HIDE DEF Ended
  <2> QED BY <2>1, <2>2
<1>6. ASSUME Restart
      PROVE  req'[r].pc = "idle"
  <2>1. Ended("none").pc = "idle"
    BY EndedFields
  <2>2. req'[r] = Ended("none")
    BY <1>6 DEF Restart
  <2> HIDE DEF Ended
  <2> QED BY <2>1, <2>2
<1> QED BY <1>0, <1>1, <1>2, <1>3, <1>4, <1>5, <1>6, NextCases
        DEF IdP, Tick, StragglerArrives, RecordsChange

\* Every step of a request brings it nearer its end.
THEOREM RequestsOnlyAdvance == Spec => Advances
<1>1. IInv /\ [Next]_vars => [RequestsAdvance]_vars
  <2> SUFFICES ASSUME IInv, Next, NEW r \in Request, req[r].pc # "idle", req'[r] # req[r]
               PROVE  StepsLeft(req'[r]) < StepsLeft(req[r])
    BY DEF RequestsAdvance
  <2>1. StepsLeft(req'[r]) < StepsLeft(req[r])
    BY ServedCases, MoveLessens DEF Moves
  <2> QED BY <2>1
<1> QED BY <1>1, Invariance, PTL DEF Spec, Advances

-----------------------------------------------------------------------------
\* The renewal margin covers the longest exchange, for every lifetime the IdP grants; and
\* where it may tell none, what the provider assumes covers it as well.
MarginCovers ==
    /\ \A l \in Lifetime : ExchangeTimeout <= Margin(l)
    /\ \A l \in Untold : AssumedLifetime - Margin(AssumedLifetime) + ExchangeTimeout <= l

\* A token arrives with more time left than it will be offered for.
LEMMA ArrivesInTime ==
    ASSUME MarginCovers, IInv, OfferedInTime, NEW t \in Token, exchange[t] = "minted"
    PROVE  /\ OfferedFor(expiresIn[t]) <= left[t]
           /\ left[t] > 0
<1> DEFINE e == expiresIn[t]
<1>1. PICK l \in Lifetime : e \in Told(l) /\ l <= left[t] + age[t]
  BY DEF OfferedInTime
<1>2. l \in Nat \ {0} /\ e \in Nat /\ ExchangeTimeout \in Nat
  BY <1>1, TokensAssumption DEF Told
<1>3. left[t] \in Nat /\ age[t] \in Nat /\ age[t] <= ExchangeTimeout
  BY <1>2 DEF IInv, TypeOK
<1> HIDE DEF e
<1>4. OfferedFor(e) \in Nat \ {0} /\ OfferedFor(e) + ExchangeTimeout <= l
  <2>1. OfferedFor(e) \in Nat \ {0}
    BY <1>2, OfferedSome
  <2>2. CASE e > 0
    <3>1. e = l /\ OfferedFor(e) = l - Margin(l) /\ ExchangeTimeout <= Margin(l)
      BY <1>1, <1>2, <2>2, OfferedSome DEF Told, MarginCovers
    <3>2. Margin(l) \in Int
      BY <1>2, TokensAssumption DEF Margin
    <3> QED BY <1>2, <2>1, <3>1, <3>2
  <2>3. CASE e = 0
    <3>1. l \in Untold /\ OfferedFor(e) = AssumedLifetime - Margin(AssumedLifetime)
      BY <1>1, <1>2, <2>3, OfferedSome DEF Told
    <3> QED BY <2>1, <3>1 DEF MarginCovers
  <2> QED BY <1>2, <2>2, <2>3
<1> QED BY <1>1, <1>2, <1>3, <1>4 DEF e

\* While the margin covers the exchange, every step keeps what is offered in time.
LEMMA InTimeStep ==
    ASSUME MarginCovers, IInv, OfferedInTime, [Next]_vars
    PROVE  OfferedInTime'
<1>0. TokenTypes /\ NoToken \notin Token
  BY TokensAssumption DEF IInv, TypeOK, TokenTypes
<1>u. UNCHANGED <<cache, exchange, age, expiresIn, left>> => OfferedInTime'
  BY DEF OfferedInTime
<1>1. ASSUME NEW r \in Request, NEW c, NEW s, s \in Serving, Goes(r, s, c)
      PROVE  OfferedInTime'
  <2>1. cache' \in {cache, Empty} /\ Empty.token = NoToken
    BY <1>1 DEF Goes, Empty
  <2>2. CASE UNCHANGED exchanges
    BY <2>1, <2>2 DEF OfferedInTime, exchanges
  <2>3. CASE ~Shared /\ Joins(s.waitsFor, InUse) /\ s.waitsFor \in Token
    <3> DEFINE t == s.waitsFor
    <3>1. /\ t \in Token /\ t # cache.token
          /\ exchange' = [exchange EXCEPT ![t] = "requested"]
          /\ age' = [age EXCEPT ![t] = 0]
          /\ left' = [left EXCEPT ![t] = 0]
          /\ expiresIn' = expiresIn
      BY <2>3 DEF Joins
    <3> HIDE DEF t
    <3> QED BY <1>0, <2>1, <3>1 DEF OfferedInTime, TokenTypes
  <2> QED BY <1>1, <2>2, <2>3 DEF Goes, Joins
<1>2. ASSUME NEW r \in Request, NEW o \in Outcomes, Stops(r, o)
      PROVE  OfferedInTime'
  BY <1>2, <1>u DEF Stops, Finishes, provider, exchanges
<1>3. ASSUME NEW r \in Request, AuthorityReplies(r)
      PROVE  OfferedInTime'
  BY <1>3, <1>u DEF AuthorityReplies, provider, exchanges
<1>4. ASSUME NEW t \in Token, TokenAcquired(t)
      PROVE  OfferedInTime'
  <2>1. exchange[t] = "minted" /\ Ends(t)
        /\ cache' = [token |-> t, offeredFor |-> OfferedFor(expiresIn[t])]
    BY <1>4 DEF TokenAcquired, Acquires
  <2>2. cache'.offeredFor <= left[t]
    BY <2>1, ArrivesInTime
  <2> QED BY <1>0, <2>1, <2>2 DEF OfferedInTime, Ends, TokenTypes
<1>5. ASSUME NEW t \in Token, TokenFails(t)
      PROVE  OfferedInTime'
  BY <1>0, <1>5 DEF TokenFails, Fails, Ends, OfferedInTime, TokenTypes
<1>6. ASSUME NEW t \in Token, IdP(t)
      PROVE  OfferedInTime'
  <2>1. PICK l \in Lifetime, e \in Lifetime \cup {0} :
            /\ e \in Told(l) /\ expiresIn' = [expiresIn EXCEPT ![t] = e]
            /\ left' = [left EXCEPT ![t] = l]
            /\ exchange' = [exchange EXCEPT ![t] = "minted"]
            /\ exchange[t] = "requested"
            /\ UNCHANGED <<cache, inFlight, age>>
    BY <1>6 DEF IdP, Mints, Told, provider
  <2>2. l \in Nat /\ age[t] \in Nat
    BY <1>0, TokensAssumption DEF TokenTypes
  <2>3. t # cache.token
    BY <2>1, OutIsInFlight DEF IInv, ComingIsNew
  <2> QED BY <1>0, <2>1, <2>2, <2>3 DEF OfferedInTime, TokenTypes
<1>7. ASSUME Tick
      PROVE  OfferedInTime'
  <2>1. /\ cache'.token = cache.token /\ cache'.offeredFor = Less(cache.offeredFor)
        /\ left' = [t \in Token |-> Less(left[t])]
        /\ age' = [t \in Token |-> IF exchange[t] = "none" THEN 0 ELSE age[t] + 1]
        /\ UNCHANGED <<exchange, expiresIn>>
    BY <1>0, <1>7 DEF Tick, TokensTick, TokenTypes
  <2>2. cache.offeredFor \in Nat /\ cache.token \in Token \cup {NoToken}
        /\ \A t \in Token : left[t] \in Nat /\ age[t] \in Nat
    BY <1>0 DEF TokenTypes
  <2>3. cache'.token # NoToken => cache'.offeredFor <= left'[cache'.token]
    BY <2>1, <2>2 DEF OfferedInTime, Less
  <2>4. ASSUME NEW t \in Token, exchange'[t] = "minted"
        PROVE  \E l \in Lifetime : expiresIn'[t] \in Told(l) /\ l <= left'[t] + age'[t]
    <3>1. PICK l \in Lifetime : expiresIn[t] \in Told(l) /\ l <= left[t] + age[t]
      BY <2>1, <2>4 DEF OfferedInTime
    <3>2. l \in Nat /\ l <= left'[t] + age'[t]
      BY <2>1, <2>2, <2>4, <3>1, TokensAssumption DEF Less
    <3> QED BY <2>1, <3>1, <3>2
  <2> QED BY <2>3, <2>4 DEF OfferedInTime
<1>8. ASSUME Restart
      PROVE  OfferedInTime'
  BY <1>8 DEF Restart, TokensLost, OfferedInTime, Empty
<1>9. CASE UNCHANGED vars
  BY <1>9, <1>u DEF vars, provider, exchanges
<1> QED BY <1>1, <1>2, <1>3, <1>4, <1>5, <1>6, <1>7, <1>8, <1>9, <1>u, NextCases
        DEF StragglerArrives, RecordsChange, provider, exchanges

\* While the margin covers the longest exchange, and a lifetime the provider has to assume
\* fits the one the IdP grants, no call carries a token that is over.
THEOREM FreshWhenMarginCovers == MarginCovers => (Spec => SentFresh)
<1> SUFFICES ASSUME MarginCovers
             PROVE  Spec => SentFresh
  OBVIOUS
<1>1. Init => OfferedInTime
  BY DEF Init, TokensInit, Empty, OfferedInTime
<1>2. IInv /\ OfferedInTime /\ [Next]_vars => OfferedInTime'
  BY InTimeStep
<1>3. IInv /\ OfferedInTime /\ [Next]_vars => [FreshTokensSent]_vars
  <2> SUFFICES ASSUME IInv, OfferedInTime, Next, NEW r \in Request, GoesOut(r)
               PROVE  left'[req'[r].held] > 0
    BY DEF FreshTokensSent
  <2>0. TokenTypes /\ NoToken \notin Token
    BY TokensAssumption DEF IInv, TypeOK, TokenTypes
  <2>1. CASE Offers(cache) /\ req'[r].held = cache.token /\ left' = left
    BY <2>0, <2>1 DEF Offers, OfferedInTime, TokenTypes
  <2>2. ASSUME NEW t \in Token, TokenAcquired(t), req'[r].held = t
        PROVE  left'[req'[r].held] > 0
    <3>1. exchange[t] = "minted" /\ left' = left
      BY <2>2 DEF TokenAcquired, Acquires, Ends
    <3> QED BY <2>2, <3>1, ArrivesInTime
  <2> QED BY <2>1, <2>2, GoesOutCases
<1> QED BY <1>1, <1>2, <1>3, Invariance, PTL DEF Spec, SentFresh

-----------------------------------------------------------------------------
\* A step that changes nothing the promise speaks of is a stutter of it.
LEMMA PromiseStutters ==
    ASSUME UNCHANGED <<Asking, everSole, anchors, delivered>>
    PROVE  UNCHANGED Promise!vars
BY DEF Promise!vars, AllRegistered

\* The promise and this module name the same records.
LEMMA SameRecords == Promise!Linkage = Linkages /\ Promise!Ask = Ask
BY DEF Promise!Linkage, Promise!Ask, Linkages, Ask

\* An issue call the Authority executes registers a credential, or finds it there.
LEMMA IssuesRegisters ==
    ASSUME IInv, NEW call, SoleKey(call.key), NEW a \in Anchor, Issues(call, a),
           UNCHANGED <<Asking, everSole, delivered>>
    PROVE  [Promise!Next]_(Promise!vars)
<1>1. CASE <<call.key, a>> \in anchors
  <2>1. UNCHANGED anchors
    BY <1>1 DEF Issues
  <2> QED BY <2>1, PromiseStutters
<1>2. CASE \A x \in anchors : x[1] # call.key /\ x[2] # a
  <2> DEFINE l == Registered(<<call.key, a>>)
  <2>1. PICK p \in Profile, o \in Osid, s \in Subject :
            call.key = <<p, o, s>> /\ <<s, o>> \in everSole
    BY DEF SoleKey
  <2>2. l = [subject |-> s, osid |-> o, profile |-> p, anchor |-> a]
    BY <2>1 DEF Registered
  <2>3. l \in Promise!Linkage /\ <<l.subject, l.osid>> \in everSole
        /\ l.anchor = a /\ <<l.profile, l.osid, l.subject>> = call.key
    BY <2>1, <2>2 DEF Promise!Linkage
  <2>4. AllRegistered' = AllRegistered \cup {l}
    <3>1. anchors' = anchors \cup {<<call.key, a>>}
      BY DEF Issues
    <3> HIDE DEF l
    <3>2. \A x : Registered(x)' = Registered(x)
      BY DEF Registered
    <3>3. l = Registered(<<call.key, a>>)
      BY DEF l
    <3> QED BY <3>1, <3>3 DEF AllRegistered, Registered
  <2> HIDE DEF l
  <2>5. ASSUME NEW k \in AllRegistered
        PROVE  k.anchor # l.anchor
               /\ <<k.profile, k.osid, k.subject>> # <<l.profile, l.osid, l.subject>>
    <3>1. PICK x \in anchors : k = Registered(x)
      BY DEF AllRegistered
    <3>2. x[1] = <<k.profile, k.osid, k.subject>> /\ x[2] = k.anchor
      BY <3>1, RegisteredIsSole
    <3> QED BY <1>2, <2>3, <3>2
  <2>6. Promise!Registers(l)
    BY <2>3, <2>4, <2>5 DEF Promise!Registers
  <2> QED BY <2>3, <2>6 DEF Promise!Next
<1> QED BY <1>1, <1>2 DEF Issues

\* A request that goes on to a call has just asked, or asks the promise nothing new.
LEMMA GoesAsks ==
    ASSUME IInv, NEW r \in Request, NEW c, NEW s \in Serving, Goes(r, s, c)
    PROVE  [Promise!Next]_(Promise!vars)
<1>1. /\ req' = [req EXCEPT ![r] = s] /\ req \in [Request -> Serving]
      /\ UNCHANGED <<everSole, anchors, delivered>> /\ s.asked \in Ask
  BY DEF Goes, Becomes, IInv, TypeOK, NotAuthority, authority, history
<1>2. CASE req[r].pc = "idle"
  <2>1. Asking[r] = NoAsk
    BY <1>2 DEF Asking, IInv, AskedWhileServed
  <2>2. Asking' = [Asking EXCEPT ![r] = s.asked]
    BY <1>1 DEF Asking
  <2>3. UNCHANGED AllRegistered
    BY <1>1 DEF AllRegistered
  <2>4. Promise!Asks(r, s.asked)
    BY <1>1, <2>1, <2>2, <2>3 DEF Promise!Asks
  <2> QED BY <1>1, <2>4, SameRecords DEF Promise!Next
<1>3. CASE s.asked = req[r].asked
  <2>1. UNCHANGED Asking
    BY <1>1, <1>3 DEF Asking
  <2> QED BY <1>1, <2>1, PromiseStutters
<1> QED BY <1>2, <1>3 DEF Goes

\* A request that ends is handed the Authority's credential it asked for, or gives up.
LEMMA StopsHands ==
    ASSUME IInv, NEW r \in Request, NEW o \in Outcomes, Stops(r, o)
    PROVE  [Promise!Next]_(Promise!vars)
<1>0. Ended(o).asked = NoAsk
  BY EndedFields DEF Outcomes
<1>1. /\ req' = [req EXCEPT ![r] = Ended(o)] /\ req \in [Request -> Serving]
      /\ UNCHANGED <<everSole, anchors>> /\ LeavesSound
  BY DEF Stops, Finishes, LeavesSound, IInv, TypeOK
<1> HIDE DEF Ended
<1>2. Asking' = [Asking EXCEPT ![r] = NoAsk]
  BY <1>0, <1>1 DEF Asking
<1>3. UNCHANGED AllRegistered
  BY <1>1 DEF AllRegistered
<1>4. CASE delivered' = delivered
  <2>1. Asking' = [p \in Request |-> IF p \in {r} THEN NoAsk ELSE Asking[p]]
    BY <1>2 DEF Asking
  <2>2. Promise!GiveUp({r})
    BY <1>1, <1>3, <1>4, <2>1 DEF Promise!GiveUp
  <2> QED BY <2>2 DEF Promise!Next
<1>5. ASSUME NEW l \in Linkages, req[r].asked = [subject |-> l.subject, profile |-> l.profile],
             delivered' = delivered \cup {l}
      PROVE  [Promise!Next]_(Promise!vars)
  <2>1. <<<<l.profile, l.osid, l.subject>>, l.anchor>> \in anchors
    BY <1>1, <1>5 DEF LeavesSound
  <2>2. Registered(<<<<l.profile, l.osid, l.subject>>, l.anchor>>) = l
    BY DEF Registered, Linkages
  <2>3. l \in AllRegistered
    BY <2>1, <2>2 DEF AllRegistered
  <2>4. Asking[r] = [subject |-> l.subject, profile |-> l.profile]
    BY <1>5 DEF Asking
  <2>5. Promise!Hands(r, l)
    BY <1>1, <1>2, <1>3, <1>5, <2>3, <2>4 DEF Promise!Hands
  <2> QED BY <2>5, SameRecords DEF Promise!Next
<1> QED BY <1>4, <1>5 DEF Stops, HandsOn

\* What issuing through the Authority promises: one credential per profile, record and
\* subject, of a record that was the only match, handed at most once to a request for it.
THEOREM Implements == Spec => KeepsPromise
<1>1. Init => Promise!Init
  <2> SUFFICES ASSUME Init PROVE Promise!Init
    OBVIOUS
  <2>1. Ended("none").asked = NoAsk
    BY EndedFields
  <2>2. Asking = [r \in Request |-> NoAsk]
    <3> HIDE DEF Ended
    <3> QED BY <2>1 DEF Init, Asking
  <2> QED BY <2>2 DEF Init, Promise!Init, AllRegistered
<1>2. IInv /\ [Next]_vars => [Promise!Next]_(Promise!vars)
  <2> SUFFICES ASSUME IInv, [Next]_vars PROVE [Promise!Next]_(Promise!vars)
    OBVIOUS
  <2>1. ASSUME NEW r \in Request, NEW c, NEW s, s \in Serving, Goes(r, s, c)
        PROVE  [Promise!Next]_(Promise!vars)
    BY <2>1, GoesAsks
  <2>2. ASSUME NEW r \in Request, NEW o \in Outcomes, Stops(r, o)
        PROVE  [Promise!Next]_(Promise!vars)
    BY <2>2, StopsHands
  <2>3. ASSUME NEW r \in Request, AuthorityReplies(r)
        PROVE  [Promise!Next]_(Promise!vars)
    <3>1. /\ UNCHANGED <<everSole, delivered>>
          /\ \E kind, rows, a : Answers(r, kind, rows, a)
      BY <2>3 DEF AuthorityReplies, history
    <3>2. UNCHANGED Asking
      BY <3>1 DEF Answers, Asking, IInv, TypeOK, Serving
    <3>3. CASE UNCHANGED anchors
      BY <3>1, <3>2, <3>3, PromiseStutters
    <3>4. ASSUME NEW a \in Anchor, Issues(IssueCall(r), a), req[r].stage = "issue"
          PROVE  [Promise!Next]_(Promise!vars)
      <4>1. SoleKey(IssueCall(r).key)
        BY <2>3, <3>4, IssueKeyIsSole DEF IssueCall, AuthorityReplies
      <4> QED BY <3>1, <3>2, <3>4, <4>1, IssuesRegisters
    <3> QED BY <2>3, <3>3, <3>4 DEF AuthorityReplies
  <2>4. ASSUME NEW t \in Token, TokenAcquired(t)
        PROVE  [Promise!Next]_(Promise!vars)
    <3>1. UNCHANGED <<everSole, anchors, delivered>>
      BY <2>4 DEF TokenAcquired, authority, history
    <3>2. \A r \in Request : req'[r].asked = req[r].asked
      <4> SUFFICES ASSUME NEW r \in Request PROVE req'[r].asked = req[r].asked
        OBVIOUS
      <4>1. req'[r] = Supplied(req[r], t) \/ req'[r] = req[r]
        BY <2>4 DEF TokenAcquired, Supplied
      <4>2. req[r] \in Serving
        BY DEF IInv, TypeOK
      <4> QED BY <4>1, <4>2, WithToken
    <3>3. UNCHANGED Asking
      BY <3>2 DEF Asking
    <3> QED BY <3>1, <3>3, PromiseStutters
  <2>5. ASSUME NEW t \in Token, TokenFails(t)
        PROVE  [Promise!Next]_(Promise!vars)
    <3> DEFINE Q == {r \in Request : req[r].waitsFor = t}
    <3>1. UNCHANGED <<everSole, anchors, delivered>>
      BY <2>5 DEF TokenFails, authority, history
    <3>2. Ended("error").asked = NoAsk
      BY EndedFields
    <3>3. Asking' = [r \in Request |-> IF r \in Q THEN NoAsk ELSE Asking[r]]
      <4> HIDE DEF Ended
      <4> QED BY <2>5, <3>2 DEF TokenFails, Asking
    <3>4. Promise!GiveUp(Q)
      BY <3>1, <3>3 DEF Promise!GiveUp, AllRegistered
    <3> QED BY <3>4 DEF Promise!Next
  <2>6. ASSUME NEW call \in straggling, StragglerArrives(call)
        PROVE  [Promise!Next]_(Promise!vars)
    <3>1. UNCHANGED <<Asking, everSole, delivered>>
      BY <2>6 DEF StragglerArrives, history, Asking
    <3>2. SoleKey(call.key)
      BY DEF IInv, AskedForSole
    <3> QED BY <2>6, <3>1, <3>2, IssuesRegisters, PromiseStutters DEF StragglerArrives
  <2>7. ASSUME NEW s \in Subject, NEW rows \in SUBSET Osid, RecordsChange(s, rows)
        PROVE  [Promise!Next]_(Promise!vars)
    <3>1. /\ UNCHANGED <<Asking, anchors, delivered>>
          /\ everSole' = everSole \cup {<<s, o>> : o \in {o \in Osid : rows = {o}}}
      BY <2>7 DEF RecordsChange, Asking
    <3>2. CASE \E o \in Osid : rows = {o}
      <4>1. PICK o \in Osid : rows = {o}
        BY <3>2
      <4>2. everSole' = everSole \cup {<<s, o>>}
        BY <3>1, <4>1
      <4>3. Promise!Matches(s, o)
        BY <3>1, <4>2 DEF Promise!Matches, AllRegistered
      <4> QED BY <4>3 DEF Promise!Next
    <3>3. CASE ~\E o \in Osid : rows = {o}
      <4>1. UNCHANGED everSole
        BY <3>1, <3>3
      <4> QED BY <3>1, <4>1, PromiseStutters
    <3> QED BY <3>2, <3>3
  <2>8. CASE Restart
    <3>1. UNCHANGED <<everSole, anchors, delivered>>
      BY <2>8 DEF Restart, history
    <3>2. Ended("none").asked = NoAsk
      BY EndedFields
    <3>3. Asking' = [r \in Request |-> IF r \in Request THEN NoAsk ELSE Asking[r]]
      <4> HIDE DEF Ended
      <4> QED BY <2>8, <3>2 DEF Restart, Asking
    <3>4. Promise!GiveUp(Request)
      BY <3>1, <3>3 DEF Promise!GiveUp, AllRegistered
    <3> QED BY <3>4 DEF Promise!Next
  <2>9. CASE Tick \/ (\E t \in Token : IdP(t)) \/ UNCHANGED vars
    <3>1. UNCHANGED <<Asking, everSole, anchors, delivered>>
      BY <2>9 DEF Tick, IdP, vars, authority, history, Asking
    <3> QED BY <3>1, PromiseStutters
  <2> QED BY <2>1, <2>2, <2>3, <2>4, <2>5, <2>6, <2>7, <2>8, <2>9, NextCases
<1> QED BY <1>1, <1>2, Invariance, PTL DEF Spec, KeepsPromise, Promise!Spec

=============================================================================
