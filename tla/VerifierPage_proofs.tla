------------------------- MODULE VerifierPage_proofs --------------------------
(***************************************************************************)
(* What a verification page shows, for any number of sessions and polls.   *)
(* The service's part of a step touches what a poll carries and what is    *)
(* justified; the page's part touches the screen.                          *)
(***************************************************************************)
EXTENDS VerifierPage, PollingClient_proofs

-----------------------------------------------------------------------------
\* What is out is about the session on the page, so about some session.
LEMMA OutKnown ==
    ASSUME IInv
    PROVE  NetworkTypeOK /\ VerdictJustified /\ OutIsAbout
  BY DEF IInv, RequestsAreOwn, TypeOK, OutIsAbout

\* A step of the service preserves the invariant.
LEMMA ServicePreserves ==
    ASSUME IInv, ServiceNext, UNCHANGED page
    PROVE  IInv'
<1>1. ServiceStep
  BY OutKnown, ServiceSteps
<1>2. TypeOK'
  BY <1>1 DEF IInv, TypeOK, ServiceStep, page
<1>3. RequestsAreOwn'
  <2>1. \A c \in Cancel : cancel'[c].stage # "idle" =>
            cancel[c].stage # "idle" /\ cancel'[c].of = cancel[c].of
    BY <1>1 DEF ServiceStep
  <2>2. ASSUME NEW p \in Poll, poll'[p].stage # "idle"
        PROVE  /\ stage = "showing" /\ poll'[p].of = session
               /\ poll'[p].stage = "answered" =>
                    poll'[p].reply \in Reply /\ TrueOf(session, poll[p].reply)'
    <3>1. poll[p].stage # "idle" /\ poll'[p].of = poll[p].of
      BY <1>1, <2>2 DEF ServiceStep, MovesOn
    <3>2. session \in Session /\ poll[p].of = session /\ stage = "showing"
      BY <3>1, OutKnown DEF OutIsAbout, IInv, RequestsAreOwn
    <3>3. CASE poll'[p] = poll[p] /\ poll[p].stage = "answered"
      <4>1. poll[p].reply \in Reply /\ TrueOf(session, poll[p].reply)
        BY <3>3 DEF IInv, RequestsAreOwn
      <4>2. PICK s \in Session, reply \in Reply : s = session /\ reply = poll[p].reply
        BY <3>2, <4>1
      <4>3. TrueOf(s, reply)'
        BY <1>1, <4>1, <4>2, StaysTrue DEF TrueOf
      <4> QED BY <3>1, <3>2, <3>3, <4>1, <4>2, <4>3 DEF TrueOf, page
    <3>4. CASE MovesOn(p)
      BY <3>1, <3>2, <3>4 DEF MovesOn, TrueOf, page
    <3> QED BY <1>1, <3>1, <3>2, <3>3, <3>4 DEF ServiceStep
  <2> QED BY <2>1, <2>2 DEF IInv, RequestsAreOwn, page
<1>4. ShownIsOwn'
  BY <1>1, PollingAssumption
     DEF IInv, TypeOK, NetworkTypeOK, ShownIsOwn, TrueOf, Closing, ServiceStep, page
<1>5. StillAsking'
  BY <1>1 DEF IInv, StillAsking, ServiceStep, page
<1> QED BY <1>1, <1>2, <1>3, <1>4, <1>5 DEF IInv, ServiceStep, page

\* A page that is loaded satisfies it.
LEMMA InitHolds ==
    ASSUME Init
    PROVE  IInv
<1>1. TypeOK
  BY DEF Init, NetworkInit, Service!Init, NotOut, TypeOK, NetworkTypeOK, PollState, CancelState
<1>2. RequestsAreOwn
  BY DEF Init, NetworkInit, NotOut, RequestsAreOwn
<1>3. "none" \notin Verdict
  BY PollingAssumption
<1>4. VerdictJustified
  BY DEF Init, NetworkInit, Service!Init, VerdictJustified
<1> QED BY <1>1, <1>2, <1>3, <1>4 DEF Init, IInv, NetworkInit, ShownIsOwn, StillAsking

\* The page's own steps, and a reload, preserve it.
LEMMA PagePreserves ==
    ASSUME IInv,
           \/ PressStart \/ StartRefused \/ StartLost \/ Reload
           \/ \E s \in Session : Started(s)
           \/ \E p \in Poll : TimerFires(p) \/ PollReturns(p)
           \/ \E c \in Cancel : PressCancel(c) \/ CancelReturns(c)
    PROVE  IInv'
<1>0. TypeOK /\ NetworkTypeOK
  BY DEF IInv, TypeOK
<1>1. ASSUME PressStart \/ StartRefused \/ StartLost
      PROVE  IInv'
  <2>1. /\ UNCHANGED <<service, network, session, cancelLost>>
        /\ stage = "fresh" \/ stage = "starting"
        /\ stage' \in {"fresh", "starting", "stuck"}
        /\ shown' = shown \/ shown' = "notStarted"
        /\ polling' = polling \/ polling' = FALSE
    BY <1>1 DEF PressStart, StartRefused, StartLost, Shows
  <2>2. "notStarted" \notin Verdict
    BY PollingAssumption
  <2>3. TypeOK'
    BY <1>0, <2>1 DEF TypeOK, NetworkTypeOK, service, network
  <2>4. RequestsAreOwn'
    BY <2>1 DEF IInv, RequestsAreOwn, TrueOf, service, network
  <2> QED BY <2>1, <2>2, <2>3, <2>4
          DEF IInv, ShownIsOwn, StillAsking, TrueOf, VerdictJustified, service, network
<1>2. ASSUME NEW s \in Session, Started(s)
      PROVE  IInv'
  <2>1. TypeOK'
    BY <1>0, <1>2 DEF Started, Given, TypeOK, NetworkTypeOK, service
  <2>2. /\ \A p \in Poll : poll[p].stage = "idle"
        /\ \A c \in Cancel : cancel[c].stage = "idle"
    BY <1>2 DEF Started, IInv, RequestsAreOwn
  <2>3. shown \notin Verdict \cup {"expired"}
    BY <1>2, PollingAssumption DEF Started, IInv, ShownIsOwn, TypeOK, NetworkTypeOK
  <2>4. s # NoSession
    BY PollingAssumption
  <2> QED BY <1>2, <2>1, <2>2, <2>3, <2>4
          DEF Started, Given, service, IInv, RequestsAreOwn, ShownIsOwn, StillAsking, VerdictJustified
<1>3. ASSUME NEW p \in Poll, TimerFires(p)
      PROVE  IInv'
  <2>1. stage = "showing" /\ session \in Session
    BY <1>3 DEF TimerFires, IInv, TypeOK
  <2>2. poll' \in [Poll -> PollState]
    BY <1>0, <1>3, <2>1 DEF TimerFires, SendsPoll, Sent, NetworkTypeOK, PollState
  <2>3. TypeOK'
    BY <1>0, <1>3, <2>2 DEF TimerFires, SendsPoll, TypeOK, NetworkTypeOK, service, page
  <2>4. RequestsAreOwn'
    BY <1>0, <1>3, <2>1
       DEF TimerFires, SendsPoll, Sent, NetworkTypeOK, IInv, RequestsAreOwn, TrueOf, service,
           page
  <2> QED BY <1>3, <2>3, <2>4
          DEF TimerFires, SendsPoll, IInv, ShownIsOwn, StillAsking, TrueOf, VerdictJustified, service, page
<1>4. ASSUME NEW p \in Poll, PollReturns(p)
      PROVE  IInv'
  <2>1. /\ stage = "showing" /\ poll[p].reply \in Reply
        /\ session \in given /\ TrueOf(session, poll[p].reply)
    BY <1>4 DEF PollReturns, Receives, IInv, RequestsAreOwn
  <2>2. poll' = [poll EXCEPT ![p] = NotOut] /\ UNCHANGED <<service, given, cancel, stage, session, cancelLost>>
    BY <1>4 DEF PollReturns, Receives
  <2>3. poll' \in [Poll -> PollState]
    BY <1>0, <2>2 DEF NotOut, NetworkTypeOK, PollState
  <2>4. \/ shown' = shown /\ polling' = polling
        \/ shown' = poll[p].reply /\ polling' = FALSE /\ ~Waits(poll[p].reply)
    BY <1>4 DEF PollReturns, AsksAgain, Shows
  <2>5. TypeOK'
    BY <1>0, <2>1, <2>2, <2>3, <2>4 DEF TypeOK, NetworkTypeOK, Waits, Reply, service
  <2>6. RequestsAreOwn'
    BY <1>0, <2>2 DEF NotOut, NetworkTypeOK, IInv, RequestsAreOwn, TrueOf, service
  <2>7. poll[p].reply # "none"
    BY <2>1, PollingAssumption DEF Reply, Closing
  <2>8. ShownIsOwn'
    BY <2>1, <2>2, <2>4 DEF IInv, ShownIsOwn, TrueOf, service
  <2>9. StillAsking'
    BY <2>2, <2>4, <2>7 DEF IInv, StillAsking, service
  <2> QED BY <2>1, <2>2, <2>5, <2>6, <2>8, <2>9 DEF IInv, VerdictJustified, service
<1>5. ASSUME NEW c \in Cancel, PressCancel(c)
      PROVE  IInv'
  <2>1. stage = "showing" /\ session \in Session
    BY <1>5 DEF PressCancel, IInv, TypeOK
  <2>2. cancel' \in [Cancel -> CancelState]
    BY <1>0, <1>5, <2>1 DEF PressCancel, SendsCancel, Sent, NetworkTypeOK, CancelState
  <2>3. TypeOK'
    BY <1>0, <1>5, <2>2 DEF PressCancel, SendsCancel, TypeOK, NetworkTypeOK, service
  <2>4. RequestsAreOwn' /\ cancel'[c].stage # "idle"
    BY <1>0, <1>5, <2>1
       DEF PressCancel, SendsCancel, Sent, NetworkTypeOK, IInv, RequestsAreOwn, TrueOf, service
  <2> QED BY <1>5, <2>1, <2>3, <2>4
          DEF PressCancel, SendsCancel, IInv, ShownIsOwn, StillAsking, TrueOf, VerdictJustified, service
<1>6. ASSUME NEW c \in Cancel, CancelReturns(c)
      PROVE  IInv'
  <2>1. cancel' = [cancel EXCEPT ![c] = NotOut] /\ UNCHANGED <<service, given, poll, stage, session>>
    BY <1>6 DEF CancelReturns, ReceivesCancel
  <2>2. cancel' \in [Cancel -> CancelState]
    BY <1>0, <2>1 DEF NotOut, NetworkTypeOK, CancelState
  <2>3. stage = "showing"
    BY <1>6 DEF CancelReturns, ReceivesCancel, IInv, RequestsAreOwn
  <2>4. \/ shown' = "cancelled" /\ polling' = FALSE /\ cancelLost' = cancelLost
        \/ shown' = shown /\ polling' = polling /\ cancelLost' = TRUE
    BY <1>6 DEF CancelReturns, Shows
  <2>5. "cancelled" \notin Verdict
    BY PollingAssumption
  <2>6. TypeOK'
    BY <1>0, <2>1, <2>2, <2>4 DEF TypeOK, NetworkTypeOK, Closing, service
  <2>7. RequestsAreOwn'
    BY <1>0, <2>1 DEF NotOut, NetworkTypeOK, IInv, RequestsAreOwn, TrueOf, service
  <2> QED BY <2>1, <2>3, <2>4, <2>5, <2>6, <2>7
          DEF IInv, ShownIsOwn, StillAsking, TrueOf, VerdictJustified, service
<1>7. ASSUME Reload
      PROVE  IInv'
  <2>1. /\ poll' = [p \in Poll |-> NotOut] /\ cancel' = [c \in Cancel |-> NotOut]
        /\ stage' = "fresh" /\ session' = NoSession /\ polling' = FALSE
        /\ shown' = "none" /\ cancelLost' = FALSE
        /\ UNCHANGED <<given, justified, verdict, closed>>
        /\ reading' = [s \in Session |-> {}]
    BY <1>7 DEF Reload, Unloads, Service!Stop
  <2>2. poll' \in [Poll -> PollState] /\ cancel' \in [Cancel -> CancelState]
    BY <2>1 DEF NotOut, PollState, CancelState
  <2>3. TypeOK'
    BY <1>0, <2>1, <2>2 DEF TypeOK, NetworkTypeOK
  <2>4. RequestsAreOwn'
    BY <2>1 DEF NotOut, RequestsAreOwn
  <2>5. "none" \notin Verdict
    BY PollingAssumption
  <2> QED BY <2>1, <2>3, <2>4, <2>5 DEF IInv, ShownIsOwn, StillAsking, VerdictJustified
<1> QED BY <1>1, <1>2, <1>3, <1>4, <1>5, <1>6, <1>7

-----------------------------------------------------------------------------
\* The inductive invariant holds: whatever requests are late or lost, what is out belongs to
\* the session on the page, and carries that session's decision if it carries one.
THEOREM Invariance == Spec => []IInv
<1>1. Init => IInv
  BY InitHolds
<1>2. IInv /\ [Next]_vars => IInv'
  <2>1. ASSUME IInv, Next
        PROVE  IInv'
    BY <2>1, PagePreserves, ServicePreserves DEF Next
  <2>2. ASSUME IInv, UNCHANGED vars
        PROVE  IInv'
    BY <2>2 DEF vars, service, network, page, IInv, TypeOK, NetworkTypeOK, RequestsAreOwn,
                ShownIsOwn, StillAsking, TrueOf, VerdictJustified
  <2> QED BY <2>1, <2>2
<1> QED BY <1>1, <1>2, PTL DEF Spec

\* Every variable keeps its type.
THEOREM TypeCorrect == Spec => []TypeOK
<1>1. IInv => TypeOK
  BY DEF IInv
<1> QED BY <1>1, Invariance, PTL

\* A decision on the page is always the one reported of the session it shows, and justified
\* for it, and a session it calls expired is closed.
THEOREM ShowsItsOwn == Spec => []ShownIsOwn
<1>1. IInv => ShownIsOwn
  BY DEF IInv
<1> QED BY <1>1, Invariance, PTL

\* A page with a QR and no result is asking, unless its cancel was lost.
THEOREM NeverSilent == Spec => []StillAsking
<1>1. IInv => StillAsking
  BY DEF IInv
<1> QED BY <1>1, Invariance, PTL

=============================================================================
