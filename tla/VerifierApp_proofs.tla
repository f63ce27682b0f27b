-------------------------- MODULE VerifierApp_proofs --------------------------
(***************************************************************************)
(* What the mobile verifier shows, for any number of sessions, polls,      *)
(* cancels and calls of start.  Unlike a web page, the screen and what is  *)
(* still out may be about different sessions.                              *)
(***************************************************************************)
EXTENDS VerifierApp, PollingClient_proofs

-----------------------------------------------------------------------------
\* What is out is about a session of the app, so about some session.
LEMMA OutKnown ==
    ASSUME IInv
    PROVE  NetworkTypeOK /\ VerdictJustified /\ OutIsAbout
  BY DEF IInv, RequestsKnown, TypeOK, NetworkTypeOK, OutIsAbout

\* A step of the service preserves the invariant.
LEMMA ServicePreserves ==
    ASSUME IInv, ServiceNext, UNCHANGED app
    PROVE  IInv'
<1>1. ServiceStep
  BY OutKnown, ServiceSteps
<1>2. TypeOK'
  BY <1>1 DEF IInv, TypeOK, ServiceStep, app
<1>3. RequestsKnown'
  <2>1. \A c \in Cancel : cancel'[c].stage # "idle" => cancel'[c].of \in given'
    BY <1>1 DEF ServiceStep, IInv, RequestsKnown
  <2>2. ASSUME NEW p \in Poll, poll'[p].stage # "idle"
        PROVE  /\ poll'[p].of \in given'
               /\ poll'[p].stage = "answered" =>
                    poll'[p].reply \in Reply /\ TrueOf(poll[p].of, poll[p].reply)'
    <3>1. poll[p].stage # "idle" /\ poll'[p].of = poll[p].of
      BY <1>1, <2>2 DEF ServiceStep, MovesOn
    <3>2. poll[p].of \in given /\ poll[p].of \in Session
      BY <3>1, OutKnown DEF OutIsAbout, IInv, RequestsKnown
    <3>3. CASE poll'[p] = poll[p] /\ poll[p].stage = "answered"
      <4>1. poll[p].reply \in Reply /\ TrueOf(poll[p].of, poll[p].reply)
        BY <3>3 DEF IInv, RequestsKnown
      <4>2. PICK s \in Session, reply \in Reply : s = poll[p].of /\ reply = poll[p].reply
        BY <3>2, <4>1
      <4>3. TrueOf(s, reply)'
        BY <1>1, <4>1, <4>2, StaysTrue DEF TrueOf
      <4> QED BY <1>1, <3>1, <3>2, <3>3, <4>1, <4>2, <4>3 DEF TrueOf, ServiceStep
    <3>4. CASE MovesOn(p)
      BY <1>1, <3>1, <3>2, <3>4 DEF MovesOn, ServiceStep
    <3> QED BY <1>1, <3>1, <3>2, <3>3, <3>4 DEF ServiceStep
  <2> QED BY <2>1, <2>2 DEF RequestsKnown
<1>4. DecisionWasJustified'
  BY <1>1, PollingAssumption
     DEF IInv, TypeOK, NetworkTypeOK, DecisionWasJustified, ServiceStep, app
<1>5. StillAsking'
  BY <1>1 DEF IInv, StillAsking, ServiceStep, app
<1> QED BY <1>1, <1>2, <1>3, <1>4, <1>5 DEF IInv, ServiceStep, app

\* An app that was just opened satisfies it.
LEMMA InitHolds ==
    ASSUME Init
    PROVE  IInv
<1>1. TypeOK
  BY DEF Init, NetworkInit, Service!Init, NotOut, TypeOK, NetworkTypeOK, PollState, CancelState
<1> QED BY <1>1 DEF Init, NetworkInit, Service!Init, NotOut, IInv, RequestsKnown,
                    DecisionWasJustified, StillAsking, VerdictJustified

\* The steps of start preserve it.
LEMMA StartPreserves ==
    ASSUME IInv, NEW k \in Start,
           \/ PressStart(k) \/ WalletOpens(k) \/ StartFails(k)
           \/ \E s \in Session : Started(k, s)
    PROVE  IInv'
<1>0. TypeOK /\ NetworkTypeOK
  BY DEF IInv, TypeOK
<1>1. ASSUME PressStart(k) \/ WalletOpens(k) \/ StartFails(k)
      PROVE  IInv'
  <2>1. TypeOK'
    BY <1>0, <1>1 DEF PressStart, WalletOpens, StartFails, TypeOK, NetworkTypeOK, service, network
  <2>2. UNCHANGED <<service, network, session>>
    BY <1>1 DEF PressStart, WalletOpens, StartFails
  <2>3. \/ phase' = "starting" \/ phase' = "error"
        \/ phase' = phase /\ result' = result /\ timers' = TRUE
    BY <1>1 DEF PressStart, WalletOpens, StartFails
  <2>4. RequestsKnown'
    BY <2>2 DEF IInv, RequestsKnown, TrueOf, service, network
  <2> QED BY <2>1, <2>2, <2>3, <2>4
             DEF IInv, DecisionWasJustified, StillAsking, VerdictJustified, service, network
<1>2. ASSUME NEW s \in Session, Started(k, s)
      PROVE  IInv'
  <2>1. TypeOK'
    BY <1>0, <1>2 DEF Started, Given, TypeOK, NetworkTypeOK, service
  <2>2. start'[k] = "opening"
    BY <1>0, <1>2 DEF Started, TypeOK
  <2>3. RequestsKnown'
    BY <1>2 DEF Started, Given, IInv, RequestsKnown, TrueOf, service
  <2> QED BY <1>2, <2>1, <2>2, <2>3
             DEF Started, Given, IInv, DecisionWasJustified, StillAsking, VerdictJustified,
                 service
<1> QED BY <1>1, <1>2

\* The polls, the cancels and the reset preserve it.
LEMMA ScreenPreserves ==
    ASSUME IInv,
           \/ \E p \in Poll : TimerFires(p) \/ PollReturns(p)
           \/ \E c \in Cancel : PressCancel(c) \/ CancelReturns(c)
           \/ Reset
    PROVE  IInv'
<1>0. TypeOK /\ NetworkTypeOK
  BY DEF IInv, TypeOK
<1>1. ASSUME NEW p \in Poll, TimerFires(p)
      PROVE  IInv'
  <2>1. session \in Session /\ session \in given
    BY <1>1 DEF TimerFires, IInv, TypeOK
  <2>2. poll' \in [Poll -> PollState]
    BY <1>0, <1>1, <2>1 DEF TimerFires, SendsPoll, Sent, NetworkTypeOK, PollState
  <2>3. TypeOK'
    BY <1>0, <1>1, <2>2 DEF TimerFires, SendsPoll, TypeOK, NetworkTypeOK, service, app
  <2>4. RequestsKnown'
    BY <1>0, <1>1, <2>1
       DEF TimerFires, SendsPoll, Sent, NetworkTypeOK, IInv, RequestsKnown, TrueOf, service, app
  <2> QED BY <1>1, <2>3, <2>4
             DEF TimerFires, SendsPoll, IInv, DecisionWasJustified, StillAsking,
                 VerdictJustified, service, app
<1>2. ASSUME NEW p \in Poll, PollReturns(p)
      PROVE  IInv'
  <2>1. /\ poll[p].of \in given /\ poll[p].reply \in Reply
        /\ TrueOf(poll[p].of, poll[p].reply)
    BY <1>2 DEF PollReturns, Receives, IInv, RequestsKnown
  <2>2. /\ poll' = [poll EXCEPT ![p] = NotOut]
        /\ UNCHANGED <<service, given, cancel, session, start>>
    BY <1>2 DEF PollReturns, Receives
  <2>3. poll' \in [Poll -> PollState]
    BY <1>0, <2>2 DEF NotOut, NetworkTypeOK, PollState
  <2>4. \/ UNCHANGED <<phase, result, timers>>
        \/ /\ poll[p].reply # "waiting"
           /\ timers' = FALSE /\ result' = BodyOf(poll[p].reply) /\ phase' = PhaseOf(poll[p].reply)
    BY <1>2 DEF PollReturns, Finishes, Waits
  <2>5. /\ PhaseOf(poll[p].reply) \in {"decided", "nothing", "error", "rejected"}
        /\ PhaseOf(poll[p].reply) = "decided" =>
                poll[p].reply \in Verdict /\ BodyOf(poll[p].reply) = poll[p].reply
    BY <2>1, PollingAssumption DEF PhaseOf, BodyOf
  <2>6. poll[p].reply # "waiting" =>
            BodyOf(poll[p].reply) \in {"none", "declined", "rejected", "error"} \cup Verdict \cup Closing
    BY <2>1 DEF BodyOf, Reply
  <2>7. TypeOK'
    BY <1>0, <2>2, <2>3, <2>4, <2>5, <2>6 DEF TypeOK, NetworkTypeOK, service
  <2>8. RequestsKnown'
    BY <1>0, <2>2 DEF NotOut, NetworkTypeOK, IInv, RequestsKnown, TrueOf, service
  <2>9. DecisionWasJustified' /\ StillAsking'
    BY <2>1, <2>2, <2>4, <2>5 DEF IInv, DecisionWasJustified, StillAsking, TrueOf, service
  <2> QED BY <2>2, <2>7, <2>8, <2>9 DEF IInv, VerdictJustified, service
<1>3. ASSUME NEW c \in Cancel, PressCancel(c)
      PROVE  IInv'
  <2>1. session \in Session /\ session \in given
    BY <1>3 DEF PressCancel, IInv, TypeOK
  <2>2. cancel' \in [Cancel -> CancelState]
    BY <1>0, <1>3, <2>1 DEF PressCancel, SendsCancel, Sent, NetworkTypeOK, CancelState
  <2>3. TypeOK'
    BY <1>0, <1>3, <2>2 DEF PressCancel, SendsCancel, TypeOK, NetworkTypeOK, service
  <2>4. RequestsKnown' /\ cancel'[c].stage # "idle"
    BY <1>0, <1>3, <2>1
       DEF PressCancel, SendsCancel, Sent, NetworkTypeOK, IInv, RequestsKnown, TrueOf, service
  <2> QED BY <1>3, <2>3, <2>4
             DEF PressCancel, SendsCancel, IInv, DecisionWasJustified, StillAsking,
                 VerdictJustified, service
<1>4. ASSUME NEW c \in Cancel, CancelReturns(c)
      PROVE  IInv'
  <2>1. /\ cancel' = [cancel EXCEPT ![c] = NotOut]
        /\ UNCHANGED <<service, given, poll, session, timers, start>>
        /\ result' = "cancelled" /\ phase' = "nothing"
    BY <1>4 DEF CancelReturns, ReceivesCancel, AfterFailure, ShowsCancelled
  <2>2. cancel' \in [Cancel -> CancelState]
    BY <1>0, <2>1 DEF NotOut, NetworkTypeOK, CancelState
  <2>3. TypeOK'
    BY <1>0, <2>1, <2>2 DEF TypeOK, NetworkTypeOK, Closing, service
  <2>4. RequestsKnown'
    BY <1>0, <2>1 DEF NotOut, NetworkTypeOK, IInv, RequestsKnown, TrueOf, service
  <2> QED BY <2>1, <2>3, <2>4
             DEF IInv, DecisionWasJustified, StillAsking, VerdictJustified, service
<1>5. ASSUME Reset
      PROVE  IInv'
  <2>1. TypeOK'
    BY <1>0, <1>5 DEF Reset, TypeOK, NetworkTypeOK, service, network
  <2>2. RequestsKnown'
    BY <1>5 DEF Reset, IInv, RequestsKnown, TrueOf, service, network
  <2> QED BY <1>5, <2>1, <2>2
             DEF Reset, IInv, DecisionWasJustified, StillAsking, VerdictJustified, service
<1> QED BY <1>1, <1>2, <1>3, <1>4, <1>5

-----------------------------------------------------------------------------
\* The inductive invariant holds: whatever comes back to a screen that has moved on is about
\* a session of this app and carries that session's decision if it carries one.
THEOREM Invariance == Spec => []IInv
<1>1. Init => IInv
  BY InitHolds
<1>2. IInv /\ [Next]_vars => IInv'
  <2>1. ASSUME IInv, Next
        PROVE  IInv'
    BY <2>1, StartPreserves, ScreenPreserves, ServicePreserves DEF Next
  <2>2. ASSUME IInv, UNCHANGED vars
        PROVE  IInv'
    BY <2>2 DEF vars, service, network, app, IInv, TypeOK, NetworkTypeOK, RequestsKnown,
                TrueOf, DecisionWasJustified, StillAsking, VerdictJustified
  <2> QED BY <2>1, <2>2
<1> QED BY <1>1, <1>2, PTL DEF Spec

\* Every variable keeps its type.
THEOREM TypeCorrect == Spec => []TypeOK
<1>1. IInv => TypeOK
  BY DEF IInv
<1> QED BY <1>1, Invariance, PTL

\* A decision on the screen was justified for a session of this app, and reported of it.
THEOREM ShowsDecisions == Spec => []DecisionWasJustified
<1>1. IInv => DecisionWasJustified
  BY DEF IInv
<1> QED BY <1>1, Invariance, PTL

\* An app that says it waits is asking.
THEOREM NeverSilent == Spec => []StillAsking
<1>1. IInv => StillAsking
  BY DEF IInv
<1> QED BY <1>1, Invariance, PTL

=============================================================================
