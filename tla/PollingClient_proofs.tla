------------------------- MODULE PollingClient_proofs -------------------------
(***************************************************************************)
(* What the service's part of a step does to the requests of a front end,  *)
(* for any number of them: all a front end's proof needs of VerifierPromise.*)
(***************************************************************************)
EXTENDS PollingClient, TLAPS

\* What the service may do to a poll that is out: take it up, or answer it with a reply that
\* is true of its session from then on.
MovesOn(p) ==
    /\ poll[p].stage # "idle"
    /\ poll'[p].of = poll[p].of
    /\ poll'[p].stage = "answered" =>
        /\ poll'[p].reply \in Reply
        /\ TrueOf(poll[p].of, poll[p].reply)'

\* What a step of the service does to the polls: it leaves each alone, or moves it on
\* without changing the session it is about; and what is justified, reported or closed stays
\* so.
ServiceStep ==
    /\ NetworkTypeOK'
    /\ VerdictJustified'
    /\ given' = given
    /\ \A p \in Poll : poll'[p] = poll[p] \/ MovesOn(p)
    /\ \A s \in Session : /\ justified[s] # NoVerdict => justified'[s] = justified[s]
                          /\ verdict[s] # NoVerdict => verdict'[s] = verdict[s]
    /\ closed \subseteq closed'
    /\ \A c \in Cancel :
        /\ cancel'[c].stage = "idle" <=> cancel[c].stage = "idle"
        /\ cancel'[c].of = cancel[c].of

\* A poll that was answered carries the reply it was answered with.
LEMMA AnsweredIs ==
    ASSUME NEW p \in Poll, NetworkTypeOK, NEW reply \in Reply, poll[p].stage # "idle",
           NEW s, poll[p].of = s, TrueOf(s, reply)',
           poll' = [poll EXCEPT ![p] = Answered(@, reply)]
    PROVE  /\ \A q \in Poll : poll'[q] = poll[q] \/ MovesOn(q)
           /\ poll' \in [Poll -> PollState]
<1>1. poll[p] \in PollState
  BY DEF NetworkTypeOK
<1>2. poll'[p] = [stage |-> "answered", of |-> poll[p].of, reply |-> reply]
  BY <1>1 DEF NetworkTypeOK, Answered, PollState
<1>3. \A q \in Poll : q # p => poll'[q] = poll[q]
  BY DEF NetworkTypeOK
<1>4. MovesOn(p)
  BY <1>2 DEF MovesOn, TrueOf
<1>5. [stage |-> "answered", of |-> poll[p].of, reply |-> reply] \in PollState
  BY <1>1 DEF PollState
<1> QED BY <1>2, <1>3, <1>4, <1>5 DEF NetworkTypeOK

\* A reply that claims nothing is true of every session.
LEMMA SaysNothing ==
    ASSUME NEW s, NEW reply, reply \notin Verdict \cup Closing
    PROVE  TrueOf(s, reply)'
  BY DEF TrueOf

\* What is true of a session stays true in a step of the service.
LEMMA StaysTrue ==
    ASSUME NEW s \in Session, NEW reply, TrueOf(s, reply), ServiceStep
    PROVE  TrueOf(s, reply)'
  BY PollingAssumption DEF TrueOf, ServiceStep

\* What is out is about some session.
OutIsAbout ==
    /\ \A p \in Poll : poll[p].stage # "idle" => poll[p].of \in Session
    /\ \A c \in Cancel : cancel[c].stage # "idle" => cancel[c].of \in Session

\* Every step of the service is such a step.
LEMMA ServiceSteps ==
    ASSUME NetworkTypeOK, VerdictJustified, OutIsAbout, ServiceNext
    PROVE  ServiceStep
<1>1. ASSUME NEW p \in Poll, Admits(p)
      PROVE  ServiceStep
  <2>1. poll[p].of \in Session
    BY <1>1 DEF OutIsAbout, Admits
  <2>2. reading' \in [Session -> SUBSET Poll]
    BY <1>1, <2>1 DEF Admits, Service!Admit, NetworkTypeOK
  <2> QED BY <1>1, <2>1, <2>2 DEF Admits, Service!Admit, ServiceStep, MovesOn, NetworkTypeOK,
                                  PollState, VerdictJustified
<1>2. ASSUME NEW p \in Poll, Refuses(p)
      PROVE  ServiceStep
  <2>1. PICK s \in Session : poll[p].of = s
    BY <1>2 DEF OutIsAbout, Refuses
  <2>2. PICK reply \in Closing : poll' = [poll EXCEPT ![p] = Answered(@, reply)]
    BY <1>2 DEF Refuses
  <2>3. reply \in Reply /\ reply \notin Verdict
    BY PollingAssumption DEF Reply, Closing
  <2>4. TrueOf(s, reply)'
    BY <1>2, <2>1, <2>3 DEF Refuses, Service!Close, TrueOf
  <2>5. /\ \A q \in Poll : poll'[q] = poll[q] \/ MovesOn(q)
        /\ poll' \in [Poll -> PollState]
    BY <1>2, <2>1, <2>2, <2>3, <2>4, AnsweredIs DEF Refuses
  <2> QED BY <1>2, <2>1, <2>5
             DEF Refuses, Service!Close, ServiceStep, NetworkTypeOK, VerdictJustified
<1>3. ASSUME NEW p \in Poll, Reports(p)
      PROVE  ServiceStep
  <2>1. PICK s \in Session : poll[p].of = s
    BY <1>3 DEF OutIsAbout, Reports
  <2>2. PICK reply \in Verdict : justified[s] = reply
    BY <1>3, <2>1 DEF Reports, Service!Report, NetworkTypeOK
  <2>3. poll' = [poll EXCEPT ![p] = Answered(@, reply)]
    BY <1>3, <2>1, <2>2 DEF Reports, Answered
  <2>4. verdict' = [verdict EXCEPT ![s] = reply] /\ justified' = justified /\ closed' = closed
    BY <1>3, <2>1, <2>2 DEF Reports, Service!Report
  <2>5. TrueOf(s, reply)'
    BY <2>2, <2>4, PollingAssumption DEF TrueOf, Closing, NetworkTypeOK
  <2>6. /\ \A q \in Poll : poll'[q] = poll[q] \/ MovesOn(q)
        /\ poll' \in [Poll -> PollState]
    BY <1>3, <2>1, <2>3, <2>5, AnsweredIs DEF Reply, Reports
  <2>7. reading' \in [Session -> SUBSET Poll] /\ given' = given /\ cancel' = cancel
    BY <1>3, <2>1 DEF Reports, Service!Report, NetworkTypeOK
  <2>8. /\ VerdictJustified'
        /\ \A t \in Session : verdict[t] # NoVerdict => verdict'[t] = verdict[t]
        /\ verdict' \in [Session -> Verdict \cup {NoVerdict}]
    BY <2>2, <2>4 DEF VerdictJustified, NetworkTypeOK
  <2> QED BY <2>4, <2>6, <2>7, <2>8 DEF ServiceStep, NetworkTypeOK
<1>4. ASSUME NEW p \in Poll, Leaves(p)
      PROVE  ServiceStep
  <2>1. PICK s \in Session : poll[p].of = s
    BY <1>4 DEF OutIsAbout, Leaves
  <2>2. PICK reply \in Reply \ (Verdict \cup {"cancelled"}) :
            /\ reply = "expired" <=> s \in closed'
            /\ poll' = [poll EXCEPT ![p] = Answered(@, reply)]
    BY <1>4, <2>1 DEF Leaves
  <2>3. TrueOf(s, reply)'
    BY <2>2 DEF TrueOf, Closing
  <2>4. /\ \A q \in Poll : poll'[q] = poll[q] \/ MovesOn(q)
        /\ poll' \in [Poll -> PollState]
    BY <1>4, <2>1, <2>2, <2>3, AnsweredIs DEF Leaves
  <2>5. /\ reading' \in [Session -> SUBSET Poll] /\ given' = given /\ cancel' = cancel
        /\ UNCHANGED <<justified, verdict>>
        /\ closed' \in {closed, closed \cup {s}}
    BY <1>4, <2>1 DEF Leaves, Service!Leave, NetworkTypeOK
  <2> QED BY <2>4, <2>5 DEF ServiceStep, NetworkTypeOK, VerdictJustified
<1>5. ASSUME NEW p \in Poll, PollLost(p)
      PROVE  ServiceStep
  <2>1. PICK s \in Session : poll[p].of = s
    BY <1>5 DEF OutIsAbout, PollLost
  <2>2. PICK reply \in {"error", "failed"} : poll' = [poll EXCEPT ![p] = Answered(@, reply)]
    BY <1>5 DEF PollLost
  <2>3. reply \in Reply /\ reply \notin Verdict \cup Closing
    BY PollingAssumption DEF Reply, Closing
  <2>4. TrueOf(s, reply)'
    BY <2>3, SaysNothing
  <2>5. /\ \A q \in Poll : poll'[q] = poll[q] \/ MovesOn(q)
        /\ poll' \in [Poll -> PollState]
    BY <1>5, <2>1, <2>2, <2>3, <2>4, AnsweredIs DEF PollLost
  <2> QED BY <1>5, <2>5 DEF PollLost, ServiceStep, NetworkTypeOK, VerdictJustified, service
<1>6. ASSUME NEW c \in Cancel, CancelServed(c) \/ CancelLost(c)
      PROVE  ServiceStep
  <2>1. PICK reply \in {"ok", "gateway", "failed"} : cancel' = [cancel EXCEPT ![c] = Answered(@, reply)]
    BY <1>6 DEF CancelServed, CancelLost
  <2>2. /\ cancel[c].stage # "idle"
        /\ cancel'[c].stage = "answered" /\ cancel'[c].of = cancel[c].of
        /\ \A d \in Cancel : d # c => cancel'[d] = cancel[d]
        /\ cancel' \in [Cancel -> CancelState]
    BY <1>6, <2>1 DEF NetworkTypeOK, CancelState, Answered, CancelServed, CancelLost
  <2>3. /\ UNCHANGED <<justified, verdict, reading, given, poll>>
        /\ closed' = closed \/ closed' = closed \cup {cancel[c].of}
        /\ cancel[c].of \in Session
    BY <1>6 DEF OutIsAbout, CancelServed, CancelLost, Service!Close, service
  <2> QED BY <2>2, <2>3 DEF ServiceStep, NetworkTypeOK, VerdictJustified
<1>7. ASSUME NEW s \in Session, NEW v \in Verdict, Presents(s, v)
      PROVE  ServiceStep
  BY <1>7 DEF Presents, Service!Present, ServiceStep, NetworkTypeOK, VerdictJustified, network
<1>8. ASSUME NEW s \in Session, Ends(s)
      PROVE  ServiceStep
  BY <1>8 DEF Ends, Service!Close, ServiceStep, NetworkTypeOK, VerdictJustified, network
<1>9. ASSUME ServiceStops
      PROVE  ServiceStep
  <2>1. /\ UNCHANGED <<justified, verdict, closed, given, cancel>>
        /\ reading' \in [Session -> SUBSET Poll]
    BY <1>9 DEF ServiceStops, Service!Stop
  <2>2. ASSUME NEW p \in Poll
        PROVE  \/ poll'[p] = poll[p]
               \/ /\ poll[p].stage = "served"
                  /\ poll'[p] = [stage |-> "answered", of |-> poll[p].of, reply |-> "failed"]
    BY <1>9 DEF ServiceStops, Answered, NetworkTypeOK, PollState
  <2>3. "failed" \in Reply /\ "failed" \notin Verdict \cup Closing
    BY PollingAssumption DEF Reply, Closing
  <2>4. poll' \in [Poll -> PollState]
    BY <1>9, <2>3 DEF ServiceStops, Answered, NetworkTypeOK, PollState
  <2> QED BY <2>1, <2>2, <2>3, <2>4
             DEF ServiceStep, MovesOn, TrueOf, NetworkTypeOK, VerdictJustified
<1> QED BY <1>1, <1>2, <1>3, <1>4, <1>5, <1>6, <1>7, <1>8, <1>9 DEF ServiceNext, Serves

=============================================================================
