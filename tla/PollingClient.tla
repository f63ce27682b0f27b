---------------------------- MODULE PollingClient ----------------------------
(***************************************************************************)
(* What every front end of the verifier does with the network: it sends    *)
(* polls and cancels with fetch(), any number of them may be out at once,  *)
(* none has a timeout, and each ends with an answer or an error.           *)
(*                                                                         *)
(* The service is VerifierPromise, which Verifier implements: a front end  *)
(* that is correct with the promise is correct with the service.           *)
(***************************************************************************)
EXTENDS Naturals

CONSTANTS
    Session,
    Poll,         \* polls that can be out at once
    Cancel,       \* cancel requests that can be out at once
    Verdict,
    NoVerdict,
    NoSession

ASSUME PollingAssumption ==
    /\ NoVerdict \notin Verdict /\ NoSession \notin Session
    /\ \A v \in Verdict : v \notin {"none", "waiting", "declined", "rejected", "cancelled",
                                    "expired", "error", "failed", "notStarted"}

VARIABLES
    justified, verdict, closed, reading,   \* the service, see VerifierPromise
    given,      \* sessions created for this front end
    poll,       \* each poll: where it is, the session in its URL, its reply
    cancel      \* each cancel request, likewise

Service == INSTANCE VerifierPromise WITH Read <- Poll

service == <<justified, verdict, closed, reading>>
network == <<given, poll, cancel>>

\* The states GET /sessions/:id reports, a decision standing for "decided"; an answer of
\* another shape is an "error" (a 500), and a fetch that rejects has "failed".
Closing == {"cancelled", "expired"}
Reply == Verdict \cup Closing \cup {"waiting", "declined", "rejected", "error", "failed"}

NotOut == [stage |-> "idle", of |-> NoSession, reply |-> "none"]

Sent(s) == [stage |-> "sent", of |-> s, reply |-> "none"]

NetworkInit ==
    /\ Service!Init
    /\ given = {}
    /\ poll = [p \in Poll |-> NotOut]
    /\ cancel = [c \in Cancel |-> NotOut]

Answered(out, reply) == [out EXCEPT !.stage = "answered", !.reply = reply]

-----------------------------------------------------------------------------
(***************************************************************************)
(* The service handles a poll.                                             *)
(***************************************************************************)
Admits(p) ==
    /\ poll[p].stage = "sent"
    /\ Service!Admit(p, poll[p].of)
    /\ poll' = [poll EXCEPT ![p].stage = "served"]
    /\ UNCHANGED <<given, cancel>>

\* The session is over: cancelled, expired, or not known after a restart.
Refuses(p) ==
    /\ poll[p].stage = "sent"
    /\ Service!Close(poll[p].of)
    /\ \E reply \in Closing : poll' = [poll EXCEPT ![p] = Answered(@, reply)]
    /\ UNCHANGED <<given, cancel>>

Reports(p) ==
    /\ poll[p].stage = "served"
    /\ Service!Report(p, poll[p].of)
    /\ poll' = [poll EXCEPT ![p] = Answered(@, justified[@.of])]
    /\ UNCHANGED <<given, cancel>>

\* No decision; "expired" when the transaction is gone, which closes the session.
Leaves(p) ==
    /\ poll[p].stage = "served"
    /\ Service!Leave(p, poll[p].of)
    /\ \E reply \in Reply \ (Verdict \cup {"cancelled"}) :
        /\ reply = "expired" <=> poll[p].of \in closed'
        /\ poll' = [poll EXCEPT ![p] = Answered(@, reply)]
    /\ UNCHANGED <<given, cancel>>

\* The request or its connection is lost, or the service errs before it reads the session.
PollLost(p) ==
    /\ poll[p].stage = "sent"
    /\ \E reply \in {"error", "failed"} : poll' = [poll EXCEPT ![p] = Answered(@, reply)]
    /\ UNCHANGED <<service, given, cancel>>

Serves(p) == Reports(p) \/ Leaves(p)

\* The service handles a cancel; or it never gets there, and its fetch rejects or is
\* answered by the gateway.
CancelServed(c) ==
    /\ cancel[c].stage = "sent"
    /\ Service!Close(cancel[c].of)
    /\ \E reply \in {"ok", "failed"} : cancel' = [cancel EXCEPT ![c] = Answered(@, reply)]
    /\ UNCHANGED <<given, poll>>

CancelLost(c) ==
    /\ cancel[c].stage = "sent"
    /\ \E reply \in {"gateway", "failed"} : cancel' = [cancel EXCEPT ![c] = Answered(@, reply)]
    /\ UNCHANGED <<service, given, poll>>

\* The wallet, the clock, and a restart of the service.
Presents(s, v) == s \in given /\ Service!Present(s, v) /\ UNCHANGED network

Ends(s) == s \in given /\ Service!Close(s) /\ UNCHANGED network

ServiceStops ==
    /\ Service!Stop
    /\ poll' = [p \in Poll |-> IF poll[p].stage = "served"
                               THEN Answered(poll[p], "failed") ELSE poll[p]]
    /\ UNCHANGED <<given, cancel>>

ServiceNext ==
    \/ \E p \in Poll : Admits(p) \/ Refuses(p) \/ Serves(p) \/ PollLost(p)
    \/ \E c \in Cancel : CancelServed(c) \/ CancelLost(c)
    \/ \E s \in Session, v \in Verdict : Presents(s, v)
    \/ \E s \in Session : Ends(s)
    \/ ServiceStops

-----------------------------------------------------------------------------
(***************************************************************************)
(* The front end's side.                                                   *)
(***************************************************************************)
SendsPoll(p, s) ==
    /\ poll[p].stage = "idle"
    /\ poll' = [poll EXCEPT ![p] = Sent(s)]
    /\ UNCHANGED <<service, given, cancel>>

Receives(p) ==
    /\ poll[p].stage = "answered"
    /\ poll' = [poll EXCEPT ![p] = NotOut]
    /\ UNCHANGED <<service, given, cancel>>

SendsCancel(c, s) ==
    /\ cancel[c].stage = "idle"
    /\ cancel' = [cancel EXCEPT ![c] = Sent(s)]
    /\ UNCHANGED <<service, given, poll>>

ReceivesCancel(c) ==
    /\ cancel[c].stage = "answered"
    /\ cancel' = [cancel EXCEPT ![c] = NotOut]
    /\ UNCHANGED <<service, given, poll>>

\* POST /sessions answers 201 with a new session.
Given(s) ==
    /\ s \notin given
    /\ given' = given \cup {s}
    /\ UNCHANGED <<service, poll, cancel>>

PollState ==
    [stage : {"idle", "sent", "served", "answered"}, of : Session \cup {NoSession},
     reply : Reply \cup {"none"}]

CancelState ==
    [stage : {"idle", "sent", "answered"}, of : Session \cup {NoSession},
     reply : {"none", "ok", "gateway", "failed"}]

NetworkTypeOK ==
    /\ justified \in [Session -> Verdict \cup {NoVerdict}]
    /\ verdict \in [Session -> Verdict \cup {NoVerdict}]
    /\ closed \subseteq Session /\ given \subseteq Session
    /\ reading \in [Session -> SUBSET Poll]
    /\ poll \in [Poll -> PollState]
    /\ cancel \in [Cancel -> CancelState]

\* The service reports nothing of a session but what its presentation justifies.
VerdictJustified == \A s \in Session : verdict[s] # NoVerdict => verdict[s] = justified[s]

\* What a poll answered about s says is true of s: a decision is the one the service reported,
\* and a session said to be over is closed.  Both stay true however late the answer comes.
TrueOf(s, reply) ==
    /\ reply \in Verdict => verdict[s] = reply /\ justified[s] = reply
    /\ reply \in Closing => s \in closed

=============================================================================
