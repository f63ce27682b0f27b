----------------------------- MODULE VerifierApp ------------------------------
(***************************************************************************)
(* The mobile verifier, services/verifier-mobile/App.js.  It polls as the  *)
(* web pages do, but one component lives through many sessions: start      *)
(* awaits the service and then the wallet's link, cancel awaits its        *)
(* request, "again" resets the screen in place, and whatever is still out  *)
(* from before comes back to the screen as it is by then.                  *)
(***************************************************************************)
EXTENDS PollingClient

CONSTANT Start   \* calls of start that can be under way at once

VARIABLES
    phase,
    result,    \* the state the screen was drawn from, "none" when there is none
    session,   \* session.current
    timers,    \* timers.current is not empty
    start      \* each call of start: "idle", "posted", or "opening" the wallet

app == <<phase, result, session, timers, start>>
vars == <<service, network, app>>

Init ==
    /\ NetworkInit
    /\ phase = "idle" /\ result = "none" /\ session = NoSession /\ timers = FALSE
    /\ start = [k \in Start |-> "idle"]

-----------------------------------------------------------------------------
(***************************************************************************)
(* start: two awaits, and everything it catches ends in the same way.      *)
(***************************************************************************)
PressStart(k) ==
    /\ phase = "idle" /\ start[k] = "idle"
    /\ phase' = "starting" /\ result' = "none"
    /\ start' = [start EXCEPT ![k] = "posted"]
    /\ UNCHANGED <<service, network, session, timers>>

Started(k, s) ==
    /\ start[k] = "posted"
    /\ Given(s)
    /\ session' = s /\ phase' = "waiting"
    /\ start' = [start EXCEPT ![k] = "opening"]
    /\ UNCHANGED <<result, timers>>

WalletOpens(k) ==
    /\ start[k] = "opening"
    /\ timers' = TRUE
    /\ start' = [start EXCEPT ![k] = "idle"]
    /\ UNCHANGED <<service, network, phase, result, session>>

\* No answer, another status than 201, or no wallet.
StartFails(k) ==
    /\ start[k] # "idle"
    /\ timers' = FALSE /\ phase' = "error"
    /\ start' = [start EXCEPT ![k] = "idle"]
    /\ UNCHANGED <<service, network, result, session>>

(***************************************************************************)
(* poll and finish.                                                        *)
(***************************************************************************)
TimerFires(p) ==
    /\ timers /\ session # NoSession
    /\ SendsPoll(p, session)
    /\ UNCHANGED app

\* The phase a reply ends in; a body of no known state is rejected.
PhaseOf(reply) ==
    CASE reply \in Verdict -> "decided"
      [] reply \in Closing \cup {"declined"} -> "nothing"
      [] reply = "failed" -> "error"
      [] OTHER -> "rejected"

FinishesWithoutBody(next, body) == timers' = FALSE /\ phase' = next /\ UNCHANGED result

Finishes(next, body) == timers' = FALSE /\ result' = body /\ phase' = next

WaitsForNothing(reply) == FALSE

WaitsOnExpired(reply) == reply \in {"waiting", "expired", "cancelled"}

Waits(reply) == reply = "waiting"

BodyOf(reply) == IF reply = "failed" THEN "none" ELSE reply

PollReturns(p) ==
    /\ Receives(p)
    /\ \/ Waits(poll[p].reply) /\ UNCHANGED <<phase, result, timers>>
       \/ ~Waits(poll[p].reply) /\ Finishes(PhaseOf(poll[p].reply), BodyOf(poll[p].reply))
    /\ UNCHANGED <<session, start>>

(***************************************************************************)
(* cancel and reset.                                                       *)
(***************************************************************************)
PressCancel(c) ==
    /\ phase = "waiting" /\ session # NoSession
    /\ timers' = FALSE
    /\ SendsCancel(c, session)
    /\ UNCHANGED <<phase, result, session, start>>

LeavesScreen == UNCHANGED <<result, phase>>

ShowsCancelled == result' = "cancelled" /\ phase' = "nothing"

\* The catch around the request swallows its failure.
AfterFailure == ShowsCancelled

CancelReturns(c) ==
    /\ ReceivesCancel(c)
    /\ \/ cancel[c].reply # "failed" /\ ShowsCancelled
       \/ cancel[c].reply = "failed" /\ AfterFailure
    /\ UNCHANGED <<session, timers, start>>

Reset ==
    /\ phase \in {"decided", "nothing", "rejected", "error"}
    /\ phase' = "idle" /\ result' = "none" /\ session' = NoSession /\ timers' = FALSE
    /\ UNCHANGED <<service, network, start>>

Next ==
    \/ \E k \in Start : PressStart(k) \/ WalletOpens(k) \/ StartFails(k)
    \/ \E k \in Start, s \in Session : Started(k, s)
    \/ \E p \in Poll : TimerFires(p) \/ PollReturns(p)
    \/ \E c \in Cancel : PressCancel(c) \/ CancelReturns(c)
    \/ Reset
    \/ ServiceNext /\ UNCHANGED app

Spec == Init /\ [][Next]_vars

-----------------------------------------------------------------------------
(***************************************************************************)
(* Properties.                                                             *)
(***************************************************************************)

\* Every variable of the app and of the requests it has out keeps its type.
TypeOK ==
    /\ NetworkTypeOK
    /\ phase \in {"idle", "starting", "waiting", "decided", "nothing", "rejected", "error"}
    /\ result \in {"none", "declined", "rejected", "error"} \cup Verdict \cup Closing
    /\ session \in Session \cup {NoSession}
    /\ timers \in BOOLEAN
    /\ start \in [Start -> {"idle", "posted", "opening"}]

\* A decision on the screen was justified for a session this app started and reported of it,
\* and the words "verified result" stand over a decision and nothing else: no late reply,
\* error or cancel mixes one phase with the body of another (finish, cancel, reset).
DecisionWasJustified ==
    phase = "decided" =>
        result \in Verdict /\ \E s \in given : justified[s] = result /\ verdict[s] = result

\* "Waiting for your wallet" is never said by an app that asks nobody: it polls, or is about
\* to, or its cancel is out, although starts, cancels and replies of earlier sessions stop
\* each other's timers (stop, start, cancel).
StillAsking ==
    phase = "waiting" =>
        \/ timers
        \/ \E k \in Start : start[k] = "opening"
        \/ \E c \in Cancel : cancel[c].stage # "idle"

\* What is out is about a session of this app, also when the screen has moved on.
RequestsKnown ==
    /\ \A c \in Cancel : cancel[c].stage # "idle" => cancel[c].of \in given
    /\ \A p \in Poll : poll[p].stage # "idle" =>
        /\ poll[p].of \in given
        /\ poll[p].stage = "answered" =>
            /\ poll[p].reply \in Reply
            /\ TrueOf(poll[p].of, poll[p].reply)

\* The inductive invariant.
IInv ==
    /\ TypeOK
    /\ VerdictJustified
    /\ session \in given \cup {NoSession}
    /\ RequestsKnown
    /\ DecisionWasJustified
    /\ StillAsking

(***************************************************************************)
(* Liveness, under the fairness of VerifierPage; a start also ends.        *)
(***************************************************************************)
FairSpec ==
    /\ Spec
    /\ WF_vars(\E p \in Poll : TimerFires(p))
    /\ \A k \in Start : WF_vars(StartFails(k) \/ WalletOpens(k) \/ \E s \in Session : Started(k, s))
    /\ \A p \in Poll :
        /\ WF_vars(PollReturns(p))
        /\ WF_vars((Admits(p) \/ Serves(p) \/ PollLost(p)) /\ UNCHANGED app)
        /\ SF_vars(Refuses(p) /\ UNCHANGED app)
    /\ \A c \in Cancel :
        /\ WF_vars(CancelReturns(c))
        /\ WF_vars((CancelServed(c) \/ CancelLost(c)) /\ UNCHANGED app)
    /\ \A s \in Session : WF_vars(Ends(s) /\ UNCHANGED app)

\* The spinner ends: an app that asks or waits comes to a phase with a way on, whichever of
\* its own earlier requests come back meanwhile and stop its timers.
SpinnerEnds == phase \in {"starting", "waiting"} ~> phase \notin {"starting", "waiting"}

(***************************************************************************)
(* What a comment of App.js says, and the code does not do.                *)
(***************************************************************************)
\* "The screen is honest either way: nothing was shared" (cancel): of a session the screen
\* calls cancelled, no presentation was justified.
NothingShared == result = "cancelled" /\ session # NoSession => justified[session] = NoVerdict

=============================================================================
