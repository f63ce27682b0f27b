----------------------------- MODULE VerifierPage -----------------------------
(***************************************************************************)
(* A verification page in a browser: services/verifier-web/app.js, and     *)
(* bank-web/app.js and education-web/app.js, which have the same start,    *)
(* poll, cancel and showResult.  The page is loaded, starts one session,   *)
(* shows its QR and polls until it shows a result; "again" reloads it.     *)
(***************************************************************************)
EXTENDS PollingClient

VARIABLES
    stage,      \* "fresh", "starting" (POST out), "stuck" (it rejected) or "showing" the QR
    session,    \* state.sessionId
    polling,    \* state.timer and state.countdown are set
    shown,      \* the result panel: the state it was drawn from, "none" while hidden
    cancelLost  \* history: a cancel of this page load rejected

page == <<stage, session, polling, shown, cancelLost>>
vars == <<service, network, page>>

Init ==
    /\ NetworkInit
    /\ stage = "fresh" /\ session = NoSession /\ polling = FALSE
    /\ shown = "none" /\ cancelLost = FALSE

-----------------------------------------------------------------------------
\* showResult(): the result replaces whatever is shown, and the timers stop.
Shows(state) == shown' = state /\ polling' = FALSE

PressStart ==
    /\ stage = "fresh" /\ shown = "none"
    /\ stage' = "starting"
    /\ UNCHANGED <<service, network, session, polling, shown, cancelLost>>

Started(s) ==
    /\ stage = "starting"
    /\ Given(s)
    /\ stage' = "showing" /\ session' = s /\ polling' = TRUE
    /\ UNCHANGED <<shown, cancelLost>>

\* Another status than 201: the button is enabled again, on a panel that is now hidden.
StartRefused ==
    /\ stage = "starting"
    /\ stage' = "fresh" /\ Shows("notStarted")
    /\ UNCHANGED <<service, network, session, cancelLost>>

\* fetch() rejects: nothing is shown and the button stays disabled.
StartLost ==
    /\ stage = "starting"
    /\ stage' = "stuck"
    /\ UNCHANGED <<service, network, session, polling, shown, cancelLost>>

\* The poll timer, or the countdown at zero.
TimerFires(p) ==
    /\ polling
    /\ SendsPoll(p, session)
    /\ UNCHANGED page

WaitsForNothing(reply) == FALSE

WaitsOnExpired(reply) == reply \in {"waiting", "error", "failed", "expired", "cancelled"}

\* "waiting", an error answer, or a fetch that rejects: the page goes on polling.
Waits(reply) == reply \in {"waiting", "error", "failed"}

AsksOnce == UNCHANGED shown /\ polling' = FALSE

\* setInterval goes on firing.
AsksAgain == UNCHANGED <<shown, polling>>

PollReturns(p) ==
    /\ Receives(p)
    /\ \/ Waits(poll[p].reply) /\ AsksAgain
       \/ ~Waits(poll[p].reply) /\ Shows(poll[p].reply)
    /\ UNCHANGED <<stage, session, cancelLost>>

PressCancel(c) ==
    /\ stage = "showing" /\ shown = "none"
    /\ polling' = FALSE
    /\ SendsCancel(c, session)
    /\ UNCHANGED <<stage, session, shown, cancelLost>>

\* The answer's status is not looked at; a fetch that rejects ends the handler here.
CancelReturns(c) ==
    /\ ReceivesCancel(c)
    /\ \/ cancel[c].reply # "failed" /\ Shows("cancelled") /\ UNCHANGED cancelLost
       \/ cancel[c].reply = "failed" /\ cancelLost' = TRUE /\ UNCHANGED <<shown, polling>>
    /\ UNCHANGED <<stage, session>>

\* The page starts over in place, as if "again" did not reload it.
ResetsInPlace == UNCHANGED <<service, network>>

\* Unloading the page drops what it has out; the service's work on it goes to nobody.
Unloads ==
    /\ Service!Stop
    /\ poll' = [p \in Poll |-> NotOut]
    /\ cancel' = [c \in Cancel |-> NotOut]
    /\ UNCHANGED given

Reload ==
    /\ Unloads
    /\ stage' = "fresh" /\ session' = NoSession /\ polling' = FALSE
    /\ shown' = "none" /\ cancelLost' = FALSE

Next ==
    \/ PressStart \/ StartRefused \/ StartLost \/ Reload
    \/ \E s \in Session : Started(s)
    \/ \E p \in Poll : TimerFires(p) \/ PollReturns(p)
    \/ \E c \in Cancel : PressCancel(c) \/ CancelReturns(c)
    \/ ServiceNext /\ UNCHANGED page

Spec == Init /\ [][Next]_vars

-----------------------------------------------------------------------------
(***************************************************************************)
(* Properties.                                                             *)
(***************************************************************************)

\* Every variable of the page and of the requests it has out keeps its type.
TypeOK ==
    /\ NetworkTypeOK
    /\ stage \in {"fresh", "starting", "stuck", "showing"}
    /\ session \in Session \cup {NoSession}
    /\ polling \in BOOLEAN /\ cancelLost \in BOOLEAN
    /\ shown \in {"none", "notStarted", "declined", "rejected"} \cup Verdict \cup Closing

\* A decision on the page is the one the service reported of the session whose QR this page
\* load showed, and the one justified for it; and a page that says "expired" shows a session
\* that is closed, so no verdict is to come: whatever polls of this or of an earlier page load
\* are still out (poll, showResult).
ShownIsOwn ==
    shown \in Verdict \cup {"expired"} => session \in given /\ TrueOf(session, shown)

\* A page that shows a QR and no result is asking: it polls, or its cancel is out.  The one
\* exception is a cancel whose fetch rejected: the handler has stopped the timers before.
StillAsking ==
    stage = "showing" /\ shown = "none" =>
        polling \/ cancelLost \/ \E c \in Cancel : cancel[c].stage # "idle"

\* What is out is about the session on the page, and the answer of a poll is true of it.
RequestsAreOwn ==
    /\ \A c \in Cancel : cancel[c].stage # "idle" => stage = "showing" /\ cancel[c].of = session
    /\ \A p \in Poll : poll[p].stage # "idle" =>
        /\ stage = "showing" /\ poll[p].of = session
        /\ poll[p].stage = "answered" =>
            /\ poll[p].reply \in Reply
            /\ TrueOf(session, poll[p].reply)

\* The inductive invariant: with it, no reply that is still out can put a wrong decision on
\* the page, and no handler that runs can leave the page silent.
IInv ==
    /\ TypeOK
    /\ VerdictJustified
    /\ stage = "showing" <=> session # NoSession
    /\ session # NoSession => session \in given
    /\ polling => stage = "showing"
    /\ RequestsAreOwn
    /\ ShownIsOwn
    /\ StillAsking

(***************************************************************************)
(* Liveness.  The browser fires the timers and resumes the handlers, the   *)
(* service ends each read, sessions expire, and not every poll of a closed *)
(* session is lost.                                                        *)
(***************************************************************************)
FairSpec ==
    /\ Spec
    /\ WF_vars(\E p \in Poll : TimerFires(p))
    /\ \A p \in Poll :
        /\ WF_vars(PollReturns(p))
        /\ WF_vars((Admits(p) \/ Serves(p) \/ PollLost(p)) /\ UNCHANGED page)
        /\ SF_vars(Refuses(p) /\ UNCHANGED page)
    /\ \A c \in Cancel :
        /\ WF_vars(CancelReturns(c))
        /\ WF_vars((CancelServed(c) \/ CancelLost(c)) /\ UNCHANGED page)
    /\ \A s \in Session : WF_vars(Ends(s) /\ UNCHANGED page)

\* A page that shows a QR comes to show a result, unless its user reloads it or its cancel
\* is lost: however polls overlap, fail and come back late, it never waits for ever.
ResultShown == stage = "showing" ~> shown # "none" \/ cancelLost \/ stage # "showing"

=============================================================================
