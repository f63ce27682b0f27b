--------------------------- MODULE VerifierPromise ---------------------------
(***************************************************************************)
(* What the verifier promises about a session, without saying how: it      *)
(* reports at most one verdict, the one the presentation it was shown      *)
(* justifies, and reports it only to a read that was admitted before the   *)
(* session was closed (cancelled or expired) to anyone.                    *)
(***************************************************************************)
CONSTANTS Session, Read, Verdict, NoVerdict

VARIABLES
    justified,  \* the verdict the session's presentation justifies, if any
    verdict,    \* the verdict reported, if any
    closed,     \* sessions some client was told are over
    reading     \* session -> the reads admitted and not yet answered

vars == <<justified, verdict, closed, reading>>

Init ==
    /\ justified = [s \in Session |-> NoVerdict]
    /\ verdict = [s \in Session |-> NoVerdict]
    /\ closed = {}
    /\ reading = [s \in Session |-> {}]

\* A presentation arrives, once per session.
Present(s, v) ==
    /\ justified[s] = NoVerdict
    /\ justified' = [justified EXCEPT ![s] = v]
    /\ UNCHANGED <<verdict, closed, reading>>

Admit(r, s) ==
    /\ s \notin closed
    /\ \A t \in Session : r \notin reading[t]
    /\ reading' = [reading EXCEPT ![s] = @ \cup {r}]
    /\ UNCHANGED <<justified, verdict, closed>>

Report(r, s) ==
    /\ r \in reading[s]
    /\ justified[s] # NoVerdict
    /\ verdict' = [verdict EXCEPT ![s] = justified[s]]
    /\ reading' = [reading EXCEPT ![s] = @ \ {r}]
    /\ UNCHANGED <<justified, closed>>

\* A read ends without a verdict, and may be the one that tells the session is over.
Leave(r, s) ==
    /\ r \in reading[s]
    /\ reading' = [reading EXCEPT ![s] = @ \ {r}]
    /\ closed' \in {closed, closed \cup {s}}
    /\ UNCHANGED <<justified, verdict>>

Close(s) ==
    /\ closed' = closed \cup {s}
    /\ UNCHANGED <<justified, verdict, reading>>

\* The service stops: no admitted read will be answered.
Stop ==
    /\ reading' = [s \in Session |-> {}]
    /\ UNCHANGED <<justified, verdict, closed>>

Next ==
    \/ \E s \in Session, v \in Verdict : Present(s, v)
    \/ \E s \in Session : Close(s)
    \/ \E r \in Read, s \in Session : Admit(r, s) \/ Report(r, s) \/ Leave(r, s)
    \/ Stop

Spec == Init /\ [][Next]_vars
=============================================================================
