--------------------------- MODULE AuthorityPromise ---------------------------
(***************************************************************************)
(* What issuing through the Authority promises, without saying how (no     *)
(* calls, tokens, retries or idempotency keys): the Authority registers at *)
(* most one credential per profile, record and subject, only ever for a    *)
(* record that was its subject's single match, and a request is handed at  *)
(* most one of them, its own: the one for the subject and profile it asked *)
(* for.                                                                    *)
(***************************************************************************)
CONSTANTS Request, Subject, Profile, Osid, Anchor, NoAsk

Ask == [subject : Subject, profile : Profile]
Linkage == [subject : Subject, osid : Osid, profile : Profile, anchor : Anchor]

VARIABLES
    asking,     \* what each request asks for, or NoAsk
    sole,       \* <<subject, record>> where the record was once the only match
    registered, \* the credentials the Authority holds
    linked      \* those handed to credentials of ours

vars == <<asking, sole, registered, linked>>

Init ==
    /\ asking = [r \in Request |-> NoAsk]
    /\ sole = {} /\ registered = {} /\ linked = {}

Asks(r, ask) ==
    /\ asking[r] = NoAsk
    /\ asking' = [asking EXCEPT ![r] = ask]
    /\ UNCHANGED <<sole, registered, linked>>

\* The registry changes, and a record is now its subject's only match.
Matches(s, o) ==
    /\ sole' = sole \cup {<<s, o>>}
    /\ UNCHANGED <<asking, registered, linked>>

\* On behalf of some request, perhaps one that has given up since.
Registers(l) ==
    /\ <<l.subject, l.osid>> \in sole
    /\ \A k \in registered :
        /\ k.anchor # l.anchor
        /\ <<k.profile, k.osid, k.subject>> # <<l.profile, l.osid, l.subject>>
    /\ registered' = registered \cup {l}
    /\ UNCHANGED <<asking, sole, linked>>

Hands(r, l) ==
    /\ l \in registered
    /\ asking[r] = [subject |-> l.subject, profile |-> l.profile]
    /\ linked' = linked \cup {l}
    /\ asking' = [asking EXCEPT ![r] = NoAsk]
    /\ UNCHANGED <<sole, registered>>

\* Requests end with nothing: one alone, those that shared an exchange, or all.
GiveUp(Q) ==
    /\ asking' = [r \in Request |-> IF r \in Q THEN NoAsk ELSE asking[r]]
    /\ UNCHANGED <<sole, registered, linked>>

Next ==
    \/ \E r \in Request : (\E ask \in Ask : Asks(r, ask)) \/ (\E l \in Linkage : Hands(r, l))
    \/ \E s \in Subject, o \in Osid : Matches(s, o)
    \/ \E l \in Linkage : Registers(l)
    \/ \E Q \in SUBSET Request : GiveUp(Q)

Spec == Init /\ [][Next]_vars
=============================================================================
