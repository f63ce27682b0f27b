-------------------------- MODULE VerifierInvariant --------------------------
(***************************************************************************)
(* The inductive invariant behind the safety properties of Verifier: what  *)
(* a handler that has awaited something may still rely on, and why a       *)
(* session that was told to be over stays over.                            *)
(***************************************************************************)
EXTENDS Verifier

\* A handler that runs reads a session some page was given, and has not answered.
ReadsUnderway ==
    \A r \in Read :
        /\ pc[r] = "idle" => target[r] = NoSession
        /\ pc[r] # "idle" => target[r] \in issued /\ answer[r] = "none"

\* The reply a handler holds is still what upstream stores, or a transaction that is gone.
BodyCurrent ==
    \A r \in Read :
        /\ pc[r] \in {"idle", "getStatus"} => body[r] = Absent
        /\ body[r] \in Presentation => body[r] = result[target[r]]
        /\ body[r] = Gone => txnExpires[target[r]] <= now
        /\ pc[r] = "gotStatus" => body[r] # Absent

\* At slot k of the loop, every check of slots 1 to k passed on the body it holds, and the
\* status checks of the earlier slots found their credentials ACTIVE during this read.
LoopProgress ==
    \A r \in Read : pc[r] \in {"getStanding", "gotStanding"} =>
        LET requests == Requests[target[r]]
        IN  /\ body[r] \in Presentation
            /\ ChecksPass(body[r]) /\ AlgorithmsApproved(body[r].algs)
            /\ slot[r] \in 1 .. Len(requests)
            /\ MayAsk(body[r], requests[slot[r]])
            /\ \A k \in 1 .. slot[r] : SlotPasses(body[r], requests[k])
            /\ \A k \in 1 .. slot[r] - 1 : requests[k].statusClaim =>
                    body[r].claims[requests[k].id].credential \in seenActive[r]

\* The ghost seenActive misses no credential that is or was just found ACTIVE.
ActiveSeen ==
    \A r \in Read : pc[r] # "idle" =>
        /\ \A c \in Credential : standing[c] = "ACTIVE" => c \in seenActive[r]
        /\ pc[r] = "gotStanding" /\ Usable(report[r]) => CredentialAt(r) \in seenActive[r]

\* A read that began after its session was closed can only have found the transaction gone.
LateFindsNothing ==
    \A r \in Read : pc[r] # "idle" /\ late[r] =>
        /\ Closed(target[r])
        /\ pc[r] \in {"getStatus", "gotStatus"}
        /\ txnExpires[target[r]] <= now
        /\ pc[r] = "gotStatus" => body[r] \in {Gone, Failed}

\* Why a session is closed, in a form no later step undoes.
ClosedForGood ==
    \A s \in Session : Closed(s) => Expired(s) \/ s \in abandoned \/ txnExpires[s] <= now

\* A session is created once, after its transaction, and told about only after that.
CreatedOnce ==
    /\ creating \cap issued = {}
    /\ \A s \in Session :
        /\ history[s] # {} => s \in issued
        /\ s \in creating => result[s] = Pending
        /\ s \in issued => result[s] # Absent

\* A stored result outlives the session.
ResultOutlives ==
    \A s \in Session :
        /\ expiresAt[s] <= now + TTL
        /\ result[s] \in Presentation => expiresAt[s] <= txnExpires[s]

\* Every decision that was ever told is the one the stored presentation earns.
ToldEarned ==
    \A s \in Session : \A a \in history[s] \cap Decision :
        /\ result[s] \in Presentation
        /\ a = result[s].outcome
        /\ GatePasses(result[s], Requests[s])

\* The invariant every step preserves: readSession's safety rests on these parts together.
IInv ==
    /\ TypeOK
    /\ ReadsUnderway
    /\ BodyCurrent
    /\ LoopProgress
    /\ ActiveSeen
    /\ LateFindsNothing
    /\ ClosedForGood
    /\ CreatedOnce
    /\ ResultOutlives
    /\ ToldEarned

=============================================================================
