--------------------------- MODULE IssuanceInvariant ---------------------------
(***************************************************************************)
(* Why the promises of Issuance hold: the inductive invariant behind them. *)
(* A request that has asked its claim source has its type, its format and  *)
(* its holder settled; what has been read since is the holder's, and was   *)
(* on record since; and the age issuer carries a citizen's record and a    *)
(* type of its own from one lookup to the next.                            *)
(***************************************************************************)
EXTENDS Issuance

\* Whose type, and in whose format.
AsAsked(r) ==
    /\ IsAsAsked(want[r], type[r], format[r])
    /\ Narrowed => type[r].author = Self

\* A self-service request has a holder from its first step on; one that has not begun has
\* none, and only a refused one has a reason.
HasHolder(r) ==
    /\ at[r] \in {"listing", "elsewhere", "sourcing"} => subject[r] \in Subject
    /\ at[r] = "idle" => subject[r] = NoSubject
    /\ at[r] # "refused" => why[r] = "none"

\* The history covers the present.
Remembers(r) ==
    /\ rows \subseteq since[r]
    /\ \A e \in Entity : Missing(e, subject[r], rows) => e \in gone[r]

\* What a search has brought, and what its silence means.
HasSearched(r) ==
    /\ \A e \in Entity : read[r][e] \in Row =>
        /\ read[r][e] \in since[r] /\ read[r][e].subject = subject[r]
        /\ read[r][e].entity = e /\ e \in Asked(type[r])
    /\ \A e \in Entity : read[r][e] = Pending => e \in Asked(type[r])
    /\ read[r][First(type[r])] = NoRow => First(type[r]) \in gone[r]

Sourcing(r) ==
    at[r] = "sourcing" =>
        /\ type[r] \in Schema /\ SourceOf(type[r]) # NoSource
        /\ AsAsked(r) /\ Remembers(r) /\ HasSearched(r)

\* The age issuer between its calls.
AtCounter ==
    \A a \in Ask :
        /\ ask[a] \in {"resolving", "offering"} =>
            record[a] \in Row /\ record[a].entity = AgeEntity
        /\ ask[a] = "offering" => config[a] \in Schema /\ OfAge(config[a])

\* The inductive invariant: the parts above, with types and the promises.
IInv ==
    /\ TypeOK
    /\ \A r \in Request : HasHolder(r) /\ Sourcing(r)
    /\ AtCounter
    /\ IssuedAsAsked /\ ClaimsOfSubject /\ NoRecordIsTrue /\ OfferedAsMeant
=============================================================================
