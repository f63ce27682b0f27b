------------------------------- MODULE Issuance -------------------------------
(***************************************************************************)
(* Issuing a credential to a holder's wallet: the credential endpoint of   *)
(* oid4vc-service for a signed-in holder, with claims read from the        *)
(* registry or from an authority's own endpoint (patches 0001, 0005 and    *)
(* 0006), and the age issuer's pre-authorised offers, redeemed at the same *)
(* endpoint.  Every lookup is a call; what is published and what is on     *)
(* record may change between any two of them.                              *)
(*                                                                         *)
(* A claim is represented by the record it was taken from, as in the       *)
(* resolver's provenance; its value is that record's.                      *)
(*                                                                         *)
(* External: credential-schema, the registry and the authorities' systems, *)
(* the offer store's expiry, and credentials-service, which signs.         *)
(***************************************************************************)
EXTENDS CredentialTypes

CONSTANTS
    NoSchema,
    Row,            \* what may be on record: [entity, subject, rank, fills]
    NoRow, Pending, \* no such record; a search without an answer yet
    Subject, NoSubject,
    Claim,
    SubjectEntity,  \* REGISTRY_SUBJECT_ENTITY
    Related,        \* the registry's related entities
    Sorted,         \* those with a configured order
    Endpoint,       \* the claim sources that authorities host
    Precedence,     \* of an entity among the sources of a claim
    Pinned, NoEntity, \* the entity an alias qualifies a claim with
    Registry, NoSource, Unmapped,
    MapById, MapByName, Default, \* CLAIM_SOURCE_MAP and CLAIM_SOURCE_DEFAULT
    Want,           \* what requests name
    Request,        \* handlers of the credential endpoint
    Ask,            \* handlers of the age issuer
    AgeEntity, AgeName, AgeFormat,
    AgeAuthor, NoAuthor, \* AGE_ISSUER_DID, if it is set
    MaxChanges      \* bound on changes of what is published and on record

Entity == {SubjectEntity} \cup Related \cup Endpoint
Source == {Registry, NoSource} \cup Endpoint

ASSUME IssuanceAssumption ==
    /\ NoSchema \notin Schema /\ NoSubject \notin Subject
    /\ NoRow \notin Row /\ Pending \notin Row /\ Pending # NoRow
    /\ \A x \in Row : x.subject \in Subject /\ x.rank \in Nat /\ x.fills \subseteq Claim
    /\ SubjectEntity \notin Related \cup Endpoint /\ Related \cap Endpoint = {}
    /\ Sorted \subseteq Related
    /\ Precedence \in [Entity -> Nat]
    /\ \A e, f \in Entity : Precedence[e] = Precedence[f] => e = f
    /\ \A s \in Schema : s.properties \subseteq Claim
    /\ Registry \notin Endpoint /\ NoSource \notin Endpoint /\ Registry # NoSource
    /\ Unmapped \notin Source /\ Default \in Source
    /\ \A s \in Schema : MapById[s.id] \in Source \cup {Unmapped}
    /\ \A s \in Schema : MapByName[s.name] \in Source \cup {Unmapped}
    /\ MaxChanges \in Nat

VARIABLES
    published, rows,   \* credential-schema; the registry and the authorities
    changes,
    at,                \* where each request to the credential endpoint is
    want, subject,     \* what it names; whom its token names
    type, format,      \* the credential it has come to
    read,              \* the answers of the claim source so far
    claims,            \* where each claim has been taken from
    why,               \* why it was refused
    since, gone,       \* history, since it asked its claim source: what has been on
                       \* record, and the entities that have held nothing of its subject
    ask, citizen, record, config, \* the age issuer's requests
    offers             \* the offers that can still be redeemed

resolution == <<read, claims, since, gone>>
requests == <<at, want, subject, type, format, resolution, why>>
counter == <<ask, citizen, record, config>>
world == <<published, rows, changes>>
vars == <<world, requests, counter, offers>>

NoWant == [id |-> Unnamed, vct |-> Unnamed, format |-> NoFormat]
Unread == [e \in Entity |-> NoRow]
Unclaimed == [c \in Claim |-> NoRow]

Reasons == {"none", "failed", "unlinked", "unknown", "notOurs", "format", "notConfigured",
            "unreachable", "noRecord", "missing", "expired"}

TypeOK ==
    /\ published \subseteq Schema /\ rows \subseteq Row /\ changes \in 0..MaxChanges
    /\ at \in [Request -> {"idle", "listing", "elsewhere", "sourcing", "minting", "issued",
                           "refused"}]
    /\ want \in [Request -> Want \cup {NoWant}]
    /\ subject \in [Request -> Subject \cup {NoSubject}]
    /\ type \in [Request -> Schema \cup {NoSchema}]
    /\ format \in [Request -> Format \cup {NoFormat}]
    /\ read \in [Request -> [Entity -> Row \cup {NoRow, Pending}]]
    /\ claims \in [Request -> [Claim -> Row \cup {NoRow}]]
    /\ why \in [Request -> Reasons]
    /\ since \in [Request -> SUBSET Row]
    /\ gone \in [Request -> SUBSET Entity]
    /\ ask \in [Ask -> {"idle", "finding", "resolving", "offering"}]
    /\ citizen \in [Ask -> Subject \cup {NoSubject}]
    /\ record \in [Ask -> Row \cup {NoRow}]
    /\ config \in [Ask -> Schema \cup {NoSchema}]
    /\ offers \subseteq [type : Schema, format : Format, row : Row]

Init ==
    /\ published \in SUBSET Schema /\ rows \in SUBSET Row /\ changes = 0
    /\ at = [r \in Request |-> "idle"]
    /\ want = [r \in Request |-> NoWant]
    /\ subject = [r \in Request |-> NoSubject]
    /\ type = [r \in Request |-> NoSchema]
    /\ format = [r \in Request |-> NoFormat]
    /\ read = [r \in Request |-> Unread]
    /\ claims = [r \in Request |-> Unclaimed]
    /\ why = [r \in Request |-> "none"]
    /\ since = [r \in Request |-> {}]
    /\ gone = [r \in Request |-> {}]
    /\ ask = [a \in Ask |-> "idle"]
    /\ citizen = [a \in Ask |-> NoSubject]
    /\ record = [a \in Ask |-> NoRow]
    /\ config = [a \in Ask |-> NoSchema]
    /\ offers = {}

-----------------------------------------------------------------------------
(***************************************************************************)
(* Where claims come from.                                                 *)
(***************************************************************************)
\* By id, then by name: two types may share a display name.
SourceOf(s) ==
    IF MapById[s.id] # Unmapped THEN MapById[s.id]
    ELSE IF MapByName[s.name] # Unmapped THEN MapByName[s.name] ELSE Default

\* The registry is asked for all it has of a subject, whatever the type needs.
Asked(s) == IF SourceOf(s) = Registry THEN {SubjectEntity} \cup Related ELSE {SourceOf(s)}

\* The search without which there is no holder to speak of.
First(s) == IF SourceOf(s) = Registry THEN SubjectEntity ELSE SourceOf(s)

\* Everybody's records.
AnyHolder(e, sub, among) == {x \in among : x.entity = e}

Matching(e, sub, among) == {x \in among : x.entity = e /\ x.subject = sub}

\* One record of an entity: the first in its configured order, or any.
Picks(e, sub) ==
    {x \in Matching(e, sub, rows) :
        e \in Sorted => \A y \in Matching(e, sub, rows) : x.rank <= y.rank}

Missing(e, sub, among) == {x \in among : x.entity = e /\ x.subject = sub} = {}

Fills(r, e, c) ==
    read[r][e] \in Row /\ c \in read[r][e].fills /\ Pinned[c] \in {NoEntity, e}

\* The first source that fills a claim, of the one entity that an alias pins it to.
FirstFilling(r, c) ==
    {e \in Entity : /\ Fills(r, e, c)
                    /\ \A f \in Entity : Fills(r, f, c) => Precedence[e] <= Precedence[f]}

\* The record a claim is taken from.
TakenFrom(r, c) ==
    IF c \in type[r].properties /\ FirstFilling(r, c) # {}
    THEN read[r][CHOOSE e \in Entity : e \in FirstFilling(r, c)]
    ELSE NoRow

Lacks(r) ==
    {c \in type[r].properties \cap type[r].required : TakenFrom(r, c) = NoRow}

-----------------------------------------------------------------------------
(***************************************************************************)
(* The credential endpoint, for a signed-in holder.                        *)
(***************************************************************************)
Goes(r, to) == at' = [at EXCEPT ![r] = to]

Refuses(r, reason) == Goes(r, "refused") /\ why' = [why EXCEPT ![r] = reason]

Begins(r, w, sub) ==
    /\ at[r] = "idle"
    /\ want' = [want EXCEPT ![r] = w]
    /\ subject' = [subject EXCEPT ![r] = sub]
    /\ IF sub = NoSubject THEN Refuses(r, "unlinked") ELSE Goes(r, "listing") /\ UNCHANGED why
    /\ UNCHANGED <<world, type, format, resolution, counter, offers>>

\* The type and its format are settled, and its claim source is asked.
Settles(r, m) ==
    /\ type' = [type EXCEPT ![r] = m.type]
    /\ format' = [format EXCEPT ![r] = FormatFor(want[r], m)]
    /\ read' = [read EXCEPT ![r] =
                    [e \in Entity |-> IF e \in Asked(m.type) THEN Pending ELSE NoRow]]
    /\ since' = [since EXCEPT ![r] = rows]
    /\ gone' = [gone EXCEPT ![r] = {e \in Entity : Missing(e, subject[r], rows)}]
    /\ Goes(r, "sourcing")
    /\ UNCHANGED <<claims, why>>

CannotIssue(r, reason) == Refuses(r, reason) /\ UNCHANGED <<type, format, resolution>>

Listed(r) ==
    /\ at[r] = "listing"
    /\ \E m \in Meant(want[r], Own(published)) :
        \/ /\ FormatFor(want[r], m) \notin Formats(m.type)
           /\ CannotIssue(r, "format")
        \/ /\ FormatFor(want[r], m) \in Formats(m.type)
           /\ SourceOf(m.type) = NoSource
           /\ CannotIssue(r, "notConfigured")
        \/ /\ FormatFor(want[r], m) \in Formats(m.type)
           /\ SourceOf(m.type) # NoSource
           /\ Settles(r, m)
    /\ UNCHANGED <<world, want, subject, counter, offers>>

\* Nothing of this issuer's is meant.  Perhaps it is another's: that takes a second lookup.
ListedInVain(r) ==
    /\ at[r] = "listing" /\ Meant(want[r], Own(published)) = {}
    /\ IF Narrowed /\ ~NamesNothing(want[r])
       THEN Goes(r, "elsewhere") /\ UNCHANGED why
       ELSE Refuses(r, "unknown")
    /\ UNCHANGED <<world, want, subject, type, format, resolution, counter, offers>>

LookedElsewhere(r) ==
    /\ at[r] = "elsewhere"
    /\ Refuses(r, IF Elsewhere(want[r], published) THEN "notOurs" ELSE "unknown")
    /\ UNCHANGED <<world, want, subject, type, format, resolution, counter, offers>>

Answered(r, e, x) ==
    /\ read' = [read EXCEPT ![r][e] = x]
    /\ UNCHANGED <<world, at, want, subject, type, format, claims, since, gone, why,
                   counter, offers>>

SearchAnswered(r, e) ==
    /\ at[r] = "sourcing" /\ read[r][e] = Pending
    /\ \/ \E x \in Picks(e, subject[r]) : Answered(r, e, x)
       \/ Picks(e, subject[r]) = {} /\ Answered(r, e, NoRow)

\* Nothing there, as for a related entity.
NothingThere(r, e) == Answered(r, e, NoRow)

\* A failure of the subject's own search ends the request, the others still out or not.
Stops(r, e) ==
    /\ Refuses(r, IF e \in Endpoint THEN "unreachable" ELSE "failed")
    /\ UNCHANGED <<world, want, subject, type, format, resolution, counter, offers>>

\* A failed search of a related entity counts as no record of it.
SearchFails(r, e) ==
    /\ at[r] = "sourcing" /\ read[r][e] = Pending
    /\ IF e = First(type[r]) THEN Stops(r, e) ELSE Answered(r, e, NoRow)

\* All searches are back.
Resolves(r) ==
    /\ at[r] = "sourcing" /\ \A e \in Entity : read[r][e] # Pending
    /\ \/ /\ read[r][First(type[r])] = NoRow
          /\ Refuses(r, "noRecord") /\ UNCHANGED claims
       \/ /\ read[r][First(type[r])] # NoRow /\ Lacks(r) # {}
          /\ Refuses(r, "missing") /\ UNCHANGED claims
       \/ /\ read[r][First(type[r])] # NoRow /\ Lacks(r) = {}
          /\ claims' = [claims EXCEPT ![r] = [c \in Claim |-> TakenFrom(r, c)]]
          /\ Goes(r, "minting") /\ UNCHANGED why
    /\ UNCHANGED <<world, want, subject, type, format, read, since, gone, counter, offers>>

\* The holder's proof is good, and credentials-service signs.
Mints(r) ==
    /\ at[r] = "minting"
    /\ Goes(r, "issued")
    /\ UNCHANGED <<world, want, subject, type, format, resolution, why, counter, offers>>

\* A service does not answer, or the proof is no good.
Fails(r) ==
    /\ at[r] \in {"listing", "elsewhere", "minting"}
    /\ Refuses(r, "failed")
    /\ UNCHANGED <<world, want, subject, type, format, resolution, counter, offers>>

\* The answer is sent; nothing of a request outlives it.
Ends(r) ==
    /\ at[r] \in {"issued", "refused"}
    /\ Goes(r, "idle")
    /\ want' = [want EXCEPT ![r] = NoWant]
    /\ subject' = [subject EXCEPT ![r] = NoSubject]
    /\ type' = [type EXCEPT ![r] = NoSchema]
    /\ format' = [format EXCEPT ![r] = NoFormat]
    /\ read' = [read EXCEPT ![r] = Unread]
    /\ claims' = [claims EXCEPT ![r] = Unclaimed]
    /\ why' = [why EXCEPT ![r] = "none"]
    /\ since' = [since EXCEPT ![r] = {}]
    /\ gone' = [gone EXCEPT ![r] = {}]
    /\ UNCHANGED <<world, counter, offers>>

-----------------------------------------------------------------------------
(***************************************************************************)
(* The age issuer: an offer of what the registry says of one citizen.      *)
(***************************************************************************)
Turns(a, to) == ask' = [ask EXCEPT ![a] = to]

counterSide == <<world, requests, offers>>

AskedFor(a, c) ==
    /\ ask[a] = "idle"
    /\ citizen' = [citizen EXCEPT ![a] = c]
    /\ Turns(a, "finding")
    /\ UNCHANGED <<counterSide, record, config>>

\* Exactly one citizen, from whose date of birth the assertions can be derived.
Found(a) ==
    /\ ask[a] = "finding"
    /\ \E x \in rows :
        /\ Matching(AgeEntity, citizen[a], rows) = {x} /\ x.fills # {}
        /\ record' = [record EXCEPT ![a] = x]
    /\ Turns(a, "resolving")
    /\ UNCHANGED <<counterSide, citizen, config>>

\* What the age issuer may issue as: by name, format and author.
AgeTypes ==
    {s \in published :
        s.name = AgeName /\ AgeFormat \in Formats(s)
        /\ (AgeAuthor # NoAuthor => s.author = AgeAuthor)}

Resolved(a) ==
    /\ ask[a] = "resolving"
    /\ \E s \in published :
        AgeTypes = {s} /\ config' = [config EXCEPT ![a] = s]
    /\ Turns(a, "offering")
    /\ UNCHANGED <<counterSide, citizen, record>>

\* By the display name.
PostedByName(a) == {s \in published : s.name = config[a].name}

\* The offer is made for the configuration id: the schema's, looked up once more.
Posted(a) == {s \in published : s.id = config[a].id}

\* The offer stands upstream, whether its answer comes back or not; asked again, there
\* are two of them.
Offered(a) ==
    /\ ask[a] = "offering"
    /\ \E s \in Posted(a) :
        /\ AgeFormat \in Formats(s)
        /\ offers' = offers \cup {[type |-> s, format |-> AgeFormat, row |-> record[a]]}
    /\ citizen' = [citizen EXCEPT ![a] = NoSubject]
    /\ record' = [record EXCEPT ![a] = NoRow]
    /\ config' = [config EXCEPT ![a] = NoSchema]
    /\ Turns(a, "idle")
    /\ UNCHANGED <<world, requests>>

\* No such citizen, or several; no such type, or several; a service that does not answer.
AskFails(a) ==
    /\ ask[a] # "idle"
    /\ citizen' = [citizen EXCEPT ![a] = NoSubject]
    /\ record' = [record EXCEPT ![a] = NoRow]
    /\ config' = [config EXCEPT ![a] = NoSchema]
    /\ Turns(a, "idle")
    /\ UNCHANGED counterSide

\* With the pre-authorised token of an offer: everything was fixed when it was made.
Redeems(r, o) ==
    /\ at[r] = "idle"
    /\ type' = [type EXCEPT ![r] = o.type]
    /\ format' = [format EXCEPT ![r] = o.format]
    /\ claims' = [claims EXCEPT ![r] =
                    [c \in Claim |-> IF c \in o.row.fills THEN o.row ELSE NoRow]]
    /\ Goes(r, "minting")
    /\ UNCHANGED <<world, want, subject, read, since, gone, why, counter, offers>>

RedeemsLate(r) ==
    /\ at[r] = "idle"
    /\ Refuses(r, "expired")
    /\ UNCHANGED <<world, want, subject, type, format, resolution, counter, offers>>

OfferEnds(o) ==
    /\ offers' = offers \ {o}
    /\ UNCHANGED <<world, requests, counter>>

-----------------------------------------------------------------------------
\* A record is added, or removed.
RowChanges(x) ==
    /\ changes < MaxChanges
    /\ changes' = changes + 1
    /\ rows' = IF x \in rows THEN rows \ {x} ELSE rows \cup {x}
    /\ since' = [r \in Request |-> IF at[r] = "sourcing" THEN since[r] \cup rows' ELSE since[r]]
    /\ gone' = [r \in Request |->
                    IF at[r] = "sourcing"
                    THEN gone[r] \cup {e \in Entity : Missing(e, subject[r], rows')}
                    ELSE gone[r]]
    /\ UNCHANGED <<published, at, want, subject, type, format, read, claims, why, counter,
                   offers>>

\* A schema is published, or withdrawn.
SchemaChanges(s) ==
    /\ changes < MaxChanges
    /\ changes' = changes + 1
    /\ published' = IF s \in published THEN published \ {s} ELSE published \cup {s}
    /\ UNCHANGED <<rows, requests, counter, offers>>

Serves(r) ==
    \/ \E w \in Want, sub \in Subject \cup {NoSubject} : Begins(r, w, sub)
    \/ Listed(r) \/ ListedInVain(r) \/ LookedElsewhere(r)
    \/ \E e \in Entity : SearchAnswered(r, e) \/ SearchFails(r, e)
    \/ Resolves(r) \/ Mints(r) \/ Fails(r) \/ Ends(r)
    \/ \E o \in offers : Redeems(r, o)
    \/ RedeemsLate(r)

OffersTo(a) ==
    \/ \E c \in Subject : AskedFor(a, c)
    \/ Found(a) \/ Resolved(a) \/ Offered(a) \/ AskFails(a)

Next ==
    \/ \E r \in Request : Serves(r)
    \/ \E a \in Ask : OffersTo(a)
    \/ \E o \in offers : OfferEnds(o)
    \/ \E x \in Row : RowChanges(x)
    \/ \E s \in Schema : SchemaChanges(s)

Spec == Init /\ [][Next]_vars

-----------------------------------------------------------------------------
(***************************************************************************)
(* What issuance promises.                                                 *)
(***************************************************************************)
SelfService(r) == at[r] \in {"minting", "issued"} /\ subject[r] # NoSubject

\* A holder is never handed another credential than the one asked for, whatever way the
\* wallet named it and whatever else is published meanwhile; and a narrowed issuer mints
\* nothing another issuer authored (buildSelfServiceSession, ownConfigs).
IssuedAsAsked ==
    \A r \in Request : SelfService(r) =>
        /\ IsAsAsked(want[r], type[r], format[r])
        /\ Narrowed => type[r].author = Self

\* Every claim of a self-service credential is on a record of the token's own subject, at
\* the one source its type is mapped to, and was there at some moment since that source
\* was asked, although the records were searched one beside the other; and none of the
\* required ones is left out.
ClaimsOfSubject ==
    \A r \in Request : SelfService(r) =>
        /\ \A c \in Claim : claims[r][c] # NoRow =>
            /\ claims[r][c] \in since[r] /\ claims[r][c].subject = subject[r]
            /\ claims[r][c].entity \in Asked(type[r])
            /\ c \in claims[r][c].fills
        /\ \A c \in type[r].properties \cap type[r].required : claims[r][c] # NoRow

\* A holder is told "no record" only if the authority that was asked had none, at some
\* moment of the request: an outage is never taken for an absence (resolveClaimsFor).
NoRecordIsTrue ==
    \A r \in Request : why[r] = "noRecord" => First(type[r]) \in gone[r]

\* What the age issuer means by its type.
OfAge(s) ==
    /\ s.name = AgeName /\ AgeFormat \in Formats(s)
    /\ AgeAuthor # NoAuthor => s.author = AgeAuthor

\* Whatever is published between the age issuer's lookup and the offer service's own, an
\* offer, and a credential redeemed from one, is of the type and author the age issuer
\* means, about a citizen of its registry.
OfferedAsMeant ==
    /\ \A o \in offers : OfAge(o.type) /\ o.format = AgeFormat /\ o.row.entity = AgeEntity
    /\ \A r \in Request : at[r] \in {"minting", "issued"} /\ subject[r] = NoSubject =>
        /\ OfAge(type[r]) /\ format[r] = AgeFormat
        /\ \A c \in Claim : claims[r][c] # NoRow => claims[r][c].entity = AgeEntity
=============================================================================
