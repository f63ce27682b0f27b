---------------------------- MODULE CredentialTypes ----------------------------
(***************************************************************************)
(* Which published credential type a request means.  The credential        *)
(* endpoint (buildSelfServiceSession) is asked by configuration id, by     *)
(* vct, by format, or by nothing at all; the age issuer                    *)
(* (resolveCredentialConfig) looks for one by name, format and author.     *)
(* Both look in what credential-schema publishes at that moment, in no     *)
(* particular order: find returns any one of several.                      *)
(***************************************************************************)
EXTENDS Naturals, Sequences

CONSTANTS
    Schema,     \* the credential types a deployment may publish
    Format, SdJwt, NoFormat,
    Narrowed,   \* ADVERTISE_OWN_CREDENTIALS_ONLY, with ISSUER_DID set
    Self,       \* ISSUER_DID
    Unnamed     \* an id or a vct that a request does not name

Formats(s) == {s.formats[i] : i \in DOMAIN s.formats}

ASSUME TypesAssumption ==
    /\ SdJwt \in Format /\ NoFormat \notin Format
    /\ Narrowed \in BOOLEAN
    /\ \A s \in Schema : s.formats \in Seq(Format)
    /\ \A s, t \in Schema : s.id = t.id => s = t
    /\ \A s \in Schema : s.vct # Unnamed

\* The schemas this instance issues from, of those published.
Own(published) == {s \in published : Narrowed => s.author = Self}

\* A configuration id names a type, or a type and one of its formats.
Bare(s) == <<s.id>>
Suffixed(s, f) == <<s.id, f>>

Means(s, f) == [type |-> s, format |-> f]

ById(want, C) == {Means(s, NoFormat) : s \in {t \in C : want.id = Bare(t)}}

BySuffix(want, C) ==
    {m \in {Means(s, f) : s \in C, f \in Format} :
        m.format \in Formats(m.type) /\ want.id = Suffixed(m.type, m.format)}

ByVct(want, C) ==
    {Means(s, SdJwt) : s \in {t \in C : SdJwt \in Formats(t) /\ want.vct = t.vct}}

NamesNothing(want) == want.id = Unnamed /\ want.vct = Unnamed

Offering(want, C) == {s \in C : want.format # NoFormat => want.format \in Formats(s)}

\* The only type there is, whatever was named.
SoleAnyway(want, C) == {Means(s, NoFormat) : s \in {t \in C : Offering(want, C) = {t}}}

\* The last resort, only for a request that named nothing at all.
Sole(want, C) == IF NamesNothing(want) THEN SoleAnyway(want, C) ELSE {}

\* An id that fits nothing is no end of it: the vct is tried next.
Meant(want, C) ==
    IF ById(want, C) # {} THEN ById(want, C)
    ELSE IF BySuffix(want, C) # {} THEN BySuffix(want, C)
    ELSE IF ByVct(want, C) # {} THEN ByVct(want, C)
    ELSE Sole(want, C)

\* Another issuer's type by that name: "not mine" is not "no such thing".
Elsewhere(want, C) == ById(want, C) \cup BySuffix(want, C) \cup ByVct(want, C) # {}

\* The format asked for, the one in the id, or the type's first.
FormatFor(want, m) ==
    IF want.format # NoFormat THEN want.format
    ELSE IF m.format # NoFormat THEN m.format
    ELSE IF m.type.formats # <<>> THEN m.type.formats[1]
    ELSE NoFormat

\* What a holder may expect of a credential, whatever order the code looks in: it is of
\* the type named by id or by vct, and in the format named; it is any type's only where
\* nothing was named.
IsAsAsked(want, s, f) ==
    /\ f \in Formats(s)
    /\ want.format # NoFormat => f = want.format
    /\ \/ NamesNothing(want)
       \/ want.id = Bare(s)
       \/ \E g \in Formats(s) :
            want.id = Suffixed(s, g) /\ (want.format = NoFormat => f = g)
       \/ want.vct = s.vct /\ (want.format = NoFormat => f = SdJwt)
=============================================================================
