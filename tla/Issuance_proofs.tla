---------------------------- MODULE Issuance_proofs ----------------------------
(***************************************************************************)
(* Proofs about Issuance, for every set of credential types, records,      *)
(* entities, sources, holders, requests and changes of the world.          *)
(*                                                                         *)
(* The plan: IInv is a condition of each request by itself (Good), of the  *)
(* age issuer's side (AtCounter) and of the offers (OffersMeant).  A step  *)
(* of a request has to keep its own Good only (OneMoves); the age issuer   *)
(* and the offers' ends leave all of them alone (NoneMoves); and what      *)
(* changes on record is met by the history (RowChanges).                   *)
(***************************************************************************)
EXTENDS IssuanceInvariant, TLAPS

OnRecord(r) ==
    /\ \A c \in Claim : claims[r][c] # NoRow =>
        /\ claims[r][c] \in since[r] /\ claims[r][c].subject = subject[r]
        /\ claims[r][c].entity \in Asked(type[r])
        /\ c \in claims[r][c].fills
    /\ \A c \in type[r].properties \cap type[r].required : claims[r][c] # NoRow

OfOffer(r) ==
    /\ OfAge(type[r]) /\ format[r] = AgeFormat
    /\ \A c \in Claim : claims[r][c] # NoRow => claims[r][c].entity = AgeEntity

\* All that IInv says of one request.
Good(r) ==
    /\ HasHolder(r) /\ Sourcing(r)
    /\ SelfService(r) => AsAsked(r) /\ OnRecord(r)
    /\ why[r] = "noRecord" => First(type[r]) \in gone[r]
    /\ at[r] \in {"minting", "issued"} /\ subject[r] = NoSubject => OfOffer(r)

OffersMeant ==
    \A o \in offers : OfAge(o.type) /\ o.format = AgeFormat /\ o.row.entity = AgeEntity

LEMMA GoodParts ==
    (TypeOK /\ AtCounter /\ OffersMeant /\ \A r \in Request : Good(r)) => IInv
BY DEF IInv, Good, OffersMeant, OnRecord, OfOffer, AsAsked, IssuedAsAsked,
       ClaimsOfSubject, NoRecordIsTrue, OfferedAsMeant

LEMMA GoodPartsNext ==
    ASSUME TypeOK', AtCounter', OffersMeant', \A r \in Request : Good(r)'
    PROVE  IInv'
BY DEF IInv, Good, OffersMeant, OnRecord, OfOffer, AsAsked, IssuedAsAsked,
       ClaimsOfSubject, NoRecordIsTrue, OfferedAsMeant

LEMMA PartsGood ==
    IInv => TypeOK /\ AtCounter /\ OffersMeant /\ \A r \in Request : Good(r)
<1>1. IInv => TypeOK /\ AtCounter
  BY DEF IInv
<1>2. IInv => OffersMeant
  <2> SUFFICES ASSUME IInv, NEW o \in offers
               PROVE  OfAge(o.type) /\ o.format = AgeFormat /\ o.row.entity = AgeEntity
    BY DEF OffersMeant
  <2> QED BY DEF IInv, OfferedAsMeant, OfAge
<1>3. ASSUME IInv, NEW r \in Request PROVE Good(r)
  <2>1. HasHolder(r) /\ Sourcing(r)
    BY <1>3 DEF IInv
  <2>2. SelfService(r) => AsAsked(r) /\ OnRecord(r)
    BY <1>3 DEF IInv, IssuedAsAsked, ClaimsOfSubject, AsAsked, OnRecord
  <2>3. why[r] = "noRecord" => First(type[r]) \in gone[r]
    BY <1>3 DEF IInv, NoRecordIsTrue
  <2>4. at[r] \in {"minting", "issued"} /\ subject[r] = NoSubject => OfOffer(r)
    BY <1>3 DEF IInv, OfferedAsMeant, OfOffer, OfAge
  <2> QED BY <2>1, <2>2, <2>3, <2>4 DEF Good
<1> QED BY <1>1, <1>2, <1>3

-----------------------------------------------------------------------------
(***************************************************************************)
(* Which type a request means.                                             *)
(***************************************************************************)
LEMMA OwnTyped ==
    ASSUME NEW P \in SUBSET Schema
    PROVE  /\ Own(P) \subseteq P
           /\ \A s \in Own(P) : Narrowed => s.author = Self
BY DEF Own

\* Whatever way it was found: of those looked among, and as it was asked for.
LEMMA MeantIsAsked ==
    ASSUME NEW w, NEW C \in SUBSET Schema, NEW m \in Meant(w, C),
           FormatFor(w, m) \in Formats(m.type)
    PROVE  m.type \in C /\ IsAsAsked(w, m.type, FormatFor(w, m))
<1>1. CASE m \in ById(w, C)
  <2>1. PICK s \in {t \in C : w.id = Bare(t)} : m = Means(s, NoFormat)
    BY <1>1 DEF ById
  <2> QED BY <2>1 DEF IsAsAsked, FormatFor, Means
<1>2. CASE m \in BySuffix(w, C)
  <2>1. PICK s \in C, f \in Format : m = Means(s, f)
    BY <1>2 DEF BySuffix
  <2>2. m.format \in Formats(m.type) /\ w.id = Suffixed(m.type, m.format)
    BY <1>2 DEF BySuffix
  <2>3. m.type = s /\ m.format = f /\ f # NoFormat
    BY <2>1, TypesAssumption DEF Means
  <2>4. w.format = NoFormat => FormatFor(w, m) = m.format
    BY <2>3 DEF FormatFor
  <2>5. w.format # NoFormat => FormatFor(w, m) = w.format
    BY DEF FormatFor
  <2> QED BY <2>2, <2>3, <2>4, <2>5 DEF IsAsAsked
<1>3. CASE m \in ByVct(w, C)
  <2>1. PICK s \in {t \in C : SdJwt \in Formats(t) /\ w.vct = t.vct} : m = Means(s, SdJwt)
    BY <1>3 DEF ByVct
  <2>2. m.type = s /\ m.format = SdJwt /\ SdJwt # NoFormat
    BY <2>1, TypesAssumption DEF Means
  <2> QED BY <2>1, <2>2 DEF IsAsAsked, FormatFor
<1>4. CASE m \in Sole(w, C)
  <2>1. NamesNothing(w) /\ m \in SoleAnyway(w, C)
    BY <1>4 DEF Sole
  <2>2. PICK s \in {t \in C : Offering(w, C) = {t}} : m = Means(s, NoFormat)
    BY <2>1 DEF SoleAnyway
  <2>3. m.type \in C
    BY <2>2 DEF Means
  <2> QED BY <2>1, <2>3 DEF IsAsAsked, FormatFor
<1> QED BY <1>1, <1>2, <1>3, <1>4 DEF Meant

LEMMA FormatsTyped ==
    ASSUME NEW s \in Schema
    PROVE  Formats(s) \subseteq Format
BY TypesAssumption DEF Formats

\* A type with a source has a first search, among those its source answers.
LEMMA FirstIsAsked ==
    ASSUME NEW s \in Schema, SourceOf(s) # NoSource
    PROVE  First(s) \in Asked(s) /\ Asked(s) \subseteq Entity
BY IssuanceAssumption DEF First, Asked, SourceOf, Entity, Source

-----------------------------------------------------------------------------
(***************************************************************************)
(* Which steps leave what alone.                                           *)
(***************************************************************************)
\* A request that a step does not touch, on records that stay, is as good as before.
LEMMA Untouched ==
    ASSUME NEW q \in Request, Good(q), rows' = rows,
           at'[q] = at[q], want'[q] = want[q], subject'[q] = subject[q],
           type'[q] = type[q], format'[q] = format[q], read'[q] = read[q],
           claims'[q] = claims[q], why'[q] = why[q], since'[q] = since[q],
           gone'[q] = gone[q]
    PROVE  Good(q)'
BY DEF Good, HasHolder, Sourcing, AsAsked, IsAsAsked, NamesNothing, Remembers, HasSearched,
       Missing, First, Asked, SourceOf, SelfService, OnRecord, OfOffer, OfAge, Formats,
       Bare, Suffixed

\* A step of one request.
Alone(r) ==
    /\ \A q \in Request \ {r} :
        /\ at'[q] = at[q] /\ want'[q] = want[q] /\ subject'[q] = subject[q]
        /\ type'[q] = type[q] /\ format'[q] = format[q] /\ read'[q] = read[q]
        /\ claims'[q] = claims[q] /\ why'[q] = why[q] /\ since'[q] = since[q]
        /\ gone'[q] = gone[q]
    /\ UNCHANGED <<world, counter, offers>>

LEMMA CounterStays ==
    ASSUME AtCounter, OffersMeant, UNCHANGED <<counter, offers>>
    PROVE  AtCounter' /\ OffersMeant'
BY DEF AtCounter, OffersMeant, counter, OfAge, Formats

LEMMA OneMoves ==
    ASSUME IInv, NEW r \in Request, Alone(r), TypeOK', Good(r)'
    PROVE  IInv'
<1>1. AtCounter' /\ OffersMeant'
  BY PartsGood, CounterStays DEF Alone
<1>2. ASSUME NEW q \in Request PROVE Good(q)'
  <2>1. CASE q = r
    BY <2>1
  <2>2. CASE q # r
    BY <1>2, <2>2, PartsGood, Untouched DEF Alone, world
  <2> QED BY <2>1, <2>2
<1> QED BY <1>1, <1>2, GoodPartsNext

\* A step that no request is concerned by.
LEMMA NoneMoves ==
    ASSUME IInv, UNCHANGED <<rows, requests>>, TypeOK', AtCounter', OffersMeant'
    PROVE  IInv'
<1>1. ASSUME NEW q \in Request PROVE Good(q)'
  BY <1>1, PartsGood, Untouched DEF requests, resolution
<1> QED BY <1>1, GoodPartsNext

-----------------------------------------------------------------------------
(***************************************************************************)
(* The steps of a request.                                                 *)
(***************************************************************************)
LEMMA BeginsKeeps ==
    ASSUME IInv, NEW r \in Request, NEW w \in Want, NEW sub \in Subject \cup {NoSubject},
           Begins(r, w, sub)
    PROVE  IInv'
<1>1. TypeOK'
  BY PartsGood DEF Begins, TypeOK, Goes, Refuses, Reasons, world, resolution, counter
<1>2. Alone(r)
  BY PartsGood DEF Begins, Alone, TypeOK, Goes, Refuses, world, resolution, counter
<1>3. Good(r)'
  BY PartsGood DEF Begins, TypeOK, Goes, Refuses, Good, HasHolder, Sourcing, SelfService
<1> QED BY <1>1, <1>2, <1>3, OneMoves

LEMMA RefusalKeeps ==
    ASSUME IInv, NEW r \in Request, NEW reason \in Reasons, Refuses(r, reason),
           reason = "noRecord" => First(type[r]) \in gone[r],
           UNCHANGED <<world, want, subject, type, format, resolution, counter, offers>>
    PROVE  IInv'
<1>1. TypeOK'
  BY PartsGood DEF TypeOK, Goes, Refuses, world, resolution, counter
<1>2. Alone(r)
  BY PartsGood DEF Alone, TypeOK, Goes, Refuses, world, resolution, counter
<1>3. why'[r] = reason /\ at'[r] = "refused"
  BY PartsGood DEF TypeOK, Goes, Refuses
<1>4. Good(r)'
  <2>1. HasHolder(r)' /\ Sourcing(r)' /\ ~SelfService(r)'
    BY <1>3 DEF HasHolder, Sourcing, SelfService
  <2>2. (why[r] = "noRecord" => First(type[r]) \in gone[r])'
    BY <1>3 DEF resolution, First, SourceOf
  <2>3. (at[r] \in {"minting", "issued"} /\ subject[r] = NoSubject => OfOffer(r))'
    BY <1>3
  <2> QED BY <2>1, <2>2, <2>3 DEF Good
<1> QED BY <1>1, <1>2, <1>4, OneMoves

LEMMA SettlesGood ==
    ASSUME IInv, NEW r \in Request, at[r] = "listing",
           NEW m \in Meant(want[r], Own(published)),
           FormatFor(want[r], m) \in Formats(m.type), SourceOf(m.type) # NoSource,
           Settles(r, m), UNCHANGED <<world, want, subject, counter, offers>>
    PROVE  IInv'
<1>1. m.type \in Schema /\ (Narrowed => m.type.author = Self)
      /\ IsAsAsked(want[r], m.type, FormatFor(want[r], m))
  BY PartsGood, OwnTyped, MeantIsAsked DEF TypeOK
<1>2. FormatFor(want[r], m) \in Format
  BY <1>1, FormatsTyped
<1>3. TypeOK'
  BY <1>1, <1>2, PartsGood DEF Settles, TypeOK, Goes, world, counter
<1>4. Alone(r)
  BY PartsGood DEF Settles, Alone, TypeOK, Goes, world, counter
<1>5. /\ at'[r] = "sourcing" /\ type'[r] = m.type /\ format'[r] = FormatFor(want[r], m)
      /\ read'[r] = [e \in Entity |-> IF e \in Asked(m.type) THEN Pending ELSE NoRow]
      /\ since'[r] = rows /\ gone'[r] = {e \in Entity : Missing(e, subject[r], rows)}
      /\ want'[r] = want[r] /\ subject'[r] = subject[r] /\ why'[r] = why[r]
  BY PartsGood DEF Settles, TypeOK, Goes
<1>6. HasHolder(r)' /\ ~SelfService(r)'
  BY <1>5, PartsGood DEF Good, HasHolder, SelfService
<1>7. AsAsked(r)' /\ Remembers(r)'
  BY <1>1, <1>5 DEF AsAsked, Remembers, IsAsAsked, NamesNothing, Bare, Suffixed, Formats,
                    Missing, world
<1>8. HasSearched(r)'
  <2>1. First(m.type) \in Entity /\ First(m.type) \in Asked(m.type)
    BY <1>1, FirstIsAsked
  <2>2. First(type[r])' = First(m.type) /\ Asked(type[r])' = Asked(m.type)
    BY <1>5 DEF First, Asked, SourceOf
  <2>3. \A e \in Entity : read'[r][e] = (IF e \in Asked(m.type) THEN Pending ELSE NoRow)
    BY <1>5
  <2> QED BY <2>1, <2>2, <2>3, IssuanceAssumption DEF HasSearched
<1>9. (SourceOf(type[r]) # NoSource)'
  BY <1>5 DEF SourceOf
<1>10. Good(r)'
  BY <1>1, <1>5, <1>6, <1>7, <1>8, <1>9, PartsGood DEF Good, HasHolder, Sourcing
<1> QED BY <1>3, <1>4, <1>10, OneMoves

LEMMA ListedKeeps ==
    ASSUME IInv, NEW r \in Request, Listed(r)
    PROVE  IInv'
<1>1. at[r] = "listing" /\ UNCHANGED <<world, want, subject, counter, offers>>
  BY DEF Listed
<1>2. PICK m \in Meant(want[r], Own(published)) :
        \/ CannotIssue(r, "format")
        \/ CannotIssue(r, "notConfigured")
        \/ /\ FormatFor(want[r], m) \in Formats(m.type)
           /\ SourceOf(m.type) # NoSource
           /\ Settles(r, m)
  BY DEF Listed
<1>3. CASE CannotIssue(r, "format") \/ CannotIssue(r, "notConfigured")
  BY <1>1, <1>3, RefusalKeeps DEF CannotIssue, Reasons
<1>4. CASE /\ FormatFor(want[r], m) \in Formats(m.type)
           /\ SourceOf(m.type) # NoSource
           /\ Settles(r, m)
  BY <1>1, <1>4, SettlesGood
<1> QED BY <1>2, <1>3, <1>4

LEMMA ListedInVainKeeps ==
    ASSUME IInv, NEW r \in Request, ListedInVain(r)
    PROVE  IInv'
<1>1. CASE Goes(r, "elsewhere") /\ UNCHANGED why
  <2>1. TypeOK'
    BY <1>1, PartsGood DEF ListedInVain, TypeOK, Goes, world, resolution, counter
  <2>2. Alone(r)
    BY <1>1, PartsGood DEF ListedInVain, Alone, TypeOK, Goes, world, resolution, counter
  <2>3. Good(r)'
    BY <1>1, PartsGood DEF ListedInVain, TypeOK, Goes, Good, HasHolder, Sourcing, SelfService
  <2> QED BY <2>1, <2>2, <2>3, OneMoves
<1>2. CASE Refuses(r, "unknown")
  BY <1>2, RefusalKeeps DEF ListedInVain, Reasons
<1> QED BY <1>1, <1>2 DEF ListedInVain

LEMMA LookedElsewhereKeeps ==
    ASSUME IInv, NEW r \in Request, LookedElsewhere(r)
    PROVE  IInv'
<1>1. Refuses(r, "notOurs") \/ Refuses(r, "unknown")
  BY DEF LookedElsewhere
<1> QED BY <1>1, RefusalKeeps DEF LookedElsewhere, Reasons

\* What a search may bring: a record of the holder's, or nothing, and for the first search
\* nothing only if there is nothing.
LEMMA AnsweredKeeps ==
    ASSUME IInv, NEW r \in Request, NEW e \in Entity, NEW x \in Row \cup {NoRow},
           at[r] = "sourcing", read[r][e] = Pending, Answered(r, e, x),
           x \in Row => x \in rows /\ x.subject = subject[r] /\ x.entity = e,
           x = NoRow /\ e = First(type[r]) => e \in gone[r]
    PROVE  IInv'
<1>1. read'[r] = [read[r] EXCEPT ![e] = x] /\ at'[r] = "sourcing" /\ type'[r] = type[r]
      /\ since'[r] = since[r] /\ gone'[r] = gone[r] /\ subject'[r] = subject[r]
      /\ why'[r] = why[r] /\ rows' = rows /\ want'[r] = want[r] /\ format'[r] = format[r]
  BY PartsGood DEF Answered, TypeOK, world
<1>2. read[r] \in [Entity -> Row \cup {NoRow, Pending}]
  BY PartsGood DEF TypeOK
<1>3. TypeOK'
  <2>1. read' \in [Request -> [Entity -> Row \cup {NoRow, Pending}]]
    BY PartsGood DEF Answered, TypeOK
  <2> QED BY <2>1, PartsGood DEF Answered, TypeOK, world, counter
<1>4. Alone(r)
  BY PartsGood DEF Answered, Alone, TypeOK, world, counter
<1>5. /\ type[r] \in Schema /\ SourceOf(type[r]) # NoSource /\ AsAsked(r) /\ Remembers(r) /\ HasSearched(r)
      /\ HasHolder(r)
  BY PartsGood DEF Good, Sourcing
<1>6. /\ First(type[r])' = First(type[r]) /\ Asked(type[r])' = Asked(type[r])
      /\ SourceOf(type[r])' = SourceOf(type[r])
  BY <1>1 DEF First, Asked, SourceOf
<1>7. HasSearched(r)'
  <2>1. ASSUME NEW f \in Entity, read'[r][f] \in Row
        PROVE  /\ read'[r][f] \in since'[r] /\ read'[r][f].subject = subject'[r]
               /\ read'[r][f].entity = f /\ f \in Asked(type[r])
    <3>1. CASE f = e
      <4>1. read'[r][f] = x
        BY <1>1, <1>2, <3>1
      <4> QED BY <1>1, <1>5, <2>1, <3>1, <4>1 DEF HasSearched, Remembers
    <3>2. CASE f # e
      BY <1>1, <1>2, <1>5, <2>1, <3>2 DEF HasSearched
    <3> QED BY <3>1, <3>2
  <2>2. ASSUME NEW f \in Entity, read'[r][f] = Pending
        PROVE  f \in Asked(type[r])
    BY <1>1, <1>2, <1>5, <2>2 DEF HasSearched
  <2>3. ASSUME read'[r][First(type[r])] = NoRow
        PROVE  First(type[r]) \in gone'[r]
    <3>1. CASE First(type[r]) = e
      BY <1>1, <1>2, <2>3, <3>1
    <3>2. CASE First(type[r]) # e
      BY <1>1, <1>2, <1>5, <2>3, <3>2 DEF HasSearched
    <3> QED BY <3>1, <3>2
  <2> QED BY <1>6, <2>1, <2>2, <2>3 DEF HasSearched
<1>8. AsAsked(r)' /\ Remembers(r)' /\ HasHolder(r)' /\ ~SelfService(r)'
  BY <1>1, <1>5 DEF AsAsked, Remembers, HasHolder, SelfService, IsAsAsked, NamesNothing,
                    Bare, Suffixed, Formats, Missing
<1>9. Good(r)'
  BY <1>1, <1>5, <1>6, <1>7, <1>8 DEF Good, HasHolder, Sourcing
<1> QED BY <1>3, <1>4, <1>9, OneMoves

LEMMA SearchAnsweredKeeps ==
    ASSUME IInv, NEW r \in Request, NEW e \in Entity, SearchAnswered(r, e)
    PROVE  IInv'
<1>1. CASE \E x \in Picks(e, subject[r]) : Answered(r, e, x)
  <2>1. PICK x \in Picks(e, subject[r]) : Answered(r, e, x)
    BY <1>1
  <2>2. x \in rows /\ x \in Row /\ x.subject = subject[r] /\ x.entity = e
    BY PartsGood DEF Picks, Matching, TypeOK
  <2> QED BY <2>1, <2>2, AnsweredKeeps, IssuanceAssumption DEF SearchAnswered
<1>2. CASE Picks(e, subject[r]) = {} /\ Answered(r, e, NoRow)
  <2>1. ASSUME e = First(type[r]) PROVE e \in gone[r]
    <3>1. type[r] \in Schema /\ SourceOf(type[r]) # NoSource
      BY PartsGood DEF Good, Sourcing, SearchAnswered
    <3>2. e \notin Sorted
      BY <2>1, <3>1, IssuanceAssumption DEF First, SourceOf, Source
    <3>3. Missing(e, subject[r], rows)
      BY <1>2, <3>2 DEF Picks, Matching, Missing
    <3> QED BY <3>3, PartsGood DEF Good, Sourcing, Remembers, SearchAnswered
  <2> QED BY <1>2, <2>1, AnsweredKeeps, IssuanceAssumption DEF SearchAnswered
<1> QED BY <1>1, <1>2 DEF SearchAnswered

LEMMA SearchFailsKeeps ==
    ASSUME IInv, NEW r \in Request, NEW e \in Entity, SearchFails(r, e)
    PROVE  IInv'
<1>1. CASE e = First(type[r]) /\ Stops(r, e)
  <2>1. Refuses(r, "unreachable") \/ Refuses(r, "failed")
    BY <1>1 DEF Stops
  <2> QED BY <1>1, <2>1, RefusalKeeps DEF Stops, Reasons
<1>2. CASE e # First(type[r]) /\ Answered(r, e, NoRow)
  BY <1>2, AnsweredKeeps, IssuanceAssumption DEF SearchFails
<1> QED BY <1>1, <1>2 DEF SearchFails

\* A claim is taken from a record that was read, and that has it.
LEMMA TakenIsRead ==
    ASSUME NEW r \in Request, NEW c \in Claim, TakenFrom(r, c) # NoRow
    PROVE  \E e \in Entity : TakenFrom(r, c) = read[r][e] /\ Fills(r, e, c)
<1>1. \E e \in Entity : e \in FirstFilling(r, c)
  BY DEF TakenFrom, FirstFilling
<1>2. TakenFrom(r, c) = read[r][CHOOSE e \in Entity : e \in FirstFilling(r, c)]
  BY DEF TakenFrom
<1>3. (CHOOSE e \in Entity : e \in FirstFilling(r, c)) \in FirstFilling(r, c)
  BY <1>1
<1> QED BY <1>2, <1>3 DEF FirstFilling

\* The claims of a request that has found what it needs.
LEMMA ResolvesKeeps ==
    ASSUME IInv, NEW r \in Request, Resolves(r)
    PROVE  IInv'
<1> DEFINE got == [c \in Claim |-> TakenFrom(r, c)]
<1>1. at[r] = "sourcing" /\ \A e \in Entity : read[r][e] # Pending
  BY DEF Resolves
<1>2. UNCHANGED <<world, want, subject, type, format, read, since, gone, counter, offers>>
  BY DEF Resolves
<1>3. /\ type[r] \in Schema /\ SourceOf(type[r]) # NoSource /\ AsAsked(r) /\ HasSearched(r)
      /\ HasHolder(r)
  BY <1>1, PartsGood DEF Good, Sourcing
<1>4. CASE read[r][First(type[r])] = NoRow /\ Refuses(r, "noRecord") /\ UNCHANGED claims
  BY <1>2, <1>3, <1>4, RefusalKeeps DEF HasSearched, Reasons, resolution
<1>5. CASE Refuses(r, "missing") /\ UNCHANGED claims
  BY <1>2, <1>5, RefusalKeeps DEF Reasons, resolution
<1>6. CASE /\ Lacks(r) = {} /\ claims' = [claims EXCEPT ![r] = got]
           /\ Goes(r, "minting") /\ UNCHANGED why
  <2>1. \A c \in Claim : TakenFrom(r, c) # NoRow =>
            /\ TakenFrom(r, c) \in Row
            /\ TakenFrom(r, c) \in since[r] /\ TakenFrom(r, c).subject = subject[r]
            /\ TakenFrom(r, c).entity \in Asked(type[r])
            /\ c \in TakenFrom(r, c).fills
    BY <1>3, TakenIsRead DEF HasSearched, Fills
  <2>2. got \in [Claim -> Row \cup {NoRow}]
    BY <2>1
  <2>3. TypeOK'
    BY <1>2, <1>6, <2>2, PartsGood DEF TypeOK, Goes, world, counter
  <2>4. Alone(r)
    BY <1>2, <1>6, PartsGood DEF Alone, TypeOK, Goes
  <2>5. claims'[r] = got /\ at'[r] = "minting"
    BY <1>6, PartsGood DEF TypeOK, Goes
  <2>6. \A c \in type[r].properties \cap type[r].required :
            c \in Claim /\ TakenFrom(r, c) # NoRow
    BY <1>3, <1>6, IssuanceAssumption DEF Lacks
  <2>7. OnRecord(r)'
    BY <1>2, <2>1, <2>5, <2>6 DEF OnRecord, Asked, SourceOf
  <2>8. AsAsked(r)' /\ HasHolder(r)' /\ subject'[r] # NoSubject
    BY <1>1, <1>2, <1>3, <1>6, <2>5, IssuanceAssumption
       DEF AsAsked, HasHolder, IsAsAsked, NamesNothing, Bare, Suffixed, Formats
  <2>9. Good(r)'
    BY <2>5, <2>7, <2>8 DEF Good, HasHolder, Sourcing
  <2> QED BY <2>3, <2>4, <2>9, OneMoves
<1> QED BY <1>4, <1>5, <1>6 DEF Resolves

LEMMA MintsKeeps ==
    ASSUME IInv, NEW r \in Request, Mints(r)
    PROVE  IInv'
<1>1. TypeOK'
  BY PartsGood DEF Mints, TypeOK, Goes, world, resolution, counter
<1>2. Alone(r)
  BY PartsGood DEF Mints, Alone, TypeOK, Goes, world, resolution, counter
<1>3. /\ at[r] = "minting" /\ at'[r] = "issued"
      /\ UNCHANGED <<want, subject, type, format, resolution, why>>
  BY PartsGood DEF Mints, TypeOK, Goes
<1>4. AsAsked(r)' = AsAsked(r) /\ OnRecord(r)' = OnRecord(r) /\ OfOffer(r)' = OfOffer(r)
  BY <1>3 DEF AsAsked, IsAsAsked, NamesNothing, Bare, Suffixed, Formats, OnRecord, OfOffer,
              OfAge, Asked, SourceOf, resolution
<1>5. Good(r)'
  BY <1>3, <1>4, PartsGood DEF Good, HasHolder, Sourcing, SelfService
<1> QED BY <1>1, <1>2, <1>5, OneMoves

LEMMA FailsKeeps ==
    ASSUME IInv, NEW r \in Request, Fails(r)
    PROVE  IInv'
BY RefusalKeeps DEF Fails, Reasons

LEMMA EndsKeeps ==
    ASSUME IInv, NEW r \in Request, Ends(r)
    PROVE  IInv'
<1>1. TypeOK'
  BY PartsGood DEF Ends, TypeOK, Goes, NoWant, Unread, Unclaimed, Reasons, world, counter
<1>2. Alone(r)
  BY PartsGood DEF Ends, Alone, TypeOK, Goes, world, counter
<1>3. at'[r] = "idle" /\ subject'[r] = NoSubject /\ why'[r] = "none"
  BY PartsGood DEF Ends, TypeOK, Goes
<1>4. Good(r)'
  BY <1>3 DEF Good, HasHolder, Sourcing, SelfService
<1> QED BY <1>1, <1>2, <1>4, OneMoves

LEMMA RedeemsKeeps ==
    ASSUME IInv, NEW r \in Request, NEW o \in offers, Redeems(r, o)
    PROVE  IInv'
<1> DEFINE got == [c \in Claim |-> IF c \in o.row.fills THEN o.row ELSE NoRow]
<1>1. o \in [type : Schema, format : Format, row : Row]
  BY PartsGood DEF TypeOK
<1>2. TypeOK'
  BY <1>1, PartsGood DEF Redeems, TypeOK, Goes, world, counter
<1>3. Alone(r)
  BY PartsGood DEF Redeems, Alone, TypeOK, Goes, world, counter
<1>4. /\ at[r] = "idle" /\ at'[r] = "minting" /\ subject'[r] = subject[r]
      /\ type'[r] = o.type /\ format'[r] = o.format /\ claims'[r] = got /\ why'[r] = why[r]
  BY PartsGood DEF Redeems, TypeOK, Goes
<1>5. subject[r] = NoSubject /\ why[r] = "none"
  BY <1>4, PartsGood DEF Good, HasHolder
<1>6. OfOffer(r)'
  BY <1>4, PartsGood DEF OfOffer, OffersMeant, OfAge, Formats
<1>7. Good(r)'
  BY <1>4, <1>5, <1>6 DEF Good, HasHolder, Sourcing, SelfService
<1> QED BY <1>2, <1>3, <1>7, OneMoves

LEMMA RedeemsLateKeeps ==
    ASSUME IInv, NEW r \in Request, RedeemsLate(r)
    PROVE  IInv'
BY RefusalKeeps DEF RedeemsLate, Reasons

LEMMA ServesKeeps ==
    ASSUME IInv, NEW r \in Request, Serves(r)
    PROVE  IInv'
BY BeginsKeeps, ListedKeeps, ListedInVainKeeps, LookedElsewhereKeeps, SearchAnsweredKeeps,
   SearchFailsKeeps, ResolvesKeeps, MintsKeeps, FailsKeeps, EndsKeeps, RedeemsKeeps,
   RedeemsLateKeeps
   DEF Serves

-----------------------------------------------------------------------------
(***************************************************************************)
(* The age issuer.                                                         *)
(***************************************************************************)
\* One of its requests forgets, or comes by, what it carries.
LEMMA OneTurns ==
    ASSUME IInv, NEW a \in Ask, UNCHANGED <<world, requests>>, OffersMeant',
           NEW to \in {"idle", "finding", "resolving", "offering"},
           NEW c \in Subject \cup {NoSubject}, NEW x \in Row \cup {NoRow},
           NEW s \in Schema \cup {NoSchema},
           ask' = [ask EXCEPT ![a] = to], citizen' = [citizen EXCEPT ![a] = c],
           record' = [record EXCEPT ![a] = x], config' = [config EXCEPT ![a] = s],
           to \in {"resolving", "offering"} => x \in Row /\ x.entity = AgeEntity,
           to = "offering" => s \in Schema /\ OfAge(s),
           offers' \subseteq [type : Schema, format : Format, row : Row]
    PROVE  IInv'
<1>1. TypeOK'
  BY PartsGood DEF TypeOK, world, requests, resolution
<1>2. AtCounter'
  <2>1. ASSUME NEW b \in Ask
        PROVE  /\ ask'[b] = (IF b = a THEN to ELSE ask[b])
               /\ record'[b] = (IF b = a THEN x ELSE record[b])
               /\ config'[b] = (IF b = a THEN s ELSE config[b])
    BY PartsGood DEF TypeOK
  <2> QED BY <2>1, PartsGood DEF AtCounter, OfAge, Formats
<1> QED BY <1>1, <1>2, NoneMoves DEF world

LEMMA AskedForKeeps ==
    ASSUME IInv, NEW a \in Ask, NEW c \in Subject, AskedFor(a, c)
    PROVE  IInv'
<1>1. /\ record' = [record EXCEPT ![a] = record[a]] /\ config' = [config EXCEPT ![a] = config[a]]
      /\ record[a] \in Row \cup {NoRow} /\ config[a] \in Schema \cup {NoSchema}
  BY PartsGood DEF AskedFor, TypeOK
<1>2. OffersMeant' /\ offers' \subseteq [type : Schema, format : Format, row : Row]
  BY PartsGood DEF AskedFor, counterSide, OffersMeant, TypeOK, OfAge, Formats
<1> QED BY <1>1, <1>2, OneTurns DEF AskedFor, Turns, counterSide

LEMMA FoundKeeps ==
    ASSUME IInv, NEW a \in Ask, Found(a)
    PROVE  IInv'
<1>1. PICK x \in rows : /\ Matching(AgeEntity, citizen[a], rows) = {x}
                        /\ record' = [record EXCEPT ![a] = x]
  BY DEF Found
<1>2. x \in Row /\ x.entity = AgeEntity
  BY <1>1, PartsGood DEF Matching, TypeOK
<1>3. /\ citizen' = [citizen EXCEPT ![a] = citizen[a]] /\ config' = [config EXCEPT ![a] = config[a]]
      /\ citizen[a] \in Subject \cup {NoSubject} /\ config[a] \in Schema \cup {NoSchema}
  BY PartsGood DEF Found, TypeOK
<1>4. OffersMeant' /\ offers' \subseteq [type : Schema, format : Format, row : Row]
  BY PartsGood DEF Found, counterSide, OffersMeant, TypeOK, OfAge, Formats
<1> QED BY <1>1, <1>2, <1>3, <1>4, OneTurns DEF Found, Turns, counterSide

LEMMA ResolvedKeeps ==
    ASSUME IInv, NEW a \in Ask, Resolved(a)
    PROVE  IInv'
<1>1. PICK s \in published : AgeTypes = {s} /\ config' = [config EXCEPT ![a] = s]
  BY DEF Resolved
<1>2. s \in Schema /\ OfAge(s)
  BY <1>1, PartsGood DEF AgeTypes, OfAge, TypeOK
<1>3. /\ citizen' = [citizen EXCEPT ![a] = citizen[a]] /\ record' = [record EXCEPT ![a] = record[a]]
      /\ citizen[a] \in Subject \cup {NoSubject} /\ record[a] \in Row
      /\ record[a].entity = AgeEntity
  BY PartsGood DEF Resolved, TypeOK, AtCounter
<1>4. OffersMeant' /\ offers' \subseteq [type : Schema, format : Format, row : Row]
  BY PartsGood DEF Resolved, counterSide, OffersMeant, TypeOK, OfAge, Formats
<1> QED BY <1>1, <1>2, <1>3, <1>4, OneTurns DEF Resolved, Turns, counterSide

\* The offer service's lookup, by id, finds the type the age issuer found by name.
LEMMA OfferedKeeps ==
    ASSUME IInv, NEW a \in Ask, Offered(a)
    PROVE  IInv'
<1>1. PICK s \in Posted(a) :
        /\ AgeFormat \in Formats(s)
        /\ offers' = offers \cup {[type |-> s, format |-> AgeFormat, row |-> record[a]]}
  BY DEF Offered
<1>2. config[a] \in Schema /\ OfAge(config[a]) /\ record[a] \in Row
      /\ record[a].entity = AgeEntity
  BY PartsGood DEF Offered, AtCounter
<1>3. s \in Schema /\ s = config[a]
  BY <1>1, <1>2, PartsGood, TypesAssumption DEF Posted, TypeOK
<1>4. AgeFormat \in Format
  BY <1>1, <1>3, FormatsTyped
<1> DEFINE new == [type |-> s, format |-> AgeFormat, row |-> record[a]]
<1>5. offers' \subseteq [type : Schema, format : Format, row : Row]
  BY <1>1, <1>2, <1>3, <1>4, PartsGood DEF TypeOK
<1>6. OffersMeant'
  <2>1. OfAge(new.type) /\ new.format = AgeFormat /\ new.row.entity = AgeEntity
    BY <1>2, <1>3
  <2>2. \A o \in offers' : OfAge(o.type) /\ o.format = AgeFormat /\ o.row.entity = AgeEntity
    BY <1>1, <2>1, PartsGood DEF OffersMeant
  <2> QED BY <2>2 DEF OffersMeant, OfAge, Formats
<1> QED BY <1>5, <1>6, OneTurns DEF Offered, Turns

LEMMA AskFailsKeeps ==
    ASSUME IInv, NEW a \in Ask, AskFails(a)
    PROVE  IInv'
<1>1. OffersMeant' /\ offers' \subseteq [type : Schema, format : Format, row : Row]
  BY PartsGood DEF AskFails, counterSide, OffersMeant, TypeOK, OfAge, Formats
<1> QED BY <1>1, OneTurns DEF AskFails, Turns, counterSide

-----------------------------------------------------------------------------
(***************************************************************************)
(* The world.                                                              *)
(***************************************************************************)
LEMMA OfferEndsKeeps ==
    ASSUME IInv, NEW o \in offers, OfferEnds(o)
    PROVE  IInv'
<1>1. TypeOK'
  BY PartsGood DEF OfferEnds, TypeOK, world, requests, resolution, counter
<1>2. AtCounter' /\ OffersMeant'
  BY PartsGood DEF OfferEnds, AtCounter, OffersMeant, counter, OfAge, Formats
<1> QED BY <1>1, <1>2, NoneMoves DEF OfferEnds, world

LEMMA SchemaChangesKeeps ==
    ASSUME IInv, NEW s \in Schema, SchemaChanges(s)
    PROVE  IInv'
<1>1. TypeOK'
  BY PartsGood, IssuanceAssumption
     DEF SchemaChanges, TypeOK, requests, resolution, counter
<1>2. AtCounter' /\ OffersMeant'
  BY PartsGood, CounterStays DEF SchemaChanges
<1> QED BY <1>1, <1>2, NoneMoves DEF SchemaChanges

\* What a request has read stays in its history, and the history keeps up.
LEMMA RowChangesKeeps ==
    ASSUME IInv, NEW x \in Row, RowChanges(x)
    PROVE  IInv'
<1>1. TypeOK'
  BY PartsGood, IssuanceAssumption DEF RowChanges, TypeOK, counter
<1>2. AtCounter' /\ OffersMeant'
  BY PartsGood, CounterStays DEF RowChanges
<1>3. ASSUME NEW q \in Request PROVE Good(q)'
  <2>1. /\ since[q] \subseteq since'[q] /\ gone[q] \subseteq gone'[q]
        /\ at[q] = "sourcing" =>
            /\ rows' \subseteq since'[q]
            /\ \A e \in Entity : Missing(e, subject[q], rows') => e \in gone'[q]
    BY DEF RowChanges
  <2>2. UNCHANGED <<at, want, subject, type, format, read, claims, why>>
    BY DEF RowChanges
  <2>3. /\ First(type[q])' = First(type[q]) /\ Asked(type[q])' = Asked(type[q])
        /\ SourceOf(type[q])' = SourceOf(type[q])
    BY <2>2 DEF First, Asked, SourceOf
  <2>4. AsAsked(q)' = AsAsked(q) /\ OfOffer(q)' = OfOffer(q)
    BY <2>2 DEF AsAsked, IsAsAsked, NamesNothing, Bare, Suffixed, Formats, OfOffer, OfAge
  <2>5. OnRecord(q) => OnRecord(q)'
    BY <2>1, <2>2, <2>3 DEF OnRecord
  <2>6. HasSearched(q) => HasSearched(q)'
    BY <2>1, <2>2, <2>3 DEF HasSearched
  <2>7. at[q] = "sourcing" => Remembers(q)'
    BY <2>1, <2>2 DEF Remembers, Missing
  <2> QED BY <2>1, <2>2, <2>3, <2>4, <2>5, <2>6, <2>7, PartsGood
             DEF Good, HasHolder, Sourcing, SelfService
<1> QED BY <1>1, <1>2, <1>3, GoodPartsNext

-----------------------------------------------------------------------------
(***************************************************************************)
(* The theorems.                                                           *)
(***************************************************************************)
LEMMA InitGood == Init => IInv
<1> SUFFICES ASSUME Init PROVE IInv
  OBVIOUS
<1>1. TypeOK
  BY IssuanceAssumption DEF Init, TypeOK, NoWant, Unread, Unclaimed, Reasons
<1>2. AtCounter /\ OffersMeant
  BY DEF Init, AtCounter, OffersMeant
<1>3. ASSUME NEW r \in Request PROVE Good(r)
  BY DEF Init, Good, HasHolder, Sourcing, SelfService
<1> QED BY <1>1, <1>2, <1>3, GoodParts

LEMMA StutterKeeps == IInv /\ UNCHANGED vars => IInv'
<1> SUFFICES ASSUME IInv, UNCHANGED vars PROVE IInv'
  OBVIOUS
<1>1. TypeOK'
  BY PartsGood DEF vars, TypeOK, world, requests, resolution, counter
<1>2. AtCounter' /\ OffersMeant'
  BY PartsGood, CounterStays DEF vars
<1> QED BY <1>1, <1>2, NoneMoves DEF vars, world

LEMMA NextKeeps == IInv /\ [Next]_vars => IInv'
<1> SUFFICES ASSUME IInv, [Next]_vars PROVE IInv'
  OBVIOUS
<1>1. ASSUME NEW a \in Ask, OffersTo(a) PROVE IInv'
  BY <1>1, AskedForKeeps, FoundKeeps, ResolvedKeeps, OfferedKeeps, AskFailsKeeps DEF OffersTo
<1> QED BY <1>1, ServesKeeps, OfferEndsKeeps, SchemaChangesKeeps, RowChangesKeeps,
           StutterKeeps DEF Next

\* The inductive invariant holds in every state of issuance.
THEOREM Invariance == Spec => []IInv
BY InitGood, NextKeeps, PTL DEF Spec

\* Every variable stays within its type.
THEOREM TypeCorrect == Spec => []TypeOK
<1>1. IInv => TypeOK
  BY DEF IInv
<1> QED BY <1>1, Invariance, PTL

\* A holder is handed what was asked for or nothing, and a narrowed issuer mints nothing of
\* another's (buildSelfServiceSession).
THEOREM AskedAndIssued == Spec => []IssuedAsAsked
<1>1. IInv => IssuedAsAsked
  BY DEF IInv
<1> QED BY <1>1, Invariance, PTL

\* The claims are the holder's own, each on record at some moment since the source was
\* asked, and no required one is left out (subjectSources, resolveRegistryClaims).
THEOREM OwnClaims == Spec => []ClaimsOfSubject
<1>1. IInv => ClaimsOfSubject
  BY DEF IInv
<1> QED BY <1>1, Invariance, PTL

\* "No record" is never said of a record that was there all along (resolveClaimsFor).
THEOREM AbsenceIsReal == Spec => []NoRecordIsTrue
<1>1. IInv => NoRecordIsTrue
  BY DEF IInv
<1> QED BY <1>1, Invariance, PTL

\* What the age issuer resolved by name is what is offered and redeemed by id
\* (resolveCredentialConfig, createOffer).
THEOREM OffersAreMeant == Spec => []OfferedAsMeant
<1>1. IInv => OfferedAsMeant
  BY DEF IInv
<1> QED BY <1>1, Invariance, PTL
=============================================================================
