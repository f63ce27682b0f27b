----------------------------- MODULE VerifierBoot -----------------------------
(***************************************************************************)
(* How a verifier process comes up: the container's environment is read,   *)
(* every issuer of the trust policy file is resolved, all at once, and     *)
(* only then is the port opened (core/trust.mjs resolveTrustPolicy and the *)
(* end of server.mjs).  A failure exits; the container is restarted.       *)
(*                                                                         *)
(* External, as this code uses them: the Authority, which publishes a DID  *)
(* for an issuer, changes it, withdraws it, or cannot be reached; and the  *)
(* operator, who recreates the container with another environment.         *)
(***************************************************************************)
EXTENDS Naturals, Sequences

CONSTANTS
    File,        \* the issuers of the policy file, in its order
    Var,         \* the environment variables it refers to
    Issuer,      \* the Authority's issuer identifiers
    DID, NoDID,  \* what identifies an issuer; no such thing (unset, empty, not published)
    NoVar, NoIssuer,
    Waiting,     \* a fetch without an answer yet
    Deployment,  \* the environments an operator may start the container with
    MaxUpsets    \* bound on crashes and recreations together

Entry == DOMAIN File

ASSUME BootAssumption ==
    /\ File \in Seq([var : Var \cup {NoVar}, authority : Issuer \cup {NoIssuer},
                     roles : SUBSET STRING])
    /\ Deployment \subseteq [vars : [Var -> DID \cup {NoDID}], baseUrl : BOOLEAN,
                             statusClaim : BOOLEAN]
    /\ NoDID \notin DID /\ Waiting \notin DID /\ Waiting # NoDID
    /\ NoVar \notin Var /\ NoIssuer \notin Issuer
    /\ MaxUpsets \in Nat

VARIABLES
    container,    \* the environment the container was created with
    process,      \* where the process is
    fetched,      \* the DID each entry has resolved to
    trust,        \* the allowlist of a process that listens
    published,    \* the Authority: the DID published for each issuer
    authorityUp,  \* the Authority: it answers
    vouched,      \* history: the DIDs named for an entry since this boot began
    upsets        \* bound: crashes and recreations so far

memory == <<fetched, trust>>
bootVars == <<container, process, memory, published, authorityUp, vouched, upsets>>

Unresolved == [e \in Entry |-> NoDID]

BootTypeOK ==
    /\ container \in Deployment
    /\ process \in {"down", "resolving", "listening"}
    /\ fetched \in [Entry -> DID \cup {NoDID, Waiting}]
    /\ trust \in [Entry -> DID \cup {NoDID}]
    /\ published \in [Issuer -> DID \cup {NoDID}]
    /\ authorityUp \in BOOLEAN
    /\ vouched \in [Entry -> SUBSET DID]
    /\ upsets \in 0..MaxUpsets

BootInit ==
    /\ container \in Deployment
    /\ process = "down"
    /\ fetched = Unresolved /\ trust = Unresolved
    /\ published \in [Issuer -> DID]
    /\ authorityUp = TRUE
    /\ vouched = [e \in Entry |-> {}]
    /\ upsets = 0

-----------------------------------------------------------------------------
(***************************************************************************)
(* The policy file, read with the environment.  A variable that is not set *)
(* is a hard failure, never an empty DID; so is an entry that names        *)
(* neither a DID nor an issuer, and an issuer without an Authority to ask. *)
(***************************************************************************)
FromAuthority(e) == File[e].authority # NoIssuer

Expanded(e) == IF File[e].var = NoVar THEN NoDID ELSE container.vars[File[e].var]

Readable(e) ==
    /\ File[e].var # NoVar => Expanded(e) # NoDID
    /\ FromAuthority(e) => container.baseUrl
    /\ ~FromAuthority(e) => File[e].var # NoVar

Startable == File # <<>> /\ \A e \in Entry : Readable(e)

\* Everything a boot needs is there.
Healthy ==
    /\ Startable /\ authorityUp
    /\ \A e \in Entry : FromAuthority(e) => published[File[e].authority] # NoDID

(***************************************************************************)
(* The lookup: a Map from DID to entry, so of two entries with one DID the *)
(* later one is found, with its roles and no others.                       *)
(***************************************************************************)
HasRole(iss, role) ==
    \E e \in Entry : trust[e] = iss /\ role \in File[e].roles

FoundAt(iss, e) == trust[e] = iss /\ \A f \in Entry : trust[f] = iss => f <= e

Trusts(iss, role) == \E e \in Entry : FoundAt(iss, e) /\ role \in File[e].roles

\* Whoever vouched for the issuer can be asked how its cards stand; for an issuer given by
\* its DID there is nobody to ask.
Askable(iss) == \E e \in Entry : FoundAt(iss, e) /\ FromAuthority(e)

-----------------------------------------------------------------------------
(***************************************************************************)
(* The boot.  A process that finds a policy it cannot read exits before it *)
(* has a state to speak of, and the container starts the next one.         *)
(***************************************************************************)
\* Brought up by hand only.
NotRestarted == process = "down" /\ upsets = 0

\* restart: unless-stopped.
Restarted == process = "down"

Boots ==
    /\ Restarted
    /\ Startable
    /\ process' = "resolving"
    /\ fetched' = [e \in Entry |-> IF FromAuthority(e) THEN Waiting ELSE Expanded(e)]
    /\ vouched' = [e \in Entry |-> IF FromAuthority(e) THEN {} ELSE {Expanded(e)}]
    /\ UNCHANGED <<container, trust, published, authorityUp, upsets>>

FetchAnswered(e) ==
    /\ process = "resolving" /\ fetched[e] = Waiting
    /\ authorityUp /\ published[File[e].authority] # NoDID
    /\ fetched' = [fetched EXCEPT ![e] = published[File[e].authority]]
    /\ vouched' = [vouched EXCEPT ![e] = @ \cup {published[File[e].authority]}]
    /\ UNCHANGED <<container, process, trust, published, authorityUp, upsets>>

\* What is left of a process that is over.
Gone ==
    /\ process' = "down"
    /\ fetched' = Unresolved /\ trust' = Unresolved
    /\ vouched' = [e \in Entry |-> {}]
    /\ UNCHANGED <<published, authorityUp>>

\* The issuer is left out, and the boot goes on.
LeavesOut(e) ==
    /\ fetched' = [fetched EXCEPT ![e] = NoDID]
    /\ UNCHANGED <<process, trust, published, authorityUp, vouched>>

\* One issuer without an answer ends the boot, whatever the others have answered.
Stops(e) == Gone

\* Out of reach, or too slow for AbortSignal.timeout; or a 404, or a body without a DID.
FetchFails(e) ==
    /\ process = "resolving" /\ fetched[e] = Waiting
    /\ ~authorityUp \/ published[File[e].authority] = NoDID
    /\ Stops(e)
    /\ UNCHANGED <<container, upsets>>

AllResolved == \A e \in Entry : fetched[e] # Waiting

Listens ==
    /\ process = "resolving"
    /\ AllResolved
    /\ process' = "listening"
    /\ trust' = fetched
    /\ UNCHANGED <<container, fetched, published, authorityUp, vouched, upsets>>

-----------------------------------------------------------------------------
Crashes ==
    /\ process # "down" /\ upsets < MaxUpsets
    /\ upsets' = upsets + 1
    /\ Gone
    /\ UNCHANGED container

Recreates(d) ==
    /\ d # container /\ upsets < MaxUpsets
    /\ upsets' = upsets + 1
    /\ container' = d
    /\ Gone

\* The Authority publishes another DID for an issuer, or none any more.
Publishes(i, d) ==
    /\ published[i] # d
    /\ published' = [published EXCEPT ![i] = d]
    /\ UNCHANGED <<container, process, memory, authorityUp, vouched, upsets>>

AuthorityTurns ==
    /\ authorityUp' = ~authorityUp
    /\ UNCHANGED <<container, process, memory, published, vouched, upsets>>

BootStep ==
    \/ Boots \/ Listens \/ Crashes \/ AuthorityTurns
    \/ \E e \in Entry : FetchAnswered(e) \/ FetchFails(e)
    \/ \E d \in Deployment : Recreates(d)

=============================================================================
