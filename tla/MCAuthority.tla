----------------------------- MODULE MCAuthority -----------------------------
(***************************************************************************)
(* AuthorityIssuance on small instances.  Tokens, requests, records and    *)
(* credentials are interchangeable.  There is always a token that nobody   *)
(* holds: with two requests four are enough, and a lone request never      *)
(* holds another token than the cached one, so that two are.               *)
(***************************************************************************)
EXTENDS AuthorityInvariant, TLC

Symmetry ==
    UNION {Permutations(Token), Permutations(Request), Permutations(Osid), Permutations(Anchor)}
=============================================================================
