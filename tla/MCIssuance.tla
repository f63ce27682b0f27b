------------------------------ MODULE MCIssuance ------------------------------
(***************************************************************************)
(* Issuance on the types that tell its lookups apart: two issuers' age     *)
(* types under one name and one vct, a farm type held by an authority      *)
(* itself, and one that no claim source is mapped to; and records of two   *)
(* people, two of them of one person in one related entity.                *)
(***************************************************************************)
EXTENDS IssuanceInvariant, TLC

CONSTANTS age, age2, farm, other, sd, jwt, ana, ben

MCSchema == {
    [id |-> age, author |-> "d1", name |-> "Age", vct |-> "age", formats |-> <<jwt, sd>>,
     properties |-> {"born", "plot"}, required |-> {"born", "plot"}],
    [id |-> age2, author |-> "d2", name |-> "Age", vct |-> "age", formats |-> <<sd>>,
     properties |-> {"born"}, required |-> {"born"}],
    [id |-> farm, author |-> "d1", name |-> "Farm", vct |-> "farm", formats |-> <<sd>>,
     properties |-> {"plot"}, required |-> {"plot"}],
    [id |-> other, author |-> "d1", name |-> "Other", vct |-> "other", formats |-> <<sd>>,
     properties |-> {}, required |-> {}]}

MCMapById == [i \in {age, age2, farm, other} |-> IF i = farm THEN "farms" ELSE Unmapped]
MCMapByName ==
    [n \in {"Age", "Farm", "Other"} |-> IF n = "Age" THEN Registry ELSE Unmapped]

MCPrecedence == [e \in Entity |-> IF e = "citizen" THEN 0 ELSE IF e = "parcel" THEN 1 ELSE 2]
MCPinned == [c \in Claim |-> NoEntity]

Record(e, sub, n, fills) == [entity |-> e, subject |-> sub, rank |-> n, fills |-> fills]

MCRow == {
    Record("citizen", ana, 0, {"born"}),
    Record("parcel", ana, 0, {"plot"}),
    Record("parcel", ana, 1, {"plot"}),
    Record("farms", ben, 0, {"plot"})}

Asking(i, v, f) == [id |-> i, vct |-> v, format |-> f]

MCWant == {
    Asking(Unnamed, Unnamed, NoFormat),
    Asking(<<age>>, Unnamed, NoFormat),
    Asking(<<age, sd>>, Unnamed, NoFormat),
    Asking(<<farm>>, Unnamed, jwt),
    Asking(<<farm>>, "age", NoFormat),
    Asking(<<other>>, Unnamed, sd)}
=============================================================================
