------------------------------- MODULE Decimals -------------------------------
(***************************************************************************)
(* The decimal claims of the business rules, and how their checks follow   *)
(* each other.                                                             *)
(*                                                                         *)
(* A number is an integer multiple of 1/Fine of a hundredth, so that both  *)
(* extra decimals and the error of a binary fraction show; Slack of these  *)
(* is the tolerance 1e-6 of the code.  Any other value is Malformed.       *)
(***************************************************************************)
EXTENDS Integers

CONSTANTS
    Fine,
    Slack,
    Malformed     \* a claim of another type than the schema promised

ASSUME DecimalsAssumption == Fine \in Nat /\ Slack \in Nat /\ 2 * Slack < Fine

\* One unit, an acre or a percent.
Whole == 100 * Fine

\* Math.round, of a number that is not negative.
Rounded(v) == (2 * v + Fine) \div (2 * Fine)

\* At most two decimals, up to the tolerance.
Precise(v) == v - Fine * Rounded(v) \in (-Slack) .. Slack

\* One check of a rule: a claim that is not what the schema promised throws, and the verifier
\* rejects; one that is and does not qualify is a business answer.
Checked(wellFormed, qualifies) ==
    IF ~wellFormed THEN "REJECTED" ELSE IF qualifies THEN "passes" ELSE "NOT_ELIGIBLE"

FirstOnly(check, rest) == check

\* Early returns: the first check that does not pass answers.
Then(check, rest) == IF check = "passes" THEN rest ELSE check

=============================================================================
