------------------------------- MODULE AgeClaims ------------------------------
(***************************************************************************)
(* The issuer's age assertions, services/age-issuer/src/age-claims.mjs,    *)
(* and the rule on them, domains/age/index.mjs.                            *)
(***************************************************************************)
EXTENDS Decimals

CONSTANT Unreadable    \* a date of birth that is missing or no YYYY-MM-DD

AgeThresholds == {18, 21}

IsLeap(year) == year % 4 = 0 /\ (year % 100 # 0 \/ year % 400 = 0)

DaysIn(month, year) ==
    IF month = 2 THEN IF IsLeap(year) THEN 29 ELSE 28
    ELSE IF month \in {4, 6, 9, 11} THEN 30 ELSE 31

\* parseCalendarDate() accepts it: Date.UTC gives it back unchanged, which also refuses the
\* years up to 99, since Date.UTC takes these as 1900 to 1999.
IsCalendarDate(date) ==
    /\ date # Unreadable
    /\ 100 <= date.year /\ date.year <= 9999 /\ date.month \in 1 .. 12
    /\ date.day \in 1 .. DaysIn(date.month, date.year)

EarlierMonth(birth, on) == on.month < birth.month

UpToBirthday(birth, on) ==
    on.month < birth.month \/ (on.month = birth.month /\ on.day <= birth.day)

BeforeBirthday(birth, on) ==
    on.month < birth.month \/ (on.month = birth.month /\ on.day < birth.day)

CompletedYears(birth, on) ==
    (on.year - birth.year) - (IF BeforeBirthday(birth, on) THEN 1 ELSE 0)

\* deriveAgeClaims() does not throw.
Derivable(birth, today) == IsCalendarDate(birth) /\ CompletedYears(birth, today) >= 0

AgeAssertions(birth, today) ==
    [threshold \in AgeThresholds |-> CompletedYears(birth, today) >= threshold]

\* decideAge(): a claim that is no boolean is refused, not denied.
DecideAge(ageOver18) ==
    IF ageOver18 = Malformed THEN "REJECTED" ELSE IF ageOver18 THEN "APPROVED" ELSE "DENIED"

=============================================================================
