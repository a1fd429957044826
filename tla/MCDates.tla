------------------------------- MODULE MCDates -------------------------------
(* Model values for checking Dates with TLC.                               *)
EXTENDS Dates

\* The epoch, the era's last year and the century that is a leap year, the ones
\* that are not, plain leap years, and the end of the era after.
YearsAroundLeaps == {1970, 1999, 2026, 2099, 2399}
=============================================================================
