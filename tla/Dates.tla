-------------------------------- MODULE Dates --------------------------------
(***************************************************************************)
(* Today's date, and whether a bill is past due (date.rs, is_past_due).    *)
(*                                                                         *)
(* The program makes a date of the system clock's count of days in UTC.    *)
(* Here it is held against the calendar, counted day by day, and the flag  *)
(* of a snapshot against the days the Town counts: its midnight comes some *)
(* hours after UTC's, and the bill can be paid or replaced between the     *)
(* page that states it and the end of the snapshot.                        *)
(***************************************************************************)
EXTENDS Integers

CONSTANTS
  Years,    \* the clock is first looked at on the New Year of one of them
  MaxDays,  \* how many days pass from then on
  MaxLate   \* how many days a bill stays after its due date

ASSUME DatesAssumption ==
  /\ Years \subseteq {y \in Int : y >= 1970}
  /\ MaxDays \in Nat /\ MaxLate \in Nat

-----------------------------------------------------------------------------
(* The calendar.                                                           *)

IsLeap(y) == y % 4 = 0 /\ (y % 100 # 0 \/ y % 400 = 0)

MonthLength(y, m) ==
  IF m = 2 THEN (IF IsLeap(y) THEN 29 ELSE 28)
  ELSE IF m \in {4, 6, 9, 11} THEN 30 ELSE 31

\* A date is compared as the program compares it, by year, month and day.
Triples  == Int \X (1..12) \X (1..31)
IsDate(d) == d \in Triples /\ d[3] <= MonthLength(d[1], d[2])

NextDate(d) ==
  IF d[3] < MonthLength(d[1], d[2]) THEN <<d[1], d[2], d[3] + 1>>
  ELSE IF d[2] < 12 THEN <<d[1], d[2] + 1, 1>>
  ELSE <<d[1] + 1, 1, 1>>

\* The days from the epoch to a New Year: the leap days are those of the years
\* divided by 4, less those divided by 100, plus those divided by 400.
NewYear(y) ==
  365 * (y - 1970) + ((y - 1969) \div 4 - (y - 1901) \div 100 + (y - 1601) \div 400)

-----------------------------------------------------------------------------
(* date.rs.                                                                *)

\* civil_from_days counts from 1 March 0000, in eras of 400 years, so that a leap
\* day is the last of its year.
SinceMarch(n) == n + 719468
Era(n)        == SinceMarch(n) \div 146097
DayOfEra(n)   == SinceMarch(n) - Era(n) * 146097

\* Mutant of YearOfEra: the last day of the era is forgotten.
YearOfEraShort(doe) == (doe - doe \div 1460 + doe \div 36524) \div 365

YearOfEra(doe) == (doe - doe \div 1460 + doe \div 36524 - doe \div 146096) \div 365

\* Mutant of DayOfYear: every fourth year is a leap year.
DayOfYearJulian(doe) == doe - (365 * YearOfEra(doe) + YearOfEra(doe) \div 4)

DayOfYear(doe) ==
  doe - (365 * YearOfEra(doe) + YearOfEra(doe) \div 4 - YearOfEra(doe) \div 100)

MarchMonth(doy) == (5 * doy + 2) \div 153
DayOfMonth(doy) == doy - (153 * MarchMonth(doy) + 2) \div 5 + 1
Month(mp)       == IF mp < 10 THEN mp + 3 ELSE mp - 9

CivilFromDays(n) ==
  LET doy == DayOfYear(DayOfEra(n))
      m   == Month(MarchMonth(doy))
  IN <<YearOfEra(DayOfEra(n)) + Era(n) * 400 + (IF m <= 2 THEN 1 ELSE 0), m, DayOfMonth(doy)>>

\* Two triples are compared as tuples are.
Before(d, e) ==
  \/ d[1] < e[1]
  \/ d[1] = e[1] /\ d[2] < e[2]
  \/ d[1] = e[1] /\ d[2] = e[2] /\ d[3] < e[3]

-----------------------------------------------------------------------------
VARIABLES
  day,      \* what the clock says: the days since the epoch, in UTC
  utc,      \* the date of that day, counted
  town,     \* the Town's date, which is a day behind for some hours
  start,    \* the day the clock was first looked at
  due, owed,\* the Town's bill: its due date, and whether it is to be paid
  stated,   \* the home page states the due date in a form date::parse knows
  late,     \* history: how many days the Town has counted since the due date
  pc,
  page,     \* what the snapshot read of the home page, and on which day
  today,    \* the date the snapshot took for today's
  flag,     \* past_due
  changed   \* history: the bill has changed since the home page was read

clock == <<day, utc, town, start, late>>
bill  == <<due, owed, stated>>
vars  == <<day, utc, town, start, due, owed, stated, late, pc, page, today, flag, changed>>

Dates  == {d \in Triples : IsDate(d)}
Pages  == [due : Dates, owed : BOOLEAN, stated : BOOLEAN, day : Nat]

TypeOK ==
  /\ day \in Nat /\ start \in Nat /\ late \in Nat
  /\ IsDate(utc) /\ IsDate(town) /\ IsDate(due) /\ IsDate(today)
  /\ owed \in BOOLEAN /\ stated \in BOOLEAN
  /\ pc \in {"idle", "rest", "told"}
  /\ page \in Pages
  /\ flag \in BOOLEAN
  /\ changed \in BOOLEAN

Epoch  == <<1970, 1, 1>>
Unread == [due |-> Epoch, owed |-> FALSE, stated |-> FALSE, day |-> 0]

\* A bill falls due within two days of its issue (bound).
Soon(d) == {d, NextDate(d), NextDate(NextDate(d))}

Init ==
  /\ \E y \in Years :
       /\ day = NewYear(y)
       /\ utc = <<y, 1, 1>>
  /\ town = utc /\ start = day /\ today = Epoch
  /\ due \in Soon(town)
  /\ owed \in BOOLEAN /\ stated \in BOOLEAN
  /\ late = 0
  /\ pc = "idle"
  /\ page = Unread
  /\ flag = FALSE
  /\ changed = FALSE

\* Midnight in UTC, and then in the Town.  A snapshot takes no two midnights (bound).
Midnight ==
  /\ utc = town /\ day < start + MaxDays
  /\ late < MaxLate
  /\ pc = "idle" \/ (pc = "rest" /\ day = page.day)
  /\ day' = day + 1
  /\ utc' = NextDate(utc)
  /\ UNCHANGED <<town, start, late, bill, pc, page, today, flag, changed>>

TownMidnight ==
  /\ utc # town
  /\ town' = NextDate(town)
  /\ late' = IF town = due \/ late > 0 THEN late + 1 ELSE 0
  /\ UNCHANGED <<day, utc, start, bill, pc, page, today, flag, changed>>

\* The Town issues a bill, which replaces the one before.
Issue ==
  /\ due' \in Soon(town)
  /\ owed' = TRUE
  /\ stated' \in BOOLEAN
  /\ late' = 0
  /\ changed' = (pc = "rest")
  /\ UNCHANGED <<day, utc, town, start, pc, page, today, flag>>

Pay ==
  /\ owed
  /\ owed' = FALSE
  /\ changed' = (pc = "rest")
  /\ UNCHANGED <<clock, due, stated, pc, page, today, flag>>

\* build_snapshot: fetch_account reads the balance and the due date ...
ReadHome ==
  /\ pc = "idle"
  /\ page' = [due |-> due, owed |-> owed, stated |-> stated, day |-> day]
  /\ pc' = "rest"
  /\ changed' = FALSE
  /\ UNCHANGED <<clock, bill, today, flag>>

\* Mutant of IsPastDue: a bill is past due on its due date.
IsPastDueEarly(p, date) == p.owed /\ p.stated /\ ~Before(date, p.due)

IsPastDue(p, date) == p.owed /\ p.stated /\ Before(p.due, date)

\* ... then come the other pages, and only then today().
Report ==
  /\ pc = "rest"
  /\ today' = CivilFromDays(day)
  /\ flag' = IsPastDue(page, today')
  /\ pc' = "told"
  /\ page' = Unread /\ changed' = FALSE
  /\ UNCHANGED <<clock, bill>>

\* One of the other pages cannot be read, and there is no snapshot; or it is shown.
End ==
  /\ pc \in {"rest", "told"}
  /\ pc' = "idle"
  /\ today' = Epoch /\ page' = Unread
  /\ flag' = FALSE
  /\ changed' = FALSE
  /\ UNCHANGED <<clock, bill>>

Next ==
  \/ Midnight \/ TownMidnight \/ Issue \/ Pay
  \/ ReadHome \/ Report \/ End

Spec == Init /\ [][Next]_vars

-----------------------------------------------------------------------------
\* civil_from_days is the calendar: through the ends of months, leap years, the
\* centuries that are none and the end of an era, the date it makes of the clock's
\* days is the date counted.
TodayIsCounted == CivilFromDays(day) = utc

\* A snapshot calls a bill past due exactly when it is to be paid and the Town has
\* counted past its due date; and on the due date itself, in the hours when UTC is
\* already on the next day.  A due date in no known form is never past due.
PastDueIsLate ==
  [][pc = "rest" /\ pc' = "told" /\ ~changed =>
       flag' = (owed /\ stated /\ (late > 0 \/ (town = due /\ utc # town)))]_vars

-----------------------------------------------------------------------------
\* The inductive invariant behind the two.
DatesInv ==
  /\ TypeOK
  /\ TodayIsCounted
  /\ utc = town \/ utc = NextDate(town)
  /\ late > 0 <=> Before(due, town)
  /\ pc = "rest" /\ ~changed =>
       /\ page.due = due /\ page.owed = owed /\ page.stated = stated
=============================================================================
