------------------------------ MODULE Answers -------------------------------
(***************************************************************************)
(* How the tools of `tojfl mcp` make an answer of the portal's pages, and  *)
(* how `tojfl snapshot` makes one number of two pages, while the portal's  *)
(* books go on changing between the requests (JupiterSource of mcp.rs,     *)
(* Portal::build_snapshot of lib.rs).                                      *)
(*                                                                         *)
(* A page the parsers no longer read shows as an empty list.  What must    *)
(* never happen is that such a list is answered as "none": hence the       *)
(* second page, the service information, whose dates say what there is.    *)
(*                                                                         *)
(* The books hold one account; an amount is one unit.  A charge stands for *)
(* a bill and for the meter read it bills, so that the billing history,    *)
(* the usage history and the ledger are views of one sequence.  A page is  *)
(* the set of the numbers of its rows: what is asked of a row after its    *)
(* page was read, its day and whether a tool wants it, never changes.      *)
(***************************************************************************)
EXTENDS Integers, Sequences, FiniteSets

CONSTANTS
  Days,    \* how many days pass
  MaxRows, \* how many rows the books come to hold
  Window   \* how many of them, the newest, a history page shows

ASSUME AnswersAssumption == Days \in Nat \ {0} /\ MaxRows \in Nat /\ Window \in Nat \ {0}

\* A credit is an adjustment or a payment; until it clears it is called pending, and one
\* that is held is the portal's pending adjustment: a credit not called a payment.
Kinds   == {"charge", "adjustment", "held", "pending", "payment"}
Row     == [kind : Kinds, day : 1..Days]
Tools   == {"statements", "usage", "payments"}
\* What can be wrong with a history page: its table is not found, its rows lack an
\* amount or a description, its credits do not read as credits, its dates are in a
\* form date::parse does not know.
Defects == {"gone", "blank", "unsigned", "undated"}
None    == 0   \* no day
Odd     == -1  \* a date in a form date::parse does not know

VARIABLES
  day, books,   \* the portal: today, and the rows, oldest first
  defects,      \* what is wrong with the history pages now
  dated,        \* how the service page states its dates: "no", "yes", or in an "odd" form
  pc, tool,     \* the call
  rows,         \* the numbers of the rows its history page held
  seen,         \* what was wrong with that page
  stated,       \* the date the service page stated, None or Odd
  answer,       \* "list", "none", "error" for a page refused, "failed" for a request
  owed,         \* what a snapshot has made of the pages it read
  posted,       \* history: the kinds posted between the call's two pages
  cleared       \* history: a pending credit cleared between them

portal == <<day, books, defects, dated>>
call   == <<tool, rows, seen, stated, answer, owed>>
vars   == <<day, books, defects, dated, pc, tool, rows, seen, stated, answer, owed,
            posted, cleared>>

TypeOK ==
  /\ day \in 1..Days
  /\ books \in Seq(Row) /\ Len(books) <= MaxRows
  /\ defects \in SUBSET Defects
  /\ dated \in {"no", "yes", "odd"}
  /\ pc \in {"idle", "rows", "form", "service", "first", "second", "answered"}
  /\ tool \in Tools
  /\ rows \subseteq DOMAIN books
  /\ seen \in SUBSET Defects
  /\ stated \in Odd..Days
  /\ answer \in {"no", "list", "none", "error", "failed"}
  /\ owed \in (-MaxRows)..MaxRows
  /\ posted \in SUBSET Kinds
  /\ cleared \in BOOLEAN

Init ==
  /\ day = 1
  /\ books = <<>>
  /\ defects \in SUBSET Defects
  /\ dated \in {"no", "yes", "odd"}
  /\ pc = "idle"
  /\ tool = "payments"
  /\ rows = {}
  /\ seen = {}
  /\ stated = None
  /\ answer = "no"
  /\ owed = 0
  /\ posted = {}
  /\ cleared = FALSE

-----------------------------------------------------------------------------
(* The portal.                                                             *)

OfKinds(ks)   == {i \in DOMAIN books : books[i].kind \in ks}
CountOf(kind) == Cardinality(OfKinds({kind}))

\* The balance of the home page leaves out what is pending.
Balance == CountOf("charge") - CountOf("adjustment") - CountOf("payment")
Pending == {"held", "pending"}
Owed    == Balance - Cardinality(OfKinds(Pending))

\* The kinds of rows that the page of each tool lists.
Listed(t) == IF t = "payments" THEN Kinds ELSE {"charge"}

\* What a tool looks for.
Wanted(t) == IF t = "payments" THEN {"pending", "payment"} ELSE {"charge"}

\* The newest of them.
Page(t) ==
  LET all == OfKinds(Listed(t))
  IN {i \in all : Cardinality({j \in all : j > i}) < Window}

\* The date of the last one, as the service page states it.
LastDates(t) ==
  LET on == {books[i].day : i \in OfKinds(Wanted(t))}
  IN IF dated = "no" \/ on = {} THEN {None}
     ELSE IF dated = "odd" THEN {Odd}
     ELSE {d \in on : \A e \in on : e <= d}

Between == pc \in {"service", "second"}

PostRow ==
  /\ Len(books) < MaxRows
  /\ \E k \in Kinds \ {"payment"} :
       /\ books' = Append(books, [kind |-> k, day |-> day])
       /\ posted' = IF Between THEN posted \cup {k} ELSE posted
  /\ UNCHANGED <<day, defects, dated, pc, call, cleared>>

\* A pending credit clears: the ledger no longer calls it pending and the balance
\* counts it.
ClearedKind(k) == IF k = "pending" THEN "payment" ELSE "adjustment"

Clear ==
  /\ \E i \in OfKinds(Pending) :
       books' = [books EXCEPT ![i].kind = ClearedKind(books[i].kind)]
  /\ cleared' = (cleared \/ Between)
  /\ UNCHANGED <<day, defects, dated, pc, call, posted>>

NextDay ==
  /\ day < Days
  /\ day' = day + 1
  /\ UNCHANGED <<books, defects, dated, pc, call, posted, cleared>>

-----------------------------------------------------------------------------
(* The tools that list.                                                    *)

Ask(t) ==
  /\ pc = "idle"
  /\ tool' = t
  /\ pc' = "rows"
  /\ UNCHANGED <<portal, rows, seen, stated, answer, owed, posted, cleared>>

Answer(a) == answer' = a /\ pc' = "answered"

\* usage::fetch: the usage page asks for a service first, unless it comes with the
\* rows; one that has lost its button is an empty list, as one that lost its table.
OpenForm ==
  /\ pc = "rows"
  /\ tool = "usage" /\ "gone" \notin defects
  /\ pc' = "form"
  /\ UNCHANGED <<portal, call, posted, cleared>>

\* The rows the parser makes of a page with these defects.
Parsed(page, ds) == IF "gone" \in ds THEN {} ELSE page

\* Rows with their amount, date and description.
Readable(page, ds) == IF "blank" \in ds THEN {} ELSE Parsed(page, ds)

\* payment_of: of the readable rows of a ledger, the credits called payments.
Found(t, page, ds) ==
  {i \in Readable(page, ds) : t = "payments" => books[i].kind \in Wanted(t) /\ "unsigned" \notin ds}

ReadRows ==
  /\ pc \in {"rows", "form"}
  /\ rows' = Page(tool)
  /\ seen' = defects
  /\ \/ Found(tool, rows', seen') # {} /\ Answer("list")
     \/ Parsed(rows', seen') # {} /\ Readable(rows', seen') = {} /\ Answer("error")
     \/ /\ Found(tool, rows', seen') = {}
        /\ Parsed(rows', seen') = {} \/ Readable(rows', seen') # {}
        /\ pc' = "service" /\ UNCHANGED answer
  /\ UNCHANGED <<portal, tool, stated, owed, posted, cleared>>

\* Mutant of Covers: a payment dated like the oldest row is not missed.
CoversLater(page, ds, date) ==
  "undated" \notin ds /\ date > None /\ \E i \in page : date > books[i].day

\* ledger_covers: the ledger goes back to the date the service page states.
Covers(page, ds, date) ==
  "undated" \notin ds /\ date > None /\ \E i \in page : date >= books[i].day

\* Mutant of Misses: any ledger with no payments misses the one that is dated.
MissesAny(page, ds, date) == date # None

\* A list that came back empty did not find what the service page dates
\* (empty_is_an_error), or a ledger with no payment should have shown it.
Misses(page, ds, date) ==
  /\ date # None
  /\ Parsed(page, ds) = {} \/ Covers(page, ds, date)

\* A request of the call fails, and the call with it.
ReadFails ==
  /\ pc \in {"rows", "form", "service", "first", "second"}
  /\ Answer("failed")
  /\ UNCHANGED <<portal, tool, rows, seen, stated, owed, posted, cleared>>

ReadService ==
  /\ pc = "service"
  /\ stated' \in LastDates(tool)
  /\ Answer(IF Misses(rows, seen, stated') THEN "error" ELSE "none")
  /\ UNCHANGED <<portal, tool, rows, seen, owed, posted, cleared>>

-----------------------------------------------------------------------------
(* The snapshot.                                                           *)

\* Mutant of Order: the ledger is read before the balance.
LedgerFirst == <<"ledger", "home">>

\* build_snapshot reads the balance of the home page and the ledger after it.
Order == <<"home", "ledger">>

\* Mutant of PendingTotal: a pending row is counted once for each of its amounts.
PendingTwice(page, ds) ==
  2 * Cardinality({i \in Readable(page, ds) : books[i].kind \in Pending /\ "unsigned" \notin ds})

\* pending_payment_total: every pending row that is a credit, whatever it is called.
PendingTotal(page, ds) ==
  Cardinality({i \in Readable(page, ds) : books[i].kind \in Pending /\ "unsigned" \notin ds})

Snapshot ==
  /\ pc = "idle"
  /\ pc' = "first"
  /\ UNCHANGED <<portal, call, posted, cleared>>

\* What is owed is the balance less what is pending.
ReadForSnapshot(page) ==
  /\ IF page = "home" THEN owed' = owed + Balance /\ UNCHANGED <<rows, seen>>
     ELSE /\ rows' = Page("payments")
          /\ seen' = defects
          /\ owed' = owed - PendingTotal(rows', seen')
  /\ UNCHANGED <<portal, tool, stated, answer, posted, cleared>>

ReadFirst  == pc = "first" /\ pc' = "second" /\ ReadForSnapshot(Order[1])
ReadSecond == pc = "second" /\ pc' = "answered" /\ ReadForSnapshot(Order[2])

-----------------------------------------------------------------------------
Done ==
  /\ pc = "answered"
  /\ pc' = "idle"
  /\ tool' = "payments"
  /\ rows' = {}
  /\ seen' = {}
  /\ stated' = None
  /\ answer' = "no"
  /\ owed' = 0
  /\ posted' = {}
  /\ cleared' = FALSE
  /\ UNCHANGED portal

Next ==
  \/ PostRow \/ Clear \/ NextDay
  \/ (\E t \in Tools : Ask(t)) \/ OpenForm \/ ReadRows \/ ReadService \/ ReadFails
  \/ Snapshot \/ ReadFirst \/ ReadSecond
  \/ Done

Spec == Init /\ [][Next]_vars

-----------------------------------------------------------------------------
HoldsWanted(page) == page \cap OfKinds(Wanted(tool)) # {}

\* The days of the oldest rows of a page.
Oldest(page) == {books[i].day : i \in {j \in page : \A k \in page : j <= k}}

\* "None" is never answered of a page that held what was asked for, whatever the
\* parsers could not read of it, unless the service page stated no date, or dates of an
\* unknown form kept the two pages from being compared (empty_is_an_error, ledger_covers).
NoneMeansNone ==
  answer = "none" /\ HoldsWanted(rows) =>
    \/ stated = None
    \/ "gone" \notin seen /\ ("undated" \in seen \/ stated = Odd)

\* A page the tool refuses did lose what it should have shown: its shape had changed,
\* or it held no row, or the service page had moved on in between, or what the service
\* page dates was on the day of the oldest row the ledger still shows.
ErrorsHaveACause ==
  answer = "error" =>
    \/ seen # {}
    \/ rows = {}
    \/ posted \cap Wanted(tool) # {}
    \/ ~HoldsWanted(rows) /\ stated \in Oldest(rows)

\* A snapshot never takes a credit off what is owed twice, once pending and once
\* cleared: what it reports is short of what is owed only by a charge that came after
\* the balance was read.  And it is what is owed, of plain pages that show every
\* pending credit, unless one cleared or the balance changed between the pages.
SnapshotOwes ==
  [][pc = "second" /\ pc' = "answered" /\ answer' # "failed" =>
       /\ "charge" \notin posted => owed' >= Owed
       /\ posted \subseteq Pending /\ ~cleared /\ seen' = {} /\ Len(books) <= Window
          => owed' = Owed]_vars
=============================================================================
