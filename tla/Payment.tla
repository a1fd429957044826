------------------------------- MODULE Payment -------------------------------
(***************************************************************************)
(* Which account `tojfl pay quote` and `pay open` are about.               *)
(*                                                                         *)
(* The pair to pay, a customer and an account number, comes from the flags *)
(* -c and -a, and what they leave out from the home page of the account    *)
(* the session is on (resolve_pay_target, commands.rs).  Other processes   *)
(* move that session meanwhile, as module ScopedRead has it.  The lookup   *)
(* itself is a form on the portal's public page, posted by a client        *)
(* without a session (payment.rs).  Names and addresses are abstracted to  *)
(* the account whose they are, pages of an account likewise.               *)
(***************************************************************************)
CONSTANTS
  Linked,      \* the accounts linked to the login
  Unlinked,    \* other accounts of the Town
  Customers,
  CustomerOf,  \* the customer of each account
  None         \* a flag that is not given, a number or name that is not known

Accounts == Linked \cup Unlinked

ASSUME PaymentAssumption ==
  /\ CustomerOf \in [Accounts -> Customers]
  /\ None \notin Accounts \cup Customers

VARIABLES
  live,     \* the portal honours the session
  active,   \* the account the session is on
  pc,
  flag,     \* -c and -a
  wanted,   \* Portal.active_account: --account or default_account
  home,     \* the numbers of the home page
  shown,    \* the account whose name and address the quote shows
  clicked,  \* the form's button was found
  sent,     \* the numbers posted
  quote,    \* what was read from the page that came back
  moved     \* history: the session was not on the account selected when the home
            \* page was read: another process selected, or the selection did nothing

session == <<live, active>>
vars == <<live, active, pc, flag, wanted, home, shown, clicked, sent, quote, moved>>

Pairs   == [c : Customers \cup {None}, a : Accounts \cup {None}]
NoPair  == [c |-> None, a |-> None]
NoQuote == [amount |-> None, hosted |-> None, valid |-> FALSE]

TypeOK ==
  /\ live \in BOOLEAN
  /\ active \in Linked
  /\ pc \in {"idle", "ready", "choose", "select", "home", "names", "form", "post",
             "quoted", "failed"}
  /\ flag \in Pairs /\ home \in Pairs /\ sent \in Pairs
  /\ wanted \in Accounts \cup {None}
  /\ shown \in Accounts \cup {None}
  /\ clicked \in BOOLEAN
  /\ quote \in [amount : Accounts \cup {None}, hosted : Accounts \cup {None}, valid : BOOLEAN]
  /\ moved \in BOOLEAN

Clear ==
  /\ pc' = "idle"
  /\ flag' = NoPair /\ home' = NoPair /\ sent' = NoPair
  /\ wanted' = None /\ shown' = None
  /\ clicked' = FALSE
  /\ quote' = NoQuote
  /\ moved' = FALSE

Init ==
  /\ live = TRUE
  /\ active \in Linked
  /\ pc = "idle"
  /\ flag = NoPair /\ home = NoPair /\ sent = NoPair
  /\ wanted = None /\ shown = None
  /\ clicked = FALSE
  /\ quote = NoQuote
  /\ moved = FALSE

-----------------------------------------------------------------------------
(* The numbers to pay: resolve_pay_target, Portal::account_summary.        *)

Go(at) == pc' = at

\* Any request can fail, and the command ends with its error.
Fail ==
  /\ pc \notin {"idle", "quoted", "failed"}
  /\ Go("failed")
  /\ UNCHANGED <<session, flag, wanted, home, shown, clicked, sent, quote, moved>>

\* The command line and the config.  Clap gives -a to the global --account too,
\* as the two share their name, so an account named either way is selected.
Start ==
  /\ pc = "idle"
  /\ \E f \in Pairs, default \in Accounts \cup {None} :
       /\ flag' = f
       /\ wanted' = IF f.a # None THEN f.a ELSE default
       /\ IF None \in {f.c, f.a}
            THEN Go("ready") /\ UNCHANGED sent
            ELSE Go("form") /\ sent' = f
  /\ UNCHANGED <<session, home, shown, clicked, quote, moved>>

\* ensure_authenticated: a lapsed session is opened anew, on an account the
\* portal chooses.
Ready ==
  /\ pc = "ready"
  /\ \/ live /\ UNCHANGED session
     \/ ~live /\ live' = TRUE /\ active' \in Linked
  /\ Go(IF wanted = None THEN "home" ELSE "choose")
  /\ UNCHANGED <<flag, wanted, home, shown, clicked, sent, quote, moved>>

\* accounts::select: the list, whose row for the account has the postback.
Choose ==
  /\ pc = "choose"
  /\ live /\ wanted \in Linked
  /\ Go("select")
  /\ UNCHANGED <<session, flag, wanted, home, shown, clicked, sent, quote, moved>>

\* Its postback.  The page that is answered is not looked at: a session that has
\* lapsed selects nothing, and so may the portal.
Select ==
  /\ pc = "select"
  /\ \/ live /\ active' = wanted /\ moved' = FALSE
     \/ UNCHANGED active /\ moved' = (active # wanted)
  /\ Go("home")
  /\ UNCHANGED <<live, flag, wanted, home, shown, clicked, sent, quote>>

\* Mutant of HomeNumbers: the customer and the account change places.
SwappedNumbers ==
  {NoPair} \cup (IF live THEN {[c |-> active, a |-> CustomerOf[active]]} ELSE {})

\* The numbers a home page states, both in one text or neither; the login page has none.
HomeNumbers ==
  {NoPair} \cup (IF live THEN {[c |-> CustomerOf[active], a |-> active]} ELSE {})

ReadHome ==
  /\ pc = "home"
  /\ home' \in HomeNumbers
  /\ Go("names")
  /\ UNCHANGED <<session, flag, wanted, shown, clicked, sent, quote, moved>>

\* Mutant of Named: the name of the row the list has selected.
NamedByRow == IF live THEN {None, active} ELSE {None}

\* find_linked: the row for the home page's number, when the list has one.
Named == IF live /\ home.a \in Linked THEN {None, home.a} ELSE {None}

\* Mutant of Derived: the home page goes before the flags.
HomeFirst ==
  [c |-> IF home.c # None THEN home.c ELSE flag.c,
   a |-> IF home.a # None THEN home.a ELSE flag.a]

\* derive_pay_numbers.
Derived ==
  [c |-> IF flag.c # None THEN flag.c ELSE home.c,
   a |-> IF flag.a # None THEN flag.a ELSE home.a]

\* The name and address come from the list, by the home page's number.
ReadNames ==
  /\ pc = "names"
  /\ shown' \in Named
  /\ IF None \in {Derived.c, Derived.a}
       THEN Go("failed") /\ UNCHANGED sent
       ELSE Go("form") /\ sent' = Derived
  /\ UNCHANGED <<session, flag, wanted, home, clicked, quote, moved>>

-----------------------------------------------------------------------------
(* The lookup: payment::quote, by a guest.                                 *)

\* The public form.  Without its button the form is posted all the same, and
\* comes back as it was.
GetForm ==
  /\ pc = "form"
  /\ clicked' \in BOOLEAN
  /\ Go("post")
  /\ UNCHANGED <<session, flag, wanted, home, shown, sent, quote, moved>>

\* The Town has the account under that customer, and the portal looked it up.
Accepted == clicked /\ sent.a \in Accounts /\ CustomerOf[sent.a] = sent.c

\* Mutant of Valid: either sign will do.
ValidEither(amount, hosted, errorish) == amount # None \/ hosted # None \/ ~errorish

\* looks_like_error and the rest of the heuristic.
Valid(amount, hosted, errorish) == (amount # None \/ hosted # None) /\ ~errorish

\* The label's amount, or else the one in the hosted page's address, if it has one.
Amounts(labelled, hosted) == IF labelled # None THEN {labelled} ELSE {None, hosted}

\* A pair the portal takes comes back with the hosted page, the amount, or both,
\* and any message; one it refuses with a message that may not be known for a
\* refusal.
Post ==
  /\ pc = "post"
  /\ \E labelled, hosted \in {None, sent.a}, errorish \in BOOLEAN :
       /\ labelled # None \/ hosted # None => Accepted
       /\ \E amount \in Amounts(labelled, hosted) :
            quote' = [amount |-> amount, hosted |-> hosted,
                      valid |-> Valid(amount, hosted, errorish)]
  /\ Go("quoted")
  /\ UNCHANGED <<session, flag, wanted, home, shown, clicked, sent, moved>>

\* pay_quote prints; pay_open opens the hosted page or says that there is none.
Present == pc \in {"quoted", "failed"} /\ Clear /\ UNCHANGED session

-----------------------------------------------------------------------------
(* What else happens to the session.                                       *)

\* Another process selects (module ScopedRead).
SelectElsewhere ==
  /\ live
  /\ \E a \in Linked \ {active} :
       /\ active' = a
       /\ moved' = IF pc = "home" /\ wanted # None THEN a # wanted ELSE moved
  /\ UNCHANGED <<live, pc, flag, wanted, home, shown, clicked, sent, quote>>

Lapse ==
  /\ live
  /\ live' = FALSE
  /\ UNCHANGED <<active, pc, flag, wanted, home, shown, clicked, sent, quote, moved>>

Next ==
  \/ Start \/ Ready \/ Choose \/ Select \/ ReadHome \/ ReadNames
  \/ GetForm \/ Post \/ Present \/ Fail
  \/ SelectElsewhere \/ Lapse

Spec == Init /\ [][Next]_vars

-----------------------------------------------------------------------------
\* The numbers to pay have been found.
Settled == pc \in {"form", "post", "quoted"}

\* What a quote's numbers and name are taken from.
Placed ==
  /\ flag.a # None => wanted = flag.a
  /\ pc \in {"ready", "choose", "select", "home", "names"} => None \in {flag.c, flag.a}
  /\ pc = "idle" \/ None \notin {flag.c, flag.a} => home = NoPair
  /\ pc \in {"ready", "choose", "select", "home"} => shown = None
  /\ pc = "select" => wanted \in Linked
  /\ home.a # None => home.a \in Linked /\ home.c = CustomerOf[home.a]
  /\ shown \in {None, home.a}
  /\ pc = "home" /\ wanted # None /\ ~moved => active = wanted
  /\ pc \in {"names", "form", "post", "quoted"} /\ None \notin {home.a, wanted} /\ ~moved =>
       home.a = wanted
  /\ Settled => sent = Derived /\ None \notin {sent.c, sent.a}
  /\ pc # "quoted" => ~quote.valid

\* The inductive invariant behind the properties.
PInv == TypeOK /\ Placed /\ (quote.valid => Accepted /\ sent.a \in {quote.amount, quote.hosted})

\* The account paid is the one named by -a, --account or default_account.  When
\* no -a names it, another process's selection between the command's own and its
\* look at the home page has that process's account paid (resolve_pay_target).
NamedIsPaid ==
  pc = "quoted" /\ wanted # None => sent.a = wanted \/ (moved /\ flag.a = None)

\* The name and address a quote shows are those of the account it is for.  They
\* are another's only when -a was given, the session was moved away in between,
\* and, if the quote is valid, the two accounts are one customer's (the home
\* page's customer number and the flag's account number make one pair).
ShownIsPaid ==
  pc = "quoted" /\ shown \notin {None, sent.a} =>
    /\ moved /\ flag.a # None
    /\ quote.valid => CustomerOf[shown] = CustomerOf[sent.a]

\* A valid quote is for a pair the Town has: neither a refusal in words the
\* heuristic does not know nor a form that came back unread passes for one.
ValidIsAccepted == quote.valid => Accepted /\ sent.a \in {quote.amount, quote.hosted}
=============================================================================
