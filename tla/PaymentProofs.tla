---------------------------- MODULE PaymentProofs ----------------------------
(* Theorems about Payment, for every set of accounts and customers.        *)
EXTENDS Payment, TLAPS

\* A pair with a number in each place, or in one, or in none.
LEMMA PairFields ==
  ASSUME NEW p \in Pairs
  PROVE  /\ p.c \in Customers \cup {None}
         /\ p.a \in Accounts \cup {None}
         /\ p = [c |-> p.c, a |-> p.a]
  BY DEF Pairs

\* The numbers to pay are made of the flags' and the home page's.
LEMMA DerivedIsPair ==
  ASSUME flag \in Pairs, home \in Pairs
  PROVE  Derived \in Pairs
  BY PairFields DEF Derived, Pairs

\* With both flags given they are the pair.
LEMMA FlagsAlone ==
  ASSUME flag \in Pairs, None \notin {flag.c, flag.a}
  PROVE  Derived = flag
  BY PairFields DEF Derived

\* Nothing is known at first.
LEMMA NothingKnown ==
  /\ NoPair \in Pairs /\ NoPair.c = None /\ NoPair.a = None
  /\ NoQuote \in [amount : Accounts \cup {None}, hosted : Accounts \cup {None}, valid : BOOLEAN]
  /\ NoQuote.valid = FALSE
  BY DEF NoPair, NoQuote, Pairs

LEMMA InitPInv == Init => PInv
<1> SUFFICES ASSUME Init PROVE PInv
  OBVIOUS
<1>1. TypeOK
  BY NothingKnown DEF Init, TypeOK
<1>2. Placed
  BY NothingKnown DEF Init, Placed, Settled
<1>3. ~quote.valid
  BY NothingKnown DEF Init
<1> QED
  BY <1>1, <1>2, <1>3 DEF PInv

\* The steps that find the numbers keep the invariant.
LEMMA ResolveKeeps ==
  ASSUME PInv, Start \/ Ready \/ Choose \/ Select \/ ReadHome \/ ReadNames \/ Fail
  PROVE  PInv'
<1> USE PaymentAssumption DEF PInv, Go, session
<1>1. CASE Start
  <2>1. PICK f \in Pairs, default \in Accounts \cup {None} :
          /\ flag' = f
          /\ wanted' = IF f.a # None THEN f.a ELSE default
          /\ IF None \in {f.c, f.a}
               THEN pc' = "ready" /\ UNCHANGED sent
               ELSE pc' = "form" /\ sent' = f
          /\ UNCHANGED <<live, active, home, shown, clicked, quote, moved>>
    BY <1>1 DEF Start
  <2>2. TypeOK'
    BY <2>1, PairFields DEF TypeOK
  <2>3. None \notin {f.c, f.a} => Derived' = f
    BY <2>1, PairFields DEF Derived
  <2>4. Placed'
    <3>1. pc = "idle" /\ home = NoPair /\ shown \in {None, home.a} /\ ~quote.valid
      BY <1>1 DEF Start, Placed
    <3>2. CASE None \in {f.c, f.a}
      BY <2>1, <3>1, <3>2, NothingKnown DEF Placed, Settled
    <3>3. CASE None \notin {f.c, f.a}
      BY <2>1, <2>3, <3>1, <3>3, NothingKnown DEF Placed, Settled
    <3> QED
      BY <3>2, <3>3
  <2> QED
    BY <1>1, <2>1, <2>2, <2>4 DEF Start, Placed
<1>2. CASE Ready
  <2>1. TypeOK'
    BY <1>2 DEF Ready, TypeOK
  <2> QED
    BY <1>2, <2>1 DEF Ready, TypeOK, Placed, Settled, Derived, Accepted
<1>3. CASE Choose \/ Fail
  BY <1>3 DEF Choose, Fail, TypeOK, Placed, Settled, Derived, Accepted
<1>4. CASE Select
  <2>1. /\ pc = "select" /\ pc' = "home"
        /\ UNCHANGED <<live, flag, wanted, home, shown, clicked, sent, quote>>
        /\ \/ active' = wanted /\ moved' = FALSE
           \/ active' = active /\ moved' = (active # wanted)
    BY <1>4 DEF Select
  <2>2. wanted \in Linked
    BY <2>1 DEF Placed
  <2>3. TypeOK'
    BY <2>1, <2>2 DEF TypeOK
  <2>4. Placed'
    BY <2>1 DEF Placed, Settled, Derived
  <2> QED
    BY <2>1, <2>3, <2>4 DEF Placed
<1>5. CASE ReadHome
  <2>1. /\ home' \in Pairs
        /\ home'.a # None => home'.a = active /\ home'.c = CustomerOf[home'.a]
    BY <1>5 DEF ReadHome, HomeNumbers, NoPair, Pairs, TypeOK, Accounts
  <2>2. TypeOK'
    BY <1>5, <2>1 DEF ReadHome, TypeOK
  <2>3. /\ pc = "home" /\ pc' = "names" /\ None \in {flag.c, flag.a} /\ ~quote.valid
        /\ UNCHANGED <<active, flag, wanted, shown, quote, moved>>
    BY <1>5 DEF ReadHome, Placed
  <2>4. shown = None
    BY <2>3 DEF Placed
  <2>5. Placed'
    BY <2>1, <2>3, <2>4 DEF Placed, Settled, TypeOK
  <2> QED
    BY <2>2, <2>3, <2>5
<1>6. CASE ReadNames
  <2>1. shown' \in {None, home.a} /\ shown' \in Accounts \cup {None}
    BY <1>6, PairFields DEF ReadNames, Named, TypeOK
  <2>2. Derived \in Pairs
    BY DerivedIsPair DEF TypeOK
  <2>3. TypeOK'
    BY <1>6, <2>1, <2>2 DEF ReadNames, TypeOK
  <2>4. Placed'
    BY <1>6, <2>1 DEF ReadNames, Placed, Settled, Derived
  <2> QED
    BY <1>6, <2>3, <2>4 DEF ReadNames, Placed
<1> QED
  BY <1>1, <1>2, <1>3, <1>4, <1>5, <1>6

\* The lookup keeps the invariant: what makes a quote valid is what the portal
\* returns for a pair it has taken.
LEMMA LookupKeeps ==
  ASSUME PInv, GetForm \/ Post \/ Present
  PROVE  PInv'
<1> USE PaymentAssumption DEF PInv, Go, session
<1>1. CASE GetForm
  BY <1>1 DEF GetForm, TypeOK, Placed, Settled, Derived
<1>2. CASE Post
  <2>1. PICK amount \in {None, sent.a}, hosted \in {None, sent.a}, errorish \in BOOLEAN :
          /\ amount # None \/ hosted # None => Accepted
          /\ quote' = [amount |-> amount, hosted |-> hosted,
                       valid |-> Valid(amount, hosted, errorish)]
    BY <1>2 DEF Post, Amounts
  <2>2. sent.a \in Accounts \cup {None}
    BY PairFields DEF TypeOK
  <2>3. quote' \in [amount : Accounts \cup {None}, hosted : Accounts \cup {None}, valid : BOOLEAN]
    BY <2>1, <2>2 DEF Valid
  <2>4. pc' = "quoted" /\ UNCHANGED <<live, active, flag, wanted, home, shown, clicked, sent, moved>>
    BY <1>2 DEF Post
  <2>5. TypeOK'
    BY <2>3, <2>4 DEF TypeOK
  <2>6. Placed'
    BY <1>2, <2>4 DEF Post, Amounts, Placed, Settled, Derived
  <2>7. quote'.valid => Accepted /\ sent.a \in {quote'.amount, quote'.hosted}
    BY <2>1 DEF Valid
  <2> QED
    BY <2>4, <2>5, <2>6, <2>7 DEF Accepted
<1>3. CASE Present
  BY <1>3 DEF Present, Clear, TypeOK, Placed, Settled, NoPair, NoQuote, Pairs
<1> QED
  BY <1>1, <1>2, <1>3

\* What the other processes and the portal do keeps the invariant.
LEMMA OthersKeep ==
  ASSUME PInv, SelectElsewhere \/ Lapse
  PROVE  PInv'
  BY DEF PInv, SelectElsewhere, Lapse, TypeOK, Placed, Settled, Derived, Accepted

LEMMA NextPInv == PInv /\ [Next]_vars => PInv'
<1>1. ASSUME PInv, UNCHANGED vars PROVE PInv'
  BY <1>1 DEF PInv, vars, TypeOK, Placed, Settled, Derived, Accepted
<1> QED
  BY <1>1, ResolveKeeps, LookupKeeps, OthersKeep DEF Next

\* Each variable keeps to its values: the numbers on the way to a quote are a
\* customer's and an account's, or none (resolve_pay_target, payment::quote).
THEOREM Typed == Spec => []TypeOK
<1>1. PInv => TypeOK
  BY DEF PInv
<1> QED
  BY <1>1, InitPInv, NextPInv, PTL DEF Spec

\* The account paid is the one named, but where no -a names it and another process
\* selects between the command's selection and its look (resolve_pay_target).
THEOREM PaidAsNamed == Spec => []NamedIsPaid
<1>1. PInv => NamedIsPaid
  BY DEF PInv, NamedIsPaid, Placed, Settled, Derived
<1> QED
  BY <1>1, InitPInv, NextPInv, PTL DEF Spec

\* The name shown is that of the account paid, but for a selection of another process
\* in one window, and then the two accounts are one customer's (account_summary).
THEOREM Shown == Spec => []ShownIsPaid
<1>1. ASSUME PInv PROVE ShownIsPaid
  <2> USE <1>1 DEF PInv
  <2> SUFFICES ASSUME pc = "quoted", shown \notin {None, sent.a}
               PROVE  /\ moved /\ flag.a # None
                      /\ quote.valid => CustomerOf[shown] = CustomerOf[sent.a]
    BY DEF ShownIsPaid
  <2>1. shown = home.a /\ home.a # None /\ home.c = CustomerOf[home.a]
    BY DEF Placed
  <2>2. sent = Derived
    BY DEF Placed, Settled
  <2>3. flag.a # None /\ sent.a = flag.a /\ wanted = flag.a
    BY <2>1, <2>2 DEF Derived, Placed
  <2>4. moved
    BY <2>1, <2>3 DEF Placed
  <2>5. ASSUME quote.valid PROVE CustomerOf[shown] = CustomerOf[sent.a]
    <3>1. flag.c = None
      BY <2>1, <2>3, NothingKnown DEF Placed
    <3> QED
      BY <2>5, <2>1, <2>2, <2>3, <3>1 DEF Accepted, Derived
  <2> QED
    BY <2>3, <2>4, <2>5
<1> QED
  BY <1>1, InitPInv, NextPInv, PTL DEF Spec

\* A valid quote is for a pair the Town has.
THEOREM ValidQuotes == Spec => []ValidIsAccepted
<1>1. PInv => ValidIsAccepted
  BY DEF PInv, ValidIsAccepted
<1> QED
  BY <1>1, InitPInv, NextPInv, PTL DEF Spec
=============================================================================
