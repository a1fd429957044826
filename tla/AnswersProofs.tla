---------------------------- MODULE AnswersProofs ----------------------------
(* Theorems about Answers, for any number of days and of rows, and pages of *)
(* any length.                                                              *)
EXTENDS Answers, FiniteSetTheorems, WellFoundedInduction, TLAPS

\* A later row is of the same day or a later one.
Ordered ==
  \A i \in DOMAIN books :
    /\ books[i].day <= day
    /\ \A j \in DOMAIN books : i <= j => books[i].day <= books[j].day

\* A call is answered once, and the history begins between its pages.
Begun ==
  /\ pc # "answered" => answer = "no"
  /\ pc \in {"idle", "rows", "form", "first"} => posted = {} /\ ~cleared /\ owed = 0

\* What a call knows that asks for the service page: of a page without defects, that it
\* holds nothing wanted; and that what is wanted and not on the page is older than it.
Asking ==
  pc = "service" =>
    /\ seen = {} => ~HoldsWanted(rows)
    /\ posted \cap Wanted(tool) = {} =>
         \A w \in OfKinds(Wanted(tool)) \ rows, i \in rows : w < i

\* The balance that was read, and the books since.
Owing ==
  pc = "second" =>
    /\ owed <= CountOf("charge")
    /\ -owed <= Cardinality(OfKinds({"adjustment", "payment"}))
    /\ "charge" \notin posted => owed >= Balance
    /\ posted \subseteq Pending /\ ~cleared => owed = Balance

\* The inductive invariant.
AnsInv ==
  /\ TypeOK
  /\ Ordered
  /\ Begun
  /\ Asking
  /\ Owing
  /\ NoneMeansNone
  /\ ErrorsHaveACause

-----------------------------------------------------------------------------
(* The books and their counts.                                              *)

LEMMA Rows ==
  ASSUME TypeOK
  PROVE  /\ Len(books) \in Nat /\ DOMAIN books = 1 .. Len(books)
         /\ \A i \in DOMAIN books : /\ books[i] \in Row
                                    /\ books[i].kind \in Kinds /\ books[i].day \in 1 .. Days
<1>1. books \in Seq(Row)
  BY DEF TypeOK
<1>2. Len(books) \in Nat /\ DOMAIN books = 1 .. Len(books)
  BY <1>1
<1>3. \A i \in DOMAIN books : books[i] \in Row
  BY <1>1
<1>4. \A r \in Row : r.kind \in Kinds /\ r.day \in 1 .. Days
  BY DEF Row
<1> QED
  BY <1>2, <1>3, <1>4

\* Rows of some kinds are finitely many, and no more than the books hold.
LEMMA Counts ==
  ASSUME TypeOK, NEW S, S \subseteq DOMAIN books
  PROVE  IsFiniteSet(S) /\ Cardinality(S) \in Nat /\ Cardinality(S) <= Len(books)
<1>1. IsFiniteSet(1 .. Len(books)) /\ Cardinality(1 .. Len(books)) = Len(books)
  BY Rows, FS_Interval
<1> QED
  BY <1>1, Rows, FS_Subset, FS_CardinalityType

\* Fewer of them are among fewer rows.
LEMMA Fewer ==
  ASSUME TypeOK, NEW S, S \subseteq DOMAIN books, NEW T, T \subseteq S
  PROVE  Cardinality(T) <= Cardinality(S)
  BY Counts, FS_Subset

\* Rows of two kinds are the rows of the one and those of the other.
LEMMA TwoKinds ==
  ASSUME TypeOK, NEW S, S \subseteq DOMAIN books, NEW T, T \subseteq DOMAIN books, S \cap T = {}
  PROVE  Cardinality(S \cup T) = Cardinality(S) + Cardinality(T)
<1>1. Cardinality(S \cup T) = Cardinality(S) + Cardinality(T) - Cardinality(S \cap T)
  BY Counts, FS_Union
<1> QED
  BY <1>1, FS_EmptySet, Counts

LEMMA Credits ==
  ASSUME TypeOK
  PROVE  /\ Cardinality(OfKinds({"adjustment", "payment"})) = CountOf("adjustment") + CountOf("payment")
         /\ Cardinality(OfKinds({"adjustment", "payment"})) + Cardinality(OfKinds(Pending)) <= Len(books)
         /\ Cardinality(OfKinds(Pending)) \in Nat
         /\ \A k \in Kinds : CountOf(k) \in Nat /\ CountOf(k) <= Len(books)
<1>1. /\ OfKinds({"adjustment", "payment"}) = OfKinds({"adjustment"}) \cup OfKinds({"payment"})
      /\ OfKinds({"adjustment"}) \cap OfKinds({"payment"}) = {}
      /\ OfKinds({"adjustment", "payment"}) \cap OfKinds(Pending) = {}
      /\ \A ks : OfKinds(ks) \subseteq DOMAIN books
  BY DEF OfKinds, Pending
<1>2. /\ Cardinality(OfKinds({"adjustment", "payment"}) \cup OfKinds(Pending))
           = Cardinality(OfKinds({"adjustment", "payment"})) + Cardinality(OfKinds(Pending))
      /\ Cardinality(OfKinds({"adjustment", "payment"})) = CountOf("adjustment") + CountOf("payment")
  BY <1>1, TwoKinds DEF CountOf
<1> QED
  BY <1>1, <1>2, Counts DEF CountOf

\* Posting a row counts it in, among the rows of its kind.
LEMMA Posted ==
  ASSUME TypeOK, NEW k \in Kinds, books' = Append(books, [kind |-> k, day |-> day]), NEW ks
  PROVE  Cardinality(OfKinds(ks)') = Cardinality(OfKinds(ks)) + IF k \in ks THEN 1 ELSE 0
<1>1. /\ DOMAIN books' = 1 .. (Len(books) + 1) /\ DOMAIN books = 1 .. Len(books) /\ Len(books) \in Nat
      /\ \A i \in 1 .. Len(books) : books'[i] = books[i]
      /\ books'[Len(books) + 1] = [kind |-> k, day |-> day]
  <2>1. books \in Seq(Row) /\ [kind |-> k, day |-> day] \in Row
    BY DEF TypeOK, Row
  <2> QED
    BY <2>1
<1>2. OfKinds(ks)' = OfKinds(ks) \cup IF k \in ks THEN {Len(books) + 1} ELSE {}
  BY <1>1 DEF OfKinds
<1>3. Len(books) + 1 \notin OfKinds(ks) /\ OfKinds(ks) \subseteq DOMAIN books
  BY <1>1 DEF OfKinds
<1>4. IsFiniteSet(OfKinds(ks)) /\ Cardinality(OfKinds(ks)) \in Nat
  BY <1>3, Counts
<1>5. Cardinality(OfKinds(ks) \cup {Len(books) + 1}) = Cardinality(OfKinds(ks)) + 1
  BY <1>3, <1>4, FS_AddElement
<1>6. CASE k \in ks
  <2>1. OfKinds(ks)' = OfKinds(ks) \cup {Len(books) + 1}
    BY <1>2, <1>6
  <2> QED
    BY <2>1, <1>5, <1>6
<1>7. CASE k \notin ks
  <2>1. OfKinds(ks)' = OfKinds(ks)
    BY <1>2, <1>7
  <2> QED
    BY <2>1, <1>4, <1>7
<1> QED
  BY <1>6, <1>7

\* A pending credit that clears is one row less pending and one more of its kind.
LEMMA Cleared ==
  ASSUME TypeOK, NEW n \in DOMAIN books, NEW k \in Kinds, books' = [books EXCEPT ![n].kind = k], NEW ks
  PROVE  Cardinality(OfKinds(ks)')
           = Cardinality(OfKinds(ks)) + (IF k \in ks THEN 1 ELSE 0)
                                      - (IF books[n].kind \in ks THEN 1 ELSE 0)
<1>1. /\ DOMAIN books' = DOMAIN books
      /\ \A i \in DOMAIN books \ {n} : books'[i] = books[i]
      /\ books'[n].kind = k
  BY Rows DEF Row
<1> DEFINE S == OfKinds(ks) \ {n}
<1>2. /\ OfKinds(ks) = S \cup (IF books[n].kind \in ks THEN {n} ELSE {})
      /\ OfKinds(ks)' = S \cup (IF k \in ks THEN {n} ELSE {})
  BY <1>1 DEF OfKinds
<1>3. S \subseteq DOMAIN books /\ n \notin S
  BY DEF OfKinds
<1>4. IsFiniteSet(S) /\ Cardinality(S) \in Nat
  BY <1>3, Counts
<1> HIDE DEF S
<1>5. Cardinality(S \cup {n}) = Cardinality(S) + 1
  BY <1>3, <1>4, FS_AddElement
<1>6. Cardinality(OfKinds(ks)) = Cardinality(S) + IF books[n].kind \in ks THEN 1 ELSE 0
  <2>1. CASE books[n].kind \in ks
    BY <1>2, <1>5, <2>1
  <2>2. CASE books[n].kind \notin ks
    <3>1. OfKinds(ks) = S
      BY <1>2, <2>2
    <3> QED
      BY <3>1, <1>4, <2>2
  <2> QED
    BY <2>1, <2>2
<1>7. Cardinality(OfKinds(ks)') = Cardinality(S) + IF k \in ks THEN 1 ELSE 0
  <2>1. CASE k \in ks
    BY <1>2, <1>5, <2>1
  <2>2. CASE k \notin ks
    <3>1. OfKinds(ks)' = S
      BY <1>2, <2>2
    <3> QED
      BY <3>1, <1>4, <2>2
  <2> QED
    BY <2>1, <2>2
<1> QED
  BY <1>4, <1>6, <1>7

-----------------------------------------------------------------------------
(* What a change of the books leaves of a page that was read.               *)

\* A page's rows keep their days, and are wanted or not, as the books change.
LEMMA PageKept ==
  ASSUME TypeOK, tool' = tool, rows' = rows, DOMAIN books \subseteq DOMAIN books',
         \A i \in DOMAIN books :
           /\ books'[i].day = books[i].day
           /\ books'[i].kind \in Wanted(tool) <=> books[i].kind \in Wanted(tool)
  PROVE  /\ (rows \cap OfKinds(Wanted(tool)))' = rows \cap OfKinds(Wanted(tool))
         /\ Oldest(rows)' = Oldest(rows)
         /\ OfKinds(Wanted(tool))' \cap DOMAIN books = OfKinds(Wanted(tool))
<1>1. rows \subseteq DOMAIN books
  BY DEF TypeOK
<1>2. Wanted(tool)' = Wanted(tool)
  BY DEF Wanted
<1>3. OfKinds(Wanted(tool))' \cap DOMAIN books = OfKinds(Wanted(tool))
  BY <1>2 DEF OfKinds
<1>4. (rows \cap OfKinds(Wanted(tool)))' = rows \cap OfKinds(Wanted(tool))
  BY <1>1, <1>3
<1>5. Oldest(rows)' = Oldest(rows)
  BY <1>1 DEF Oldest
<1> QED
  BY <1>3, <1>4, <1>5

\* What is answered stays right while the page, the books' part of it and what the
\* service page stated stay as they are, and more kinds are posted.
LEMMA AnswersKept ==
  ASSUME NoneMeansNone, ErrorsHaveACause, tool' = tool, rows' = rows, seen' = seen,
         stated' = stated, answer' = answer, posted \subseteq posted',
         (rows \cap OfKinds(Wanted(tool)))' = rows \cap OfKinds(Wanted(tool)),
         Oldest(rows)' = Oldest(rows)
  PROVE  NoneMeansNone' /\ ErrorsHaveACause'
<1>1. Wanted(tool)' = Wanted(tool)
  BY DEF Wanted
<1>2. NoneMeansNone'
  BY DEF NoneMeansNone, HoldsWanted
<1>3. ErrorsHaveACause'
  BY <1>1 DEF ErrorsHaveACause, HoldsWanted
<1> QED
  BY <1>2, <1>3

-----------------------------------------------------------------------------
(* The portal's steps.                                                      *)

LEMMA InitAnsInv == Init => AnsInv
<1> SUFFICES ASSUME Init
             PROVE  AnsInv
  OBVIOUS
<1>1. TypeOK
  <2>1. books \in Seq(Row) /\ Len(books) <= MaxRows
    BY AnswersAssumption DEF Init
  <2>2. stated \in Odd..Days /\ owed \in (-MaxRows)..MaxRows /\ day \in 1..Days
    BY AnswersAssumption DEF Init, Odd, None
  <2> QED
    BY <2>1, <2>2 DEF Init, TypeOK, Tools
<1>2. Ordered /\ Begun /\ Asking /\ Owing /\ NoneMeansNone /\ ErrorsHaveACause
  BY DEF Init, Ordered, Begun, Asking, Owing, NoneMeansNone, ErrorsHaveACause
<1> QED
  BY <1>1, <1>2 DEF AnsInv

LEMMA PostRowKeeps ==
  ASSUME AnsInv, PostRow
  PROVE  AnsInv'
<1> USE DEF AnsInv
<1>1. PICK k \in Kinds \ {"payment"} :
        /\ books' = Append(books, [kind |-> k, day |-> day])
        /\ posted' = IF Between THEN posted \cup {k} ELSE posted
  BY DEF PostRow
<1>2. /\ Len(books) < MaxRows
      /\ UNCHANGED <<day, defects, dated, pc, tool, rows, seen, stated, answer, owed, cleared>>
  BY DEF PostRow, call
<1>3. /\ DOMAIN books' = 1 .. (Len(books) + 1) /\ DOMAIN books = 1 .. Len(books) /\ Len(books) \in Nat
      /\ Len(books') = Len(books) + 1 /\ books' \in Seq(Row)
      /\ \A i \in 1 .. Len(books) : books'[i] = books[i]
      /\ books'[Len(books) + 1] = [kind |-> k, day |-> day]
  <2>1. books \in Seq(Row) /\ [kind |-> k, day |-> day] \in Row
    BY DEF TypeOK, Row
  <2> QED
    BY <1>1, <2>1
<1>4. TypeOK'
  <2>1. Len(books') <= MaxRows
    BY <1>2, <1>3, AnswersAssumption
  <2>2. rows' \subseteq DOMAIN books'
    BY <1>2, <1>3 DEF TypeOK
  <2>3. posted' \in SUBSET Kinds
    BY <1>1 DEF TypeOK
  <2> QED
    BY <1>2, <1>3, <2>1, <2>2, <2>3 DEF TypeOK
<1>5. Ordered'
  BY <1>2, <1>3, Rows DEF TypeOK, Ordered
<1>6. Begun'
  BY <1>1, <1>2 DEF Begun, Between
<1>7. /\ (rows \cap OfKinds(Wanted(tool)))' = rows \cap OfKinds(Wanted(tool))
      /\ Oldest(rows)' = Oldest(rows)
      /\ OfKinds(Wanted(tool))' \cap DOMAIN books = OfKinds(Wanted(tool))
  BY <1>2, <1>3, PageKept
<1>8. Asking'
  <2> SUFFICES ASSUME pc = "service"
               PROVE  /\ (seen = {} => ~HoldsWanted(rows))'
                      /\ (posted \cap Wanted(tool) = {} =>
                            \A w \in OfKinds(Wanted(tool)) \ rows, i \in rows : w < i)'
    BY <1>2 DEF Asking
  <2>1. (seen = {} => ~HoldsWanted(rows))'
    BY <1>2, <1>7 DEF Asking, HoldsWanted
  <2>2. Wanted(tool)' = Wanted(tool) /\ posted' = posted \cup {k}
    BY <1>1, <1>2 DEF Wanted, Between
  <2>3. k \notin Wanted(tool) => OfKinds(Wanted(tool))' \subseteq DOMAIN books
    BY <1>3, <2>2 DEF OfKinds
  <2> QED
    BY <1>2, <1>7, <2>1, <2>2, <2>3 DEF Asking
<1>9. Owing'
  <2> SUFFICES ASSUME pc = "second"
               PROVE  /\ owed' <= CountOf("charge")'
                      /\ -owed' <= Cardinality(OfKinds({"adjustment", "payment"}))'
                      /\ "charge" \notin posted' => owed' >= Balance'
                      /\ posted' \subseteq Pending /\ ~cleared' => owed' = Balance'
    BY <1>2 DEF Owing
  <2>1. posted' = posted \cup {k} /\ owed' = owed /\ cleared' = cleared
    BY <1>1, <1>2 DEF Between
  <2>2. \A ks : Cardinality(OfKinds(ks)') = Cardinality(OfKinds(ks)) + IF k \in ks THEN 1 ELSE 0
    BY <1>1, Posted
  <2>3. /\ CountOf("charge")' = CountOf("charge") + IF k = "charge" THEN 1 ELSE 0
        /\ CountOf("adjustment")' = CountOf("adjustment") + IF k = "adjustment" THEN 1 ELSE 0
        /\ CountOf("payment")' = CountOf("payment")
    BY <2>2, Credits DEF CountOf, Kinds
  <2>4. Cardinality(OfKinds({"adjustment", "payment"}))'
          = Cardinality(OfKinds({"adjustment", "payment"})) + IF k = "adjustment" THEN 1 ELSE 0
    BY <2>2
  <2>5. /\ Cardinality(OfKinds({"adjustment", "payment"})) \in Nat
        /\ CountOf("charge") \in Nat /\ CountOf("adjustment") \in Nat /\ CountOf("payment") \in Nat
        /\ owed \in Int
    BY Credits DEF TypeOK, Kinds
  <2>6. k \in {"charge", "adjustment"} \cup Pending
    BY DEF Kinds, Pending
  <2>7. Balance' = Balance + (IF k = "charge" THEN 1 ELSE 0) - (IF k = "adjustment" THEN 1 ELSE 0)
    BY <2>3, <2>5 DEF Balance
  <2>8. Balance \in Int
    BY <2>5 DEF Balance
  <2>9. /\ owed <= CountOf("charge")
        /\ -owed <= Cardinality(OfKinds({"adjustment", "payment"}))
        /\ "charge" \notin posted => owed >= Balance
        /\ posted \subseteq Pending /\ ~cleared => owed = Balance
    BY DEF Owing
  <2>10. CASE k = "charge"
    <3>1. /\ CountOf("charge")' = CountOf("charge") + 1
          /\ Cardinality(OfKinds({"adjustment", "payment"}))'
               = Cardinality(OfKinds({"adjustment", "payment"}))
          /\ "charge" \in posted' /\ ~(posted' \subseteq Pending)
      BY <2>1, <2>3, <2>4, <2>5, <2>10 DEF Pending
    <3> QED
      BY <2>1, <2>5, <2>9, <3>1
  <2>11. CASE k = "adjustment"
    <3>1. /\ CountOf("charge")' = CountOf("charge") /\ Balance' = Balance - 1
          /\ Cardinality(OfKinds({"adjustment", "payment"}))'
               = Cardinality(OfKinds({"adjustment", "payment"})) + 1
          /\ ~(posted' \subseteq Pending)
      BY <2>1, <2>3, <2>4, <2>5, <2>7, <2>8, <2>11 DEF Pending
    <3> QED
      BY <2>1, <2>5, <2>8, <2>9, <3>1
  <2>12. CASE k \in Pending
    <3>1. /\ CountOf("charge")' = CountOf("charge") /\ Balance' = Balance
          /\ Cardinality(OfKinds({"adjustment", "payment"}))'
               = Cardinality(OfKinds({"adjustment", "payment"}))
      BY <2>3, <2>4, <2>5, <2>7, <2>8, <2>12 DEF Pending
    <3> QED
      BY <2>1, <2>5, <2>8, <2>9, <3>1
  <2> QED
    BY <2>6, <2>10, <2>11, <2>12
<1>10. NoneMeansNone' /\ ErrorsHaveACause'
  BY <1>1, <1>2, <1>7, AnswersKept
<1> QED
  BY <1>4, <1>5, <1>6, <1>8, <1>9, <1>10

LEMMA ClearKeeps ==
  ASSUME AnsInv, Clear
  PROVE  AnsInv'
<1> USE DEF AnsInv
<1> DEFINE To(n) == ClearedKind(books[n].kind)
<1>1. PICK n \in DOMAIN books : books[n].kind \in Pending /\ books' = [books EXCEPT ![n].kind = To(n)]
  BY DEF Clear, OfKinds
<1>a. \/ books[n].kind = "pending" /\ To(n) = "payment"
      \/ books[n].kind = "held" /\ To(n) = "adjustment"
  BY <1>1 DEF Pending, ClearedKind
<1>b. To(n) \in Kinds
  BY <1>a DEF Kinds
<1> HIDE DEF To
<1>2. /\ UNCHANGED <<day, defects, dated, pc, tool, rows, seen, stated, answer, owed, posted>>
      /\ cleared' = (cleared \/ Between)
  BY DEF Clear, call
<1>3. /\ DOMAIN books' = DOMAIN books
      /\ \A i \in DOMAIN books \ {n} : books'[i] = books[i]
      /\ books'[n].kind = To(n) /\ books'[n].day = books[n].day
  BY <1>1, Rows DEF Row
<1>4. books' \in Seq(Row) /\ Len(books') = Len(books)
  <2>1. [books[n] EXCEPT !.kind = To(n)] \in Row
    BY <1>b, Rows DEF Row
  <2>2. books \in Seq(Row)
    BY DEF TypeOK
  <2>3. books' = [books EXCEPT ![n] = [books[n] EXCEPT !.kind = To(n)]]
    BY <1>1
  <2> QED
    BY <2>1, <2>2, <2>3
<1>5. TypeOK'
  <2>1. cleared' \in BOOLEAN
    BY <1>2 DEF TypeOK, Between
  <2> QED
    BY <1>2, <1>3, <1>4, <2>1 DEF TypeOK
<1>6. Ordered'
  BY <1>2, <1>3 DEF Ordered
<1>7. Begun'
  BY <1>2 DEF Begun, Between
<1>8. /\ (rows \cap OfKinds(Wanted(tool)))' = rows \cap OfKinds(Wanted(tool))
      /\ Oldest(rows)' = Oldest(rows)
      /\ OfKinds(Wanted(tool))' = OfKinds(Wanted(tool))
  <2>1. \A i \in DOMAIN books : books'[i].kind \in Wanted(tool) <=> books[i].kind \in Wanted(tool)
    BY <1>a, <1>3 DEF Wanted
  <2>2. OfKinds(Wanted(tool))' \subseteq DOMAIN books
    BY <1>3 DEF OfKinds
  <2>3. \A i \in DOMAIN books : books'[i].day = books[i].day
    BY <1>3
  <2> QED
    BY <1>2, <1>3, <2>1, <2>2, <2>3, PageKept
<1>9. Asking'
  <2>1. Wanted(tool)' = Wanted(tool)
    BY <1>2 DEF Wanted
  <2> QED
    BY <1>2, <1>8, <2>1 DEF Asking, HoldsWanted
<1>10. Owing'
  <2> SUFFICES ASSUME pc = "second"
               PROVE  /\ owed' <= CountOf("charge")'
                      /\ -owed' <= Cardinality(OfKinds({"adjustment", "payment"}))'
                      /\ "charge" \notin posted' => owed' >= Balance'
                      /\ posted' \subseteq Pending /\ ~cleared' => owed' = Balance'
    BY <1>2 DEF Owing
  <2>1. posted' = posted /\ owed' = owed /\ cleared'
    BY <1>2 DEF Between
  <2>2. \A ks : Cardinality(OfKinds(ks)')
                  = Cardinality(OfKinds(ks)) + (IF To(n) \in ks THEN 1 ELSE 0)
                                             - (IF books[n].kind \in ks THEN 1 ELSE 0)
    BY <1>1, <1>b, Cleared
  <2>3. /\ Cardinality(OfKinds({"adjustment", "payment"})) \in Nat
        /\ CountOf("charge") \in Nat /\ CountOf("adjustment") \in Nat /\ CountOf("payment") \in Nat
        /\ owed \in Int
    BY Credits DEF TypeOK, Kinds
  <2>4. /\ CountOf("charge")' = CountOf("charge")
        /\ \/ /\ CountOf("adjustment")' = CountOf("adjustment")
              /\ CountOf("payment")' = CountOf("payment") + 1
           \/ /\ CountOf("adjustment")' = CountOf("adjustment") + 1
              /\ CountOf("payment")' = CountOf("payment")
    BY <1>a, <2>2, <2>3 DEF CountOf
  <2>5. Cardinality(OfKinds({"adjustment", "payment"}))'
          = Cardinality(OfKinds({"adjustment", "payment"})) + 1
    BY <1>a, <2>2, <2>3
  <2>6. Balance' = Balance - 1 /\ Balance \in Int
    BY <2>3, <2>4 DEF Balance
  <2>7. /\ owed <= CountOf("charge")
        /\ -owed <= Cardinality(OfKinds({"adjustment", "payment"}))
        /\ "charge" \notin posted => owed >= Balance
    BY DEF Owing
  <2> QED
    BY <2>1, <2>3, <2>4, <2>5, <2>6, <2>7
<1>11. NoneMeansNone' /\ ErrorsHaveACause'
  BY <1>2, <1>8, AnswersKept
<1> QED
  BY <1>5, <1>6, <1>7, <1>9, <1>10, <1>11

-----------------------------------------------------------------------------
(* The oldest row of a page.                                                *)

LEMMA LeastExists ==
  ASSUME NEW S, S \subseteq Nat, S # {}
  PROVE  \E n \in S : \A m \in S : n <= m
<1> DEFINE R == {ss \in Nat \X Nat : ss[1] < ss[2]}
<1>1. IsWellFoundedOn(R, Nat)
  BY NatLessThanWellFounded DEF OpToRel
<1>2. PICK n \in S : \A m \in S : <<m, n>> \notin R
  <2> HIDE DEF R
  <2> QED
    BY <1>1, WFMin
<1>3. \A m \in S : ~(m < n)
  BY <1>2
<1> QED
  BY <1>2, <1>3

\* What the ordered rows of a page are all later than, and no earlier than one of
\* them, is of the day of the oldest.
LEMMA OldestDay ==
  ASSUME TypeOK, Ordered, rows # {}, NEW w \in DOMAIN books, \A i \in rows : w < i,
         \E i \in rows : books[w].day >= books[i].day
  PROVE  books[w].day \in Oldest(rows)
<1>1. rows \subseteq DOMAIN books /\ DOMAIN books \subseteq Nat
  BY Rows DEF TypeOK
<1>2. PICK j \in rows : \A k \in rows : j <= k
  BY <1>1, LeastExists
<1>3. PICK i \in rows : books[w].day >= books[i].day
  OBVIOUS
<1>4. books[w].day <= books[j].day /\ books[j].day <= books[i].day
  BY <1>1, <1>2, <1>3 DEF Ordered
<1>5. books[w].day \in Int /\ books[j].day \in Int /\ books[i].day \in Int
  BY <1>1, Rows
<1>6. books[w].day = books[j].day
  BY <1>3, <1>4, <1>5
<1> QED
  BY <1>2, <1>6 DEF Oldest

-----------------------------------------------------------------------------
(* The steps of a call that lists.                                          *)

\* A page is of the rows of the books, and what is wanted and not on it is older.
LEMMA PageIsNewest ==
  ASSUME TypeOK, NEW t \in Tools
  PROVE  /\ Page(t) \subseteq OfKinds(Listed(t)) /\ Page(t) \subseteq DOMAIN books
         /\ \A w \in OfKinds(Wanted(t)) \ Page(t), i \in Page(t) : w < i
<1> DEFINE all == OfKinds(Listed(t))
           Later(i) == {j \in all : j > i}
<1>1. all \subseteq DOMAIN books /\ DOMAIN books \subseteq Nat
  BY Rows DEF OfKinds
<1>2. Page(t) = {i \in all : Cardinality(Later(i)) < Window}
  BY DEF Page
<1>3. OfKinds(Wanted(t)) \subseteq all
  BY DEF OfKinds, Wanted, Listed, Kinds
<1>4. ASSUME NEW w \in all, w \notin Page(t), NEW i \in Page(t)
      PROVE  w < i
  <2>1. i \in all /\ w # i /\ w \in Nat /\ i \in Nat
    BY <1>1, <1>2, <1>4
  <2> SUFFICES ASSUME w > i
               PROVE  FALSE
    BY <2>1
  <2>2. Later(w) \subseteq Later(i) /\ Later(i) \subseteq DOMAIN books
    BY <1>1, <2>1
  <2>3. Cardinality(Later(w)) <= Cardinality(Later(i)) /\ Cardinality(Later(w)) \in Nat
        /\ Cardinality(Later(i)) \in Nat
    <3> HIDE DEF Later
    <3>1. Later(w) \subseteq DOMAIN books
      BY <2>2
    <3> QED
      BY <2>2, <3>1, Fewer, Counts
  <2>4. Cardinality(Later(i)) < Window /\ ~(Cardinality(Later(w)) < Window)
    BY <1>2, <1>4
  <2> QED
    BY <2>3, <2>4, AnswersAssumption
<1> QED
  BY <1>1, <1>2, <1>3, <1>4

\* A step that leaves the books, and is not of a call between its pages, before or after.
LEMMA OwingElsewhere == ASSUME pc' # "second" PROVE Owing'
  BY DEF Owing

LEMMA OrderedKept == ASSUME Ordered, books' = books, day' = day PROVE Ordered'
  BY DEF Ordered

LEMMA NotAnswered ==
  ASSUME answer' = "no"
  PROVE  NoneMeansNone' /\ ErrorsHaveACause'
  BY DEF NoneMeansNone, ErrorsHaveACause

LEMMA NextDayKeeps ==
  ASSUME AnsInv, NextDay
  PROVE  AnsInv'
<1> USE DEF AnsInv, NextDay, call
<1>1. TypeOK'
  BY AnswersAssumption DEF TypeOK
<1>2. Ordered'
  <2>1. \A i \in DOMAIN books : books[i].day \in Int
    BY Rows
  <2>2. day \in Int
    BY DEF TypeOK
  <2> QED
    BY <2>1, <2>2 DEF Ordered
<1>3. Begun' /\ Asking' /\ Owing'
  BY DEF Begun, Asking, Owing, HoldsWanted, OfKinds, Wanted, Balance, CountOf
<1>4. NoneMeansNone' /\ ErrorsHaveACause'
  BY DEF NoneMeansNone, ErrorsHaveACause, HoldsWanted, OfKinds, Wanted, Oldest
<1> QED
  BY <1>1, <1>2, <1>3, <1>4

LEMMA AskKeeps ==
  ASSUME AnsInv, NEW t \in Tools, Ask(t)
  PROVE  AnsInv'
<1> USE DEF AnsInv, Ask, portal
<1>1. TypeOK'
  BY DEF TypeOK
<1>2. Ordered' /\ Owing'
  BY OrderedKept, OwingElsewhere
<1>3. Begun' /\ Asking'
  BY DEF Begun, Asking
<1>4. NoneMeansNone' /\ ErrorsHaveACause'
  BY NotAnswered DEF Begun
<1> QED
  BY <1>1, <1>2, <1>3, <1>4

LEMMA OpenFormKeeps ==
  ASSUME AnsInv, OpenForm
  PROVE  AnsInv'
<1> USE DEF AnsInv, OpenForm, portal, call
<1>1. TypeOK'
  BY DEF TypeOK
<1>2. Ordered' /\ Owing'
  BY OrderedKept, OwingElsewhere
<1>3. Begun' /\ Asking'
  BY DEF Begun, Asking
<1>4. NoneMeansNone' /\ ErrorsHaveACause'
  BY NotAnswered DEF Begun
<1> QED
  BY <1>1, <1>2, <1>3, <1>4

LEMMA ReadRowsKeeps ==
  ASSUME AnsInv, ReadRows
  PROVE  AnsInv'
<1> USE DEF AnsInv
<1>1. /\ pc \in {"rows", "form"} /\ rows' = Page(tool) /\ seen' = defects
      /\ UNCHANGED <<day, books, defects, dated, tool, stated, owed, posted, cleared>>
      /\ tool \in Tools
  BY DEF ReadRows, portal, TypeOK
<1>2. answer = "no" /\ posted = {} /\ ~cleared /\ owed = 0
  BY <1>1 DEF Begun
<1>3. \/ pc' = "answered" /\ answer' = "list"
      \/ pc' = "answered" /\ answer' = "error" /\ Parsed(rows', seen') # {} /\ Readable(rows', seen') = {}
      \/ pc' = "service" /\ answer' = "no" /\ Found(tool, rows', seen') = {}
  <2>1. Parsed(rows', seen') = {} => Found(tool, rows', seen') = {}
    BY DEF Parsed, Readable, Found
  <2> QED
    BY <1>2, <2>1 DEF ReadRows, Answer
<1>4. /\ rows' \subseteq OfKinds(Listed(tool)) /\ rows' \subseteq DOMAIN books
      /\ \A w \in OfKinds(Wanted(tool)) \ rows', i \in rows' : w < i
  BY <1>1, PageIsNewest
<1>5. TypeOK'
  BY <1>1, <1>3, <1>4 DEF TypeOK
<1>6. Ordered' /\ Owing'
  <2>1. pc' # "second"
    BY <1>3
  <2> QED
    BY <1>1, <2>1, OrderedKept, OwingElsewhere
<1>7. Begun'
  BY <1>3 DEF Begun
<1>8. Asking'
  <2> SUFFICES ASSUME pc' = "service"
               PROVE  /\ seen' = {} => ~HoldsWanted(rows)'
                      /\ \A w \in OfKinds(Wanted(tool))' \ rows', i \in rows' : w < i
    BY DEF Asking
  <2>1. OfKinds(Wanted(tool))' = OfKinds(Wanted(tool))
    BY <1>1 DEF OfKinds, Wanted
  <2>2. ASSUME seen' = {}
        PROVE  rows' \cap OfKinds(Wanted(tool)) = {}
    <3>1. Found(tool, rows', seen') = {}
      BY <1>3
    <3>2. Readable(rows', seen') = rows'
      BY <2>2 DEF Readable, Parsed
    <3> QED
      BY <2>2, <3>1, <3>2 DEF Found, OfKinds
  <2> QED
    BY <1>4, <2>1, <2>2 DEF HoldsWanted
<1>9. NoneMeansNone'
  BY <1>3 DEF NoneMeansNone
<1>10. ErrorsHaveACause'
  <2>1. Parsed(rows', seen') # {} /\ Readable(rows', seen') = {} => seen' # {}
    BY DEF Parsed, Readable
  <2> QED
    BY <1>3, <2>1 DEF ErrorsHaveACause
<1> QED
  BY <1>5, <1>6, <1>7, <1>8, <1>9, <1>10

LEMMA ReadFailsKeeps ==
  ASSUME AnsInv, ReadFails
  PROVE  AnsInv'
<1> USE DEF AnsInv, ReadFails, Answer, portal
<1>1. TypeOK'
  BY DEF TypeOK
<1>2. Ordered' /\ Owing'
  BY OrderedKept, OwingElsewhere
<1>3. Begun' /\ Asking'
  BY DEF Begun, Asking
<1>4. NoneMeansNone' /\ ErrorsHaveACause'
  BY DEF NoneMeansNone, ErrorsHaveACause
<1> QED
  BY <1>1, <1>2, <1>3, <1>4

\* The service page dates a row, the last that is wanted, unless it dates none, or in an
\* odd form.
LEMMA Stated ==
  ASSUME TypeOK, NEW date \in LastDates(tool), date > None
  PROVE  \E w \in OfKinds(Wanted(tool)) :
           date = books[w].day /\ \A v \in OfKinds(Wanted(tool)) : books[v].day <= date
<1> DEFINE on == {books[i].day : i \in OfKinds(Wanted(tool))}
<1>1. \/ LastDates(tool) \in {{None}, {Odd}}
      \/ LastDates(tool) = {d \in on : \A e \in on : e <= d}
  BY DEF LastDates
<1>2. date \notin {None, Odd}
  BY DEF None, Odd
<1>3. date \in on /\ \A e \in on : e <= date
  <2> HIDE DEF on
  <2> QED
    BY <1>1, <1>2
<1> QED
  BY <1>3

LEMMA ReadServiceKeeps ==
  ASSUME AnsInv, ReadService
  PROVE  AnsInv'
<1> USE DEF AnsInv
<1>1. /\ pc = "service" /\ pc' = "answered" /\ stated' \in LastDates(tool)
      /\ answer' = IF Misses(rows, seen, stated') THEN "error" ELSE "none"
      /\ UNCHANGED <<day, books, defects, dated, tool, rows, seen, owed, posted, cleared>>
  BY DEF ReadService, Answer, portal
<1>2. /\ Wanted(tool)' = Wanted(tool) /\ OfKinds(Wanted(tool))' = OfKinds(Wanted(tool))
      /\ Oldest(rows)' = Oldest(rows)
  BY <1>1 DEF Wanted, OfKinds, Oldest
<1>3. /\ rows \subseteq DOMAIN books /\ OfKinds(Wanted(tool)) \subseteq DOMAIN books
      /\ \A i \in DOMAIN books : books[i].day \in 1 .. Days
  BY Rows DEF TypeOK, OfKinds
<1>4. /\ stated' \in Odd .. Days
      /\ stated' > None => \E w \in OfKinds(Wanted(tool)) :
           stated' = books[w].day /\ \A v \in OfKinds(Wanted(tool)) : books[v].day <= stated'
  <2>1. stated' \in Odd .. Days
    <3>1. stated' \in {None, Odd} \/ stated' \in {books[i].day : i \in OfKinds(Wanted(tool))}
      BY <1>1 DEF LastDates
    <3> QED
      BY <1>3, <3>1, AnswersAssumption DEF None, Odd
  <2> QED
    BY <1>1, <2>1, Stated
<1>5. TypeOK'
  <2>1. answer' \in {"error", "none"}
    BY <1>1
  <2> QED
    BY <1>1, <1>4, <2>1 DEF TypeOK
<1>6. Ordered' /\ Owing'
  BY <1>1, OrderedKept, OwingElsewhere
<1>7. Begun' /\ Asking'
  BY <1>1 DEF Begun, Asking
<1>8. NoneMeansNone'
  <2> SUFFICES ASSUME ~Misses(rows, seen, stated'), rows \cap OfKinds(Wanted(tool)) # {},
                      stated' # None
               PROVE  "gone" \notin seen /\ ("undated" \in seen \/ stated' = Odd)
    BY <1>1, <1>2 DEF NoneMeansNone, HoldsWanted
  <2>1. Parsed(rows, seen) # {} /\ ~Covers(rows, seen, stated')
    BY DEF Misses
  <2>2. "gone" \notin seen
    BY <2>1 DEF Parsed
  <2>3. ASSUME "undated" \notin seen, stated' # Odd
        PROVE  FALSE
    <3>1. stated' > None
      BY <1>4, <2>3 DEF None, Odd
    <3>2. PICK i \in rows : i \in OfKinds(Wanted(tool))
      OBVIOUS
    <3>3. books[i].day <= stated'
      BY <1>4, <3>1, <3>2
    <3>4. stated' >= books[i].day
      BY <1>3, <1>4, <3>2, <3>3 DEF Odd
    <3> QED
      BY <2>1, <2>3, <3>1, <3>2, <3>4 DEF Covers
  <2> QED
    BY <2>2, <2>3
<1>9. ErrorsHaveACause'
  <2> SUFFICES ASSUME Misses(rows, seen, stated'), seen = {}, rows # {},
                      posted \cap Wanted(tool) = {}
               PROVE  rows \cap OfKinds(Wanted(tool)) = {} /\ stated' \in Oldest(rows)
    BY <1>1, <1>2 DEF ErrorsHaveACause, HoldsWanted
  <2>1. /\ rows \cap OfKinds(Wanted(tool)) = {}
        /\ \A w \in OfKinds(Wanted(tool)) \ rows, i \in rows : w < i
    BY <1>1 DEF Asking, HoldsWanted
  <2>2. Covers(rows, seen, stated')
    BY DEF Misses, Parsed
  <2>3. stated' > None /\ \E i \in rows : stated' >= books[i].day
    BY <2>2 DEF Covers
  <2>4. PICK w \in OfKinds(Wanted(tool)) : stated' = books[w].day
    BY <1>4, <2>3
  <2>5. w \in DOMAIN books /\ \A i \in rows : w < i
    BY <1>3, <2>1
  <2> QED
    BY <2>1, <2>3, <2>4, <2>5, OldestDay
<1> QED
  BY <1>5, <1>6, <1>7, <1>8, <1>9

-----------------------------------------------------------------------------
(* The steps of the snapshot.                                               *)

LEMMA SnapshotKeeps ==
  ASSUME AnsInv, Snapshot
  PROVE  AnsInv'
<1> USE DEF AnsInv, Snapshot, portal, call
<1>1. TypeOK'
  BY DEF TypeOK
<1>2. Ordered' /\ Owing'
  BY OrderedKept, OwingElsewhere
<1>3. Begun' /\ Asking'
  BY DEF Begun, Asking
<1>4. NoneMeansNone' /\ ErrorsHaveACause'
  BY NotAnswered DEF Begun
<1> QED
  BY <1>1, <1>2, <1>3, <1>4

\* The credits and what is pending are no more than the rows, nor are the charges.
LEMMA Bounded ==
  ASSUME TypeOK
  PROVE  /\ Balance \in Int
         /\ Balance <= CountOf("charge")
         /\ -Balance <= Cardinality(OfKinds({"adjustment", "payment"}))
         /\ CountOf("charge") \in 0 .. MaxRows
         /\ Cardinality(OfKinds(Pending)) \in Nat
         /\ Cardinality(OfKinds({"adjustment", "payment"})) \in Nat
         /\ Cardinality(OfKinds({"adjustment", "payment"})) + Cardinality(OfKinds(Pending)) <= MaxRows
<1>1. Len(books) \in Nat /\ Len(books) <= MaxRows /\ MaxRows \in Nat
  BY Rows, AnswersAssumption DEF TypeOK
<1>2. /\ CountOf("charge") \in Nat /\ CountOf("charge") <= Len(books)
      /\ CountOf("adjustment") \in Nat /\ CountOf("payment") \in Nat /\ Cardinality(OfKinds(Pending)) \in Nat
  BY Credits DEF Kinds
<1>3. /\ Cardinality(OfKinds({"adjustment", "payment"})) = CountOf("adjustment") + CountOf("payment")
      /\ Cardinality(OfKinds({"adjustment", "payment"})) + Cardinality(OfKinds(Pending)) <= Len(books)
  BY Credits
<1> QED
  BY <1>1, <1>2, <1>3 DEF Balance

LEMMA ReadFirstKeeps ==
  ASSUME AnsInv, ReadFirst
  PROVE  AnsInv'
<1> USE DEF AnsInv
<1>1. /\ pc = "first" /\ pc' = "second" /\ owed' = owed + Balance
      /\ UNCHANGED <<day, books, defects, dated, tool, rows, seen, stated, answer, posted, cleared>>
  BY DEF ReadFirst, ReadForSnapshot, Order, portal
<1>2. answer = "no" /\ posted = {} /\ ~cleared /\ owed = 0
  BY <1>1 DEF Begun
<1>3. owed' = Balance
  BY <1>1, <1>2, Bounded
<1>4. TypeOK'
  <2>1. owed' \in (-MaxRows) .. MaxRows
    BY <1>3, Bounded, AnswersAssumption
  <2> QED
    BY <1>1, <2>1 DEF TypeOK
<1>5. Ordered' /\ Begun' /\ Asking'
  BY <1>1, <1>2, OrderedKept DEF Begun, Asking
<1>6. Owing'
  <2>1. /\ CountOf("charge")' = CountOf("charge") /\ Balance' = Balance
        /\ OfKinds({"adjustment", "payment"})' = OfKinds({"adjustment", "payment"})
    BY <1>1 DEF CountOf, Balance, OfKinds
  <2> QED
    BY <1>3, <2>1, Bounded DEF Owing
<1>7. NoneMeansNone' /\ ErrorsHaveACause'
  BY <1>1, <1>2, NotAnswered
<1> QED
  BY <1>4, <1>5, <1>6, <1>7

\* What a ledger lists of the pending credits, whole if it is plain and shows all rows.
LEMMA PendingListed ==
  ASSUME TypeOK, NEW ds
  PROVE  /\ PendingTotal(Page("payments"), ds) \in Nat
         /\ PendingTotal(Page("payments"), ds) <= Cardinality(OfKinds(Pending))
         /\ ds = {} /\ Len(books) <= Window => PendingTotal(Page("payments"), ds) = Cardinality(OfKinds(Pending))
<1> DEFINE page == Page("payments")
           listed == {i \in Readable(page, ds) : books[i].kind \in Pending /\ "unsigned" \notin ds}
<1>1. OfKinds(Pending) \subseteq DOMAIN books
  BY DEF OfKinds
<1>2. PendingTotal(page, ds) = Cardinality(listed)
  BY DEF PendingTotal
<1>3. listed \subseteq OfKinds(Pending)
  <2>1. page \subseteq DOMAIN books
    BY PageIsNewest DEF Tools
  <2> QED
    BY <2>1 DEF Readable, Parsed, OfKinds
<1>4. Cardinality(listed) \in Nat /\ Cardinality(listed) <= Cardinality(OfKinds(Pending))
  <2> HIDE DEF listed
  <2>1. listed \subseteq DOMAIN books
    BY <1>1, <1>3
  <2> QED
    BY <1>1, <1>3, <2>1, Counts, Fewer
<1>5. ASSUME ds = {}, Len(books) <= Window
      PROVE  listed = OfKinds(Pending)
  <2>1. OfKinds(Listed("payments")) = DOMAIN books
    BY Rows DEF OfKinds, Listed
  <2>2. ASSUME NEW i \in DOMAIN books
        PROVE  i \in page
    <3> DEFINE later == {j \in DOMAIN books : j > i}
    <3>1. later \subseteq DOMAIN books \ {i}
      BY Rows
    <3>2. IsFiniteSet(DOMAIN books) /\ Cardinality(DOMAIN books) = Len(books) /\ Len(books) \in Nat
      BY Rows, FS_Interval
    <3>3. IsFiniteSet(DOMAIN books \ {i}) /\ Cardinality(DOMAIN books \ {i}) = Len(books) - 1
      BY <3>2, FS_RemoveElement
    <3>4. Cardinality(later) <= Len(books) - 1 /\ Cardinality(later) \in Nat
      <4> HIDE DEF later
      <4> QED
        BY <3>1, <3>3, FS_Subset, FS_CardinalityType
    <3>5. Cardinality(later) < Window
      BY <1>5, <3>2, <3>4, AnswersAssumption
    <3> QED
      BY <2>1, <3>5 DEF Page
  <2>3. OfKinds(Pending) \subseteq listed
    BY <1>1, <1>5, <2>2 DEF Readable, Parsed, OfKinds
  <2> QED
    BY <1>3, <2>3
<1> QED
  BY <1>2, <1>4, <1>5

LEMMA ReadSecondKeeps ==
  ASSUME AnsInv, ReadSecond
  PROVE  AnsInv'
<1> USE DEF AnsInv
<1>1. /\ pc = "second" /\ pc' = "answered" /\ rows' = Page("payments") /\ seen' = defects
      /\ owed' = owed - PendingTotal(rows', seen')
      /\ UNCHANGED <<day, books, defects, dated, tool, stated, answer, posted, cleared>>
  BY DEF ReadSecond, ReadForSnapshot, Order, portal
<1>2. answer = "no"
  BY <1>1 DEF Begun
<1>3. TypeOK'
  <2>1. owed' \in (-MaxRows) .. MaxRows
    <3>1. owed' = owed - PendingTotal(Page("payments"), defects)
      BY <1>1
    <3>2. /\ PendingTotal(Page("payments"), defects) \in Nat
          /\ PendingTotal(Page("payments"), defects) <= Cardinality(OfKinds(Pending))
      BY PendingListed
    <3>3. /\ owed <= CountOf("charge") /\ owed \in Int
          /\ -owed <= Cardinality(OfKinds({"adjustment", "payment"}))
      BY <1>1 DEF Owing, TypeOK
    <3> QED
      BY <3>1, <3>2, <3>3, Bounded, AnswersAssumption
  <2>2. rows' \subseteq DOMAIN books'
    BY <1>1, PageIsNewest DEF Tools
  <2> QED
    BY <1>1, <2>1, <2>2 DEF TypeOK
<1>4. Ordered' /\ Owing' /\ Begun' /\ Asking'
  BY <1>1, OrderedKept, OwingElsewhere DEF Begun, Asking
<1>5. NoneMeansNone' /\ ErrorsHaveACause'
  BY <1>1, <1>2, NotAnswered
<1> QED
  BY <1>3, <1>4, <1>5

LEMMA DoneKeeps ==
  ASSUME AnsInv, Done
  PROVE  AnsInv'
<1> USE DEF AnsInv, Done, portal
<1>1. TypeOK'
  <2>1. stated' \in Odd .. Days /\ owed' \in (-MaxRows) .. MaxRows
    BY AnswersAssumption DEF None, Odd
  <2> QED
    BY <2>1 DEF TypeOK, Tools
<1>2. Ordered' /\ Owing'
  BY OrderedKept, OwingElsewhere
<1>3. Begun' /\ Asking'
  BY DEF Begun, Asking
<1>4. NoneMeansNone' /\ ErrorsHaveACause'
  BY NotAnswered
<1> QED
  BY <1>1, <1>2, <1>3, <1>4

LEMMA StutterKeeps ==
  ASSUME AnsInv, UNCHANGED vars
  PROVE  AnsInv'
<1> USE DEF AnsInv, vars
<1>1. TypeOK' /\ Ordered' /\ Begun'
  BY DEF TypeOK, Ordered, Begun
<1>2. Asking' /\ Owing'
  BY DEF Asking, Owing, HoldsWanted, OfKinds, Wanted, Balance, CountOf
<1>3. NoneMeansNone' /\ ErrorsHaveACause'
  BY DEF NoneMeansNone, ErrorsHaveACause, HoldsWanted, OfKinds, Wanted, Oldest
<1> QED
  BY <1>1, <1>2, <1>3

LEMMA NextAnsInv == AnsInv /\ [Next]_vars => AnsInv'
<1> SUFFICES ASSUME AnsInv, [Next]_vars
             PROVE  AnsInv'
  OBVIOUS
<1>1. CASE PostRow
  BY <1>1, PostRowKeeps
<1>2. CASE Clear
  BY <1>2, ClearKeeps
<1>3. CASE NextDay
  BY <1>3, NextDayKeeps
<1>4. CASE \E t \in Tools : Ask(t)
  BY <1>4, AskKeeps
<1>5. CASE OpenForm
  BY <1>5, OpenFormKeeps
<1>6. CASE ReadRows
  BY <1>6, ReadRowsKeeps
<1>7. CASE ReadService
  BY <1>7, ReadServiceKeeps
<1>8. CASE ReadFails
  BY <1>8, ReadFailsKeeps
<1>9. CASE Snapshot
  BY <1>9, SnapshotKeeps
<1>10. CASE ReadFirst
  BY <1>10, ReadFirstKeeps
<1>11. CASE ReadSecond
  BY <1>11, ReadSecondKeeps
<1>12. CASE Done
  BY <1>12, DoneKeeps
<1>13. CASE UNCHANGED vars
  BY <1>13, StutterKeeps
<1> QED
  BY <1>1, <1>2, <1>3, <1>4, <1>5, <1>6, <1>7, <1>8, <1>9, <1>10, <1>11, <1>12, <1>13 DEF Next

-----------------------------------------------------------------------------
(* The theorems.                                                            *)

\* Every variable keeps its type; what a snapshot reports is bounded by the rows of the
\* books: a pending credit is taken off once, of a balance the books had.
THEOREM Typed == Spec => []TypeOK
<1>1. AnsInv => TypeOK
  BY DEF AnsInv
<1> QED
  BY <1>1, InitAnsInv, NextAnsInv, PTL DEF Spec

\* "None" is answered of a page that held what was asked for only when the service page
\* stated no date or the dates could not be compared (empty_is_an_error, ledger_covers).
THEOREM NoneIsNone == Spec => []NoneMeansNone
<1>1. AnsInv => NoneMeansNone
  BY DEF AnsInv
<1> QED
  BY <1>1, InitAnsInv, NextAnsInv, PTL DEF Spec

\* A page is refused only that had changed its shape, held no row, was read before what
\* the service page dates, or whose oldest row is of the day the service page states.
THEOREM Errors == Spec => []ErrorsHaveACause
<1>1. AnsInv => ErrorsHaveACause
  BY DEF AnsInv
<1> QED
  BY <1>1, InitAnsInv, NextAnsInv, PTL DEF Spec

\* A snapshot takes no credit off twice, and reports what is owed when nothing but
\* pending credits came between its pages and the ledger shows them all
\* (Portal::build_snapshot, pending_payment_total).
THEOREM Owes == Spec => SnapshotOwes
<1> DEFINE Kept ==
      pc = "second" /\ pc' = "answered" /\ answer' # "failed" =>
        /\ "charge" \notin posted => owed' >= Owed
        /\ posted \subseteq Pending /\ ~cleared /\ seen' = {} /\ Len(books) <= Window
           => owed' = Owed
<1>1. AnsInv /\ [Next]_vars => [Kept]_vars
  <2> SUFFICES ASSUME AnsInv, [Next]_vars, pc = "second", pc' = "answered", answer' # "failed"
               PROVE  /\ "charge" \notin posted => owed' >= Owed
                      /\ posted \subseteq Pending /\ ~cleared /\ seen' = {} /\ Len(books) <= Window
                         => owed' = Owed
    OBVIOUS
  <2>1. ReadSecond
    BY DEF Next, vars, PostRow, Clear, NextDay, Ask, OpenForm, ReadRows, ReadService, ReadFails,
           Answer, Snapshot, ReadFirst, Done
  <2>2. rows' = Page("payments") /\ owed' = owed - PendingTotal(Page("payments"), seen')
    BY <2>1 DEF ReadSecond, ReadForSnapshot, Order
  <2>3. /\ "charge" \notin posted => owed >= Balance
        /\ posted \subseteq Pending /\ ~cleared => owed = Balance
        /\ TypeOK /\ owed \in Int
    BY DEF AnsInv, Owing, TypeOK
  <2>4. /\ PendingTotal(Page("payments"), seen') \in Nat
        /\ PendingTotal(Page("payments"), seen') <= Cardinality(OfKinds(Pending))
        /\ seen' = {} /\ Len(books) <= Window
             => PendingTotal(Page("payments"), seen') = Cardinality(OfKinds(Pending))
    BY <2>3, PendingListed
  <2> QED
    BY <2>2, <2>3, <2>4, Bounded DEF Owed
<1> QED
  BY <1>1, InitAnsInv, NextAnsInv, PTL DEF Spec, SnapshotOwes
=============================================================================
