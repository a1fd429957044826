-------------------------- MODULE TransportProofs ---------------------------
(* Theorems about Transport, for every value of its constants.             *)
EXTENDS Transport, Integers, TLAPS

\* The inductive invariant: types, and what the counters say.
TInv == TypeOK /\ Placed

\* What an answer says of the cookie leaves one of its values, and the two copies
\* of it alike but for a mark.
LEMMA HearKeeps ==
  ASSUME jar \in Cookies, noted \in Cookies, apart \in BOOLEAN, Hear \/ Overhear
  PROVE  /\ jar' \in Cookies /\ noted' \in Cookies /\ apart' \in BOOLEAN
         /\ SavedIsSent => SavedIsSent'
<1>1. CASE Hear
  <2>1. PICK said \in Sayings :
          /\ jar' = Jarred(said)
          /\ noted' = Recorded(said)
          /\ apart' = IF said = "nothing" THEN apart ELSE url.host # Base.host
    BY <1>1 DEF Hear
  <2>2. CASE said = "nothing"
    BY <2>1, <2>2 DEF Jarred, Recorded, SavedIsSent
  <2>3. CASE said # "nothing" /\ url.host # Base.host
    BY <2>1, <2>3, TransportAssumption DEF Jarred, Recorded, SavedIsSent, Sayings, Cookies
  <2>4. CASE said # "nothing" /\ url.host = Base.host
    BY <2>1, <2>4, TransportAssumption DEF Jarred, Recorded, SavedIsSent, Sayings, Cookies
  <2> QED
    BY <2>2, <2>3, <2>4
<1>2. CASE Overhear
  BY <1>2, TransportAssumption DEF Overhear, Jarred, SavedIsSent, Sayings, Cookies
<1> QED
  BY <1>1, <1>2

\* Every URL a request may go to is one of Urls, the base included.
LEMMA UrlFields == \A u \in Urls : u.scheme \in {"http", "https"} /\ u.host \in Hosts
  BY DEF Urls

\* A round of at most MaxAttempts more is a round of MaxAttempts.
LEMMA RoundBound ==
  ASSUME NEW h \in Nat, NEW m \in Nat, NEW n \in 0 .. m
  PROVE  h * m + n <= (h + 1) * m
<1>1. (h + 1) * m = h * m + m
  BY SMT
<1> QED
  BY <1>1

\* No more redirects than allowed is no more rounds.
LEMMA RoundsBound ==
  ASSUME NEW h \in Nat, NEW r \in Nat, NEW m \in Nat, h <= r
  PROVE  (h + 1) * m <= (r + 1) * m
<1>1. /\ (r + 1) * m = (h + 1) * m + (r - h) * m
      /\ (r - h) * m \in Nat
  BY SMT
<1>2. (h + 1) * m \in Nat
  OBVIOUS
<1> QED
  BY <1>1, <1>2

\* The invariant holds at the start.
LEMMA InitTInv == Init => TInv
<1> SUFFICES ASSUME Init PROVE TInv
  OBVIOUS
<1>1. jar \in Cookies /\ noted \in Cookies /\ apart \in BOOLEAN
  BY DEF Init, Cookies
<1> QED
  BY <1>1, TransportAssumption DEF Init, TInv, TypeOK, Placed, Results

\* A step leaves the cookie alone, hears an answer, or takes it from a saved session.
LEMMA CookieStep == [Next]_vars => Hear \/ Overhear \/ UNCHANGED cookie \/ Reload
  BY DEF vars, Next, ClientStep, Start, Send, NoAnswer, Busy, Broken, Receive, Redirect,
         Process, Lose, Rest

\* Every step keeps the invariant.
LEMMA NextTInv == TInv /\ [Next]_vars => TInv'
<1> SUFFICES ASSUME TInv, [Next]_vars PROVE TInv'
  OBVIOUS
<1>c. jar' \in Cookies /\ noted' \in Cookies /\ apart' \in BOOLEAN
  BY CookieStep, HearKeeps DEF TInv, TypeOK, Reload, cookie
<1> USE TransportAssumption DEF TInv, TypeOK, Placed, Results, Over
<1>0. /\ hops * MaxAttempts \in Nat
      /\ jar' \in Cookies /\ noted' \in Cookies /\ apart' \in BOOLEAN
  BY <1>c
<1>1. CASE Start
  BY <1>0, <1>1 DEF Start, MayStart
<1>2. CASE Send
  BY <1>0, <1>2 DEF Send, Count
<1>3. CASE NoAnswer
  BY <1>0, <1>3 DEF NoAnswer, Again, MayRetry
<1>4. CASE Busy
  BY <1>0, <1>4 DEF Busy, Again, MayRetry
<1>5. CASE Broken
  BY <1>0, <1>5 DEF Broken
<1>6. CASE Receive
  BY <1>0, <1>6 DEF Receive
<1>7. CASE Redirect
  <2>1. CASE ~MayFollow
    BY <1>0, <1>7, <2>1 DEF Redirect
  <2>2. CASE MayFollow
    <3>1. hops * MaxAttempts + attempt <= (hops + 1) * MaxAttempts
      BY RoundBound
    <3>2. PICK to \in Urls :
            IF HopAllowed(url, to)
              THEN /\ method' = "GET" /\ url' = to /\ attempt' = 0 /\ hops' = Followed
                   /\ pc' = "send" /\ UNCHANGED result
              ELSE Over("error") /\ UNCHANGED <<method, url, attempt, hops>>
      BY <1>7, <2>2 DEF Redirect
    <3>3. UNCHANGED <<wire, applied, sends>>
      BY <1>7 DEF Redirect
    <3>4. CASE HopAllowed(url, to)
      <4>1. TypeOK'
        BY <1>0, <2>2, <3>2, <3>3, <3>4 DEF HopAllowed, MayFollow, Followed
      <4>2. sends' <= hops' * MaxAttempts + attempt'
        <5>1. sends' <= (hops + 1) * MaxAttempts
          BY <1>0, <3>1, <3>3
        <5> QED
          BY <3>2, <3>4, <5>1 DEF Followed
      <4>3. /\ method' = "GET" /\ url' = to /\ attempt' = 0 /\ pc' = "send"
            /\ Secure(to)
        BY <3>2, <3>4 DEF HopAllowed
      <4> HIDE DEF TypeOK
      <4> QED
        BY <4>1, <4>2, <4>3 DEF Secure
    <3>5. CASE ~HopAllowed(url, to)
      BY <1>0, <3>2, <3>3, <3>5
    <3> QED
      BY <3>4, <3>5
  <2> QED
    BY <2>1, <2>2
<1>8. CASE Process \/ Lose
  BY <1>0, <1>8 DEF Process, Lose
<1>9. CASE Rest
  BY <1>0, <1>9 DEF Rest
<1>10. CASE Reload \/ UNCHANGED vars
  BY <1>0, <1>10 DEF Reload, vars
<1> QED
  BY <1>1, <1>2, <1>3, <1>4, <1>5, <1>6, <1>7, <1>8, <1>9, <1>10 DEF Next, ClientStep

\* An exchange sends at most (MaxRedirects + 1) * MaxAttempts requests.
THEOREM Bounded == Spec => []SendsAreBounded
<1>1. TInv => SendsAreBounded
  <2> SUFFICES ASSUME TInv PROVE SendsAreBounded
    OBVIOUS
  <2>1. hops * MaxAttempts + attempt <= (hops + 1) * MaxAttempts
    BY RoundBound, TransportAssumption DEF TInv, TypeOK
  <2>2. (hops + 1) * MaxAttempts <= (MaxRedirects + 1) * MaxAttempts
    BY RoundsBound, TransportAssumption DEF TInv, TypeOK
  <2>3. /\ hops * MaxAttempts + attempt \in Nat
        /\ (hops + 1) * MaxAttempts \in Nat
        /\ (MaxRedirects + 1) * MaxAttempts \in Nat
    BY TransportAssumption DEF TInv, TypeOK
  <2> QED
    BY <2>1, <2>2, <2>3 DEF TInv, TypeOK, Placed, SendsAreBounded, MostSends
<1> QED
  BY <1>1, InitTInv, NextTInv, PTL DEF Spec

\* A form goes to the portal's own origin and is never redirected elsewhere.
THEOREM Home == Spec => []FormsGoHome
<1>1. TInv => FormsGoHome
  BY DEF TInv, Placed, FormsGoHome
<1> QED
  BY <1>1, InitTInv, NextTInv, PTL DEF Spec

\* No request is sent in the clear to another machine, or leaves https.
THEOREM Encrypted == Spec => NeverInTheClear
<1> DEFINE Kept ==
      pc' = "send" =>
        Secure(url') /\ (pc = "wait" /\ url.scheme = "https" => url'.scheme = "https")
<1>1. TInv /\ TInv' /\ [Next]_vars => [Kept]_vars
  <2> SUFFICES ASSUME TInv, TInv', Next, pc' = "send" PROVE Kept
    OBVIOUS
  <2>1. Secure(url')
    BY DEF TInv, Placed
  <2>2. ASSUME pc = "wait" PROVE url' = url \/ HopAllowed(url, url')
    BY <2>2 DEF Next, ClientStep, Start, Send, NoAnswer, Busy, Broken, Receive, Redirect,
                Again, Over, Process, Lose, Rest, Reload
  <2> QED
    BY <2>1, <2>2 DEF HopAllowed
<1> QED
  BY <1>1, InitTInv, NextTInv, PTL DEF Spec, NeverInTheClear

\* What every variable holds has its type.
THEOREM Typed == Spec => []TypeOK
<1>1. TInv => TypeOK
  BY DEF TInv
<1> QED
  BY <1>1, InitTInv, NextTInv, PTL DEF Spec

\* A saved session holds the cookie that the process sends the portal, unless the
\* last answer to set it came from another host or was retried.
THEOREM Saved == Spec => []SavedIsSent
<1>1. Init => SavedIsSent
  BY DEF Init, SavedIsSent
<1>2. TInv /\ SavedIsSent /\ [Next]_vars => SavedIsSent'
  <2> SUFFICES ASSUME TInv, SavedIsSent, [Next]_vars PROVE SavedIsSent'
    OBVIOUS
  <2>1. CASE Hear \/ Overhear
    BY <2>1, HearKeeps DEF TInv, TypeOK
  <2>2. CASE UNCHANGED cookie
    BY <2>2 DEF cookie, SavedIsSent
  <2>3. CASE Reload
    BY <2>3 DEF Reload, SavedIsSent
  <2> QED
    BY <2>1, <2>2, <2>3, CookieStep
<1> QED
  BY <1>1, <1>2, InitTInv, NextTInv, PTL DEF Spec

-----------------------------------------------------------------------------
(* How far an exchange has to go.                                           *)

UnderWay == pc \in {"send", "wait"}

\* How many steps the client may yet take: two for each request it may yet send, the
\* sending and the wait.
Left ==
  IF UnderWay
    THEN (MaxRedirects - hops) * (2 * MaxAttempts) + 2 * (MaxAttempts - attempt)
           + IF pc = "wait" THEN 1 ELSE 0
    ELSE 0

\* The rounds that are left, one of them taken off, and all of them.
LEMMA RoundsLeft ==
  ASSUME TInv
  PROVE  /\ (MaxRedirects - hops) * (2 * MaxAttempts) \in Nat
         /\ hops < MaxRedirects =>
              (MaxRedirects - (hops + 1)) * (2 * MaxAttempts)
                = (MaxRedirects - hops) * (2 * MaxAttempts) - 2 * MaxAttempts
         /\ (MaxRedirects - hops) * (2 * MaxAttempts) + 2 * MaxAttempts <= 2 * MostSends
         /\ MostSends \in Nat
<1>1. MaxRedirects \in Nat /\ MaxAttempts \in Nat /\ hops \in Nat /\ hops <= MaxRedirects
  BY TransportAssumption DEF TInv, TypeOK
<1> DEFINE d == MaxRedirects - hops
           k == 2 * MaxAttempts
<1>2. d \in Nat /\ k \in Nat /\ d + hops = MaxRedirects
  BY <1>1
<1>3. d * k \in Nat /\ hops * k \in Nat
  BY <1>1, <1>2
<1>4. (d - 1) * k = d * k - k
  BY <1>2
<1>5. 2 * MostSends = d * k + hops * k + k /\ MostSends \in Nat
  BY <1>1 DEF MostSends
<1>6. MaxRedirects - (hops + 1) = d - 1
  BY <1>1
<1>7. d * k + k <= 2 * MostSends
  <2> HIDE DEF d, k
  <2> QED
    BY <1>2, <1>3, <1>5
<1> QED
  BY <1>3, <1>4, <1>5, <1>6, <1>7

\* The client waits for an attempt that it has sent.
Waits == pc = "wait" => attempt > 0

LEMMA NextWaits == TInv /\ Waits /\ [Next]_vars => Waits'
  BY DEF TInv, TypeOK, Waits, Next, vars, ClientStep, Start, Send, NoAnswer, Busy, Broken, Receive,
         Redirect, Again, Over, Process, Lose, Rest, Reload

LEMMA ClientDescends ==
  ASSUME TInv, ClientStep
  PROVE  Left' \in Int /\ Left' < Left
<1> DEFINE r == (MaxRedirects - hops) * (2 * MaxAttempts)
<1>1. /\ MaxAttempts \in Nat /\ attempt \in Nat /\ attempt <= MaxAttempts /\ r \in Nat
      /\ pc = "send" => attempt < MaxAttempts
  BY TransportAssumption, RoundsLeft DEF TInv, TypeOK, Placed
<1>2. CASE pc = "send" /\ pc' = "wait" /\ hops' = hops /\ attempt' = attempt + 1
  <2>1. Left = r + 2 * (MaxAttempts - attempt) /\ Left' = r + 2 * (MaxAttempts - (attempt + 1)) + 1
    BY <1>1, <1>2 DEF Left, UnderWay
  <2> HIDE DEF r
  <2> QED
    BY <1>1, <2>1
<1>3. CASE pc = "wait" /\ pc' = "send" /\ hops' = hops /\ attempt' = attempt
  <2>1. Left = r + 2 * (MaxAttempts - attempt) + 1 /\ Left' = r + 2 * (MaxAttempts - attempt)
    BY <1>3, <1>1 DEF Left, UnderWay
  <2> HIDE DEF r
  <2> QED
    BY <1>1, <2>1
<1>4. CASE pc = "wait" /\ pc' = "send" /\ hops < MaxRedirects /\ hops' = hops + 1 /\ attempt' = 0
  <2>1. Left = r + 2 * (MaxAttempts - attempt) + 1 /\ Left' = (r - 2 * MaxAttempts) + 2 * (MaxAttempts - 0)
    BY <1>4, <1>1, RoundsLeft DEF Left, UnderWay
  <2> HIDE DEF r
  <2> QED
    BY <1>1, <2>1
<1>5. CASE pc = "wait" /\ pc' = "over"
  <2>1. Left = r + 2 * (MaxAttempts - attempt) + 1 /\ Left' = 0
    BY <1>5 DEF Left, UnderWay
  <2> HIDE DEF r
  <2> QED
    BY <1>1, <2>1
<1>6. ClientStep =>
        \/ pc = "send" /\ pc' = "wait" /\ hops' = hops /\ attempt' = attempt + 1
        \/ pc = "wait" /\ pc' = "send" /\ hops' = hops /\ attempt' = attempt
        \/ pc = "wait" /\ pc' = "send" /\ hops < MaxRedirects /\ hops' = hops + 1 /\ attempt' = 0
        \/ pc = "wait" /\ pc' = "over"
  BY DEF ClientStep, Send, NoAnswer, Busy, Broken, Receive, Redirect, Again, Over, MayFollow, Followed
<1> QED
  BY <1>2, <1>3, <1>4, <1>5, <1>6

\* Every step of the client brings the exchange nearer its end, which is at most two
\* steps for each request away; what the network does on its own puts nothing off.
ExchangesDescend ==
  [][UnderWay =>
       /\ Left \in 1 .. 2 * MostSends
       /\ Left' <= Left
       /\ ClientStep => Left' < Left]_vars

\* An exchange ends after a bounded number of steps, however often an answer is lost,
\* late, busy or a redirect (send_retrying, get, post_form).  That a wait ends is the
\* fairness of Spec.
THEOREM Finite == Spec => ExchangesDescend
<1> DEFINE Kept ==
      UnderWay =>
        /\ Left \in 1 .. 2 * MostSends
        /\ Left' <= Left
        /\ ClientStep => Left' < Left
<1>1. TInv /\ Waits /\ [Next]_vars => [Kept]_vars
  <2> SUFFICES ASSUME TInv, Waits, Next, UnderWay
               PROVE  /\ Left \in 1 .. 2 * MostSends
                      /\ Left' <= Left
                      /\ ClientStep => Left' < Left
    OBVIOUS
  <2>1. Left \in 1 .. 2 * MostSends
    <3> DEFINE r == (MaxRedirects - hops) * (2 * MaxAttempts)
    <3>1. /\ MaxAttempts \in Nat /\ attempt \in Nat /\ attempt <= MaxAttempts /\ r \in Nat
          /\ pc = "send" => attempt < MaxAttempts
          /\ r + 2 * MaxAttempts <= 2 * MostSends /\ MostSends \in Nat
      BY TransportAssumption, RoundsLeft DEF TInv, TypeOK, Placed
    <3>2. /\ pc = "send" => Left = r + 2 * (MaxAttempts - attempt)
          /\ pc = "wait" => Left = r + 2 * (MaxAttempts - attempt) + 1
      BY <3>1 DEF Left, UnderWay
    <3>3. pc = "wait" => attempt > 0
      BY DEF Waits
    <3> HIDE DEF r
    <3> QED
      BY <3>1, <3>2, <3>3 DEF UnderWay
  <2>2. ClientStep => Left' \in Int /\ Left' < Left
    BY ClientDescends
  <2>3. Left' <= Left
    <3>1. CASE ClientStep
      BY <2>1, <2>2, <3>1
    <3>2. CASE Process \/ Lose
      <4>1. Left' = Left
        BY <3>2 DEF Process, Lose, Left, UnderWay
      <4> QED
        BY <2>1, <4>1
    <3> QED
      BY <3>1, <3>2 DEF UnderWay, Next, Start, Rest, Reload
  <2> QED
    BY <2>1, <2>2, <2>3
<1>2. Init => Waits
  BY DEF Init, Waits
<1> QED
  BY <1>1, <1>2, InitTInv, NextTInv, NextWaits, PTL DEF Spec, ExchangesDescend
=============================================================================
