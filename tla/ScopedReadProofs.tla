-------------------------- MODULE ScopedReadProofs --------------------------
(* Theorems about ScopedRead, for every value of its constants, and last   *)
(* that the calls of one server implement AtomicReads.                     *)
EXTENDS MCScopedRead, Integers, TLAPS

\* A call is a process, of one server and one slot, and is no command.
LEMMA CallFields ==
  ASSUME NEW c \in Calls
  PROVE  /\ c \in Procs
         /\ ServerOf(c) \in Servers
         /\ c[2] \in Slots
         /\ c \notin Commands
  BY ScopedReadAssumption DEF Calls, Procs, ServerOf

\* A command is a process and no call.
LEMMA CommandFields ==
  ASSUME NEW p \in Commands
  PROVE  p \in Procs /\ p \notin Calls
  BY ScopedReadAssumption DEF Procs

\* The home page reports a linked account or none.
LEMMA HomeStatesType == TypeOK => HomeStates \subseteq Linked \cup {NoAccount}
  BY DEF TypeOK, HomeStates

\* The counter of the history stays within its bound.
LEMMA BumpType == \A n \in 0 .. 2 : Bump(n) \in 0 .. 2
  BY DEF Bump

\* Who reads pages or confirms them is reading.
LEMMA AmidReads == \A q \in Procs : Amid(q) => Reading(q)
  BY DEF Amid, Reading

\* A selection of a linked account keeps the portal's state and the history
\* well typed, and touches nothing of a process that is not reading.
LEMMA PostbackType ==
  ASSUME TypeOK, NEW p \in Procs, NEW a \in Linked, NEW came, Postback(p, a, came)
  PROVE  /\ active' \in Linked
         /\ drift' \in [Procs -> 0 .. 2]
         /\ raced' \subseteq Procs
         /\ slipped' \subseteq Procs
         /\ \A q \in Procs \ {p} : q \in slipped' <=> q \in slipped
         /\ \A q \in Procs \ {p} :
              ~Reading(q) => /\ drift'[q] = drift[q]
                             /\ q \in raced' <=> q \in raced
<1>1. CASE Switch(p, a)
  <2>1. drift' \in [Procs -> 0 .. 2]
    BY <1>1, BumpType DEF Switch, TypeOK
  <2>2. \A q \in Procs \ {p} : ~Reading(q) => drift'[q] = drift[q]
    BY <1>1, AmidReads DEF Switch
  <2> QED
    BY <1>1, <2>1, <2>2 DEF Postback, Switch, TypeOK
<1>2. CASE active' = active /\ raced' = raced /\ (drift' = drift \/ drift' = [drift EXCEPT ![p] = 0])
  BY <1>2 DEF Postback, TypeOK, Switch
<1> QED
  BY <1>1, <1>2 DEF Postback

\* The invariant holds at the start.
LEMMA InitIInv == Init => IInv
  BY CallFields, CommandFields, ScopedReadAssumption
  DEF Init, IInv, TypeOK, Placed, CallPlaced, CommandPlaced, Tracked, Amid, CallPC, CommandPC,
      Outcomes

\* Taking a tool call keeps the invariant.
LEMMA BeginStep ==
  ASSUME IInv, NEW c \in Calls, Begin(c)
  PROVE  IInv'
<1> USE CallFields, CommandFields, ScopedReadAssumption
    DEF IInv, Begin, Free, Go, hist, local
<1>1. TypeOK'
  BY DEF TypeOK, Placed, CallPlaced, CallPC, Outcomes, Accounts
<1>2. ASSUME NEW q \in Calls PROVE CallPlaced(q)'
  BY DEF TypeOK, Placed, CallPlaced, CallPC, Accounts
<1>3. ASSUME NEW q \in Commands PROVE CommandPlaced(q)'
  BY DEF TypeOK, Placed, CommandPlaced
<1>4. ASSUME NEW q \in Calls PROVE Tracked(q)'
  BY DEF TypeOK, Placed, CallPlaced, Tracked, Amid
<1> QED
  BY <1>1, <1>2, <1>3, <1>4 DEF Placed

\* The first look at the home page keeps the invariant.
LEMMA LookStep ==
  ASSUME IInv, NEW c \in Calls, Look(c)
  PROVE  IInv'
<1> USE CallFields, CommandFields, ScopedReadAssumption
    DEF IInv, Look, GiveUp, Go, Answer, Proceed, Unlock, HomeStates, hist, local
<1>1. TypeOK'
  BY DEF TypeOK, Placed, CallPlaced, CallPC, Outcomes, Accounts
<1>2. ASSUME NEW q \in Calls PROVE CallPlaced(q)'
  BY DEF TypeOK, Placed, CallPlaced, CallPC, Accounts
<1>3. ASSUME NEW q \in Commands PROVE CommandPlaced(q)'
  BY DEF TypeOK, Placed, CommandPlaced
<1>4. ASSUME NEW q \in Calls PROVE Tracked(q)'
  BY DEF TypeOK, Placed, CallPlaced, Tracked, Amid
<1> QED
  BY <1>1, <1>2, <1>3, <1>4 DEF Placed

\* select_account's ensure_authenticated keeps the invariant.
LEMMA AuthenticateStep ==
  ASSUME IInv, NEW c \in Calls, Authenticate(c)
  PROVE  IInv'
<1> USE CallFields, CommandFields, ScopedReadAssumption
    DEF IInv, Authenticate, GiveUp, Go, Answer, Proceed, Unlock, hist, local
<1>1. TypeOK'
  BY DEF TypeOK, Placed, CallPlaced, CallPC, Outcomes, Accounts
<1>2. ASSUME NEW q \in Calls PROVE CallPlaced(q)'
  BY DEF TypeOK, Placed, CallPlaced, CallPC, Accounts
<1>3. ASSUME NEW q \in Commands PROVE CommandPlaced(q)'
  BY DEF TypeOK, Placed, CommandPlaced
<1>4. ASSUME NEW q \in Calls PROVE Tracked(q)'
  BY DEF TypeOK, Placed, CallPlaced, Tracked, Amid
<1> QED
  BY <1>1, <1>2, <1>3, <1>4 DEF Placed

\* The list of accounts before a postback keeps the invariant.
LEMMA CheckLinkedStep ==
  ASSUME IInv, NEW c \in Calls, CheckLinked(c)
  PROVE  IInv'
<1> USE CallFields, CommandFields, ScopedReadAssumption
    DEF IInv, CheckLinked, GiveUp, Selectable, Go, Answer, Proceed, Unlock, hist, local
<1>1. TypeOK'
  BY DEF TypeOK, Placed, CallPlaced, CallPC, Outcomes, Accounts
<1>2. ASSUME NEW q \in Calls PROVE CallPlaced(q)'
  BY DEF TypeOK, Placed, CallPlaced, CallPC, Accounts
<1>3. ASSUME NEW q \in Commands PROVE CommandPlaced(q)'
  BY DEF TypeOK, Placed, CommandPlaced
<1>4. ASSUME NEW q \in Calls PROVE Tracked(q)'
  BY DEF TypeOK, Placed, CallPlaced, Tracked, Amid
<1> QED
  BY <1>1, <1>2, <1>3, <1>4 DEF Placed

\* ready() keeps the invariant.
LEMMA VerifyStep ==
  ASSUME IInv, NEW c \in Calls, Verify(c)
  PROVE  IInv'
<1> USE CallFields, CommandFields, ScopedReadAssumption
    DEF IInv, Verify, Go, Answer, Proceed, Unlock, Restoring, hist, local
<1>1. TypeOK'
  BY DEF TypeOK, Placed, CallPlaced, CallPC, Outcomes, Accounts
<1>2. ASSUME NEW q \in Calls PROVE CallPlaced(q)'
  BY DEF TypeOK, Placed, CallPlaced, CallPC, Accounts
<1>3. ASSUME NEW q \in Commands PROVE CommandPlaced(q)'
  BY DEF TypeOK, Placed, CommandPlaced
<1>4. ASSUME NEW q \in Calls PROVE Tracked(q)'
  BY DEF TypeOK, Placed, CallPlaced, Tracked, Amid
<1> QED
  BY <1>1, <1>2, <1>3, <1>4 DEF Placed

\* A page adds the account the session is on, or the login page once it lapsed.
LEMMA ReadPageStep ==
  ASSUME IInv, NEW c \in Calls, ReadPage(c)
  PROVE  IInv'
<1> USE CallFields, CommandFields, ScopedReadAssumption
    DEF IInv, ReadPage, MorePages, Go, Answer, Proceed, Unlock, Restoring, PageOf, hist, local
<1>1. TypeOK'
  BY DEF TypeOK, Placed, CallPlaced, CallPC, Outcomes, Accounts
<1>2. ASSUME NEW q \in Calls PROVE CallPlaced(q)'
  BY DEF TypeOK, Placed, CallPlaced, CallPC, Accounts
<1>3. ASSUME NEW q \in Commands PROVE CommandPlaced(q)'
  BY DEF TypeOK, Placed, CommandPlaced
<1>4. ASSUME NEW q \in Calls PROVE Tracked(q)'
  <2>1. CASE q = c /\ seen' = [seen EXCEPT ![c] = @ \cup {PageOf}]
    BY <2>1 DEF TypeOK, Placed, CallPlaced, Tracked, Amid, Accounts
  <2>2. CASE q # c \/ seen' = seen
    BY <2>2 DEF TypeOK, Placed, CallPlaced, Tracked, Amid
  <2> QED
    BY <2>1, <2>2
<1> QED
  BY <1>1, <1>2, <1>3, <1>4 DEF Placed

\* The last look at the home page keeps the invariant.
LEMMA ConfirmStep ==
  ASSUME IInv, NEW c \in Calls, Confirm(c)
  PROVE  IInv'
<1> USE CallFields, CommandFields, ScopedReadAssumption
    DEF IInv, Confirm, GiveUp, StillOn, Go, Answer, Proceed, Unlock, Restoring, hist, local
<1>1. TypeOK'
  BY DEF TypeOK, Placed, CallPlaced, CallPC, Outcomes, Accounts
<1>2. ASSUME NEW q \in Calls PROVE CallPlaced(q)'
  BY DEF TypeOK, Placed, CallPlaced, CallPC, Accounts
<1>3. ASSUME NEW q \in Commands PROVE CommandPlaced(q)'
  BY DEF TypeOK, Placed, CommandPlaced
<1>4. ASSUME NEW q \in Calls PROVE Tracked(q)'
  BY DEF TypeOK, Placed, CallPlaced, Tracked, Amid
<1> QED
  BY <1>1, <1>2, <1>3, <1>4 DEF Placed

\* The way back's ensure_authenticated keeps the invariant.
LEMMA ReauthenticateStep ==
  ASSUME IInv, NEW c \in Calls, Reauthenticate(c)
  PROVE  IInv'
<1> USE CallFields, CommandFields, ScopedReadAssumption
    DEF IInv, Reauthenticate, StaysAway, Warn, Go, Proceed, Unlock, local
<1>1. TypeOK'
  BY DEF TypeOK, Placed, CallPlaced, CallPC, Outcomes, Accounts
<1>2. ASSUME NEW q \in Calls PROVE CallPlaced(q)'
  BY DEF TypeOK, Placed, CallPlaced, CallPC, Accounts
<1>3. ASSUME NEW q \in Commands PROVE CommandPlaced(q)'
  BY DEF TypeOK, Placed, CommandPlaced
<1>4. ASSUME NEW q \in Calls PROVE Tracked(q)'
  BY DEF TypeOK, Placed, CallPlaced, Tracked, Amid
<1> QED
  BY <1>1, <1>2, <1>3, <1>4 DEF Placed

\* The way back's list of accounts keeps the invariant.
LEMMA RecheckLinkedStep ==
  ASSUME IInv, NEW c \in Calls, RecheckLinked(c)
  PROVE  IInv'
<1> USE CallFields, CommandFields, ScopedReadAssumption
    DEF IInv, RecheckLinked, StaysAway, Warn, Selectable, Go, Proceed, Unlock, local
<1>1. TypeOK'
  BY DEF TypeOK, Placed, CallPlaced, CallPC, Outcomes, Accounts
<1>2. ASSUME NEW q \in Calls PROVE CallPlaced(q)'
  BY DEF TypeOK, Placed, CallPlaced, CallPC, Accounts
<1>3. ASSUME NEW q \in Commands PROVE CommandPlaced(q)'
  BY DEF TypeOK, Placed, CommandPlaced
<1>4. ASSUME NEW q \in Calls PROVE Tracked(q)'
  BY DEF TypeOK, Placed, CallPlaced, Tracked, Amid
<1> QED
  BY <1>1, <1>2, <1>3, <1>4 DEF Placed

\* The list for an error keeps the invariant.
LEMMA ListNumbersStep ==
  ASSUME IInv, NEW c \in Calls, ListNumbers(c)
  PROVE  IInv'
<1> USE CallFields, CommandFields, ScopedReadAssumption
    DEF IInv, ListNumbers, Warn, GiveUp, Answer, Go, Proceed, Unlock
<1>1. TypeOK'
  BY DEF TypeOK, Placed, CallPlaced, CallPC, Outcomes, Accounts
<1>2. ASSUME NEW q \in Calls PROVE CallPlaced(q)'
  BY DEF TypeOK, Placed, CallPlaced, CallPC, Accounts
<1>3. ASSUME NEW q \in Commands PROVE CommandPlaced(q)'
  BY DEF TypeOK, Placed, CommandPlaced
<1>4. ASSUME NEW q \in Calls PROVE Tracked(q)'
  BY DEF TypeOK, Placed, CallPlaced, Tracked, Amid
<1> QED
  BY <1>1, <1>2, <1>3, <1>4 DEF Placed

\* The end of a call keeps the invariant.
LEMMA ReplyStep ==
  ASSUME IInv, NEW c \in Calls, Reply(c)
  PROVE  IInv'
<1> USE CallFields, CommandFields, ScopedReadAssumption
    DEF IInv, Reply, Go, hist, local
<1>1. TypeOK'
  BY DEF TypeOK, Placed, CallPlaced, CallPC, Outcomes, Accounts
<1>2. ASSUME NEW q \in Calls PROVE CallPlaced(q)'
  BY DEF TypeOK, Placed, CallPlaced, CallPC, Accounts
<1>3. ASSUME NEW q \in Commands PROVE CommandPlaced(q)'
  BY DEF TypeOK, Placed, CommandPlaced
<1>4. ASSUME NEW q \in Calls PROVE Tracked(q)'
  BY DEF TypeOK, Placed, CallPlaced, Tracked, Amid
<1> QED
  BY <1>1, <1>2, <1>3, <1>4 DEF Placed

\* A selection by p leaves what is tracked of another call q true: the first
\* change takes the session off q's account, and the second is counted.
LEMMA PostbackTracked ==
  ASSUME IInv, NEW p \in Procs, NEW a \in Linked, NEW came, Postback(p, a, came),
         UNCHANGED <<live, ask, seen>>, NEW q \in Calls, q # p, pc'[q] = pc[q]
  PROVE  Tracked(q)'
<1> USE CallFields DEF IInv
<1>1. q \in slipped' <=> q \in slipped
  BY PostbackType
<1>2. CASE Switch(p, a)
  <2>1. CASE a = active
    BY <1>1, <1>2, <2>1 DEF Switch, TypeOK, Tracked, Amid
  <2>2. CASE a # active /\ Amid(q)
    <3>1. drift'[q] = Bump(drift[q]) /\ drift[q] \in 0 .. 2 /\ active' = a
      BY <1>2, <2>2 DEF Switch, TypeOK
    <3> QED
      BY <1>1, <2>2, <3>1 DEF Tracked, Amid, Bump
  <2>3. CASE ~Amid(q)
    BY <1>1, <2>3 DEF Amid, Tracked
  <2> QED
    BY <2>1, <2>2, <2>3
<1>3. CASE active' = active /\ (drift' = drift \/ drift' = [drift EXCEPT ![p] = 0])
  BY <1>1, <1>3 DEF TypeOK, Tracked, Amid
<1> QED
  BY <1>2, <1>3 DEF Postback

\* A call's own selection sets the account it asks for, or is marked as slipped.
LEMMA SelectStep ==
  ASSUME IInv, NEW c \in Calls, Select(c)
  PROVE  IInv'
<1> USE CallFields, CommandFields, ScopedReadAssumption DEF IInv
<1>1. ask[c] \in Linked /\ page[c] = 0 /\ seen[c] = {} /\ pc[c] = "select"
  BY DEF Select, Placed, CallPlaced
<1>2. PICK came \in BOOLEAN :
        /\ Postback(c, ask[c], came)
        /\ \/ came /\ Go(c, "verify") /\ UNCHANGED <<outcome, holder>>
           \/ ~came /\ GiveUp(c)
  BY DEF Select
<1>3. UNCHANGED <<live, ask, found, todo, page, seen, warned>>
  BY DEF Select
<1>4. /\ pc' \in {[pc EXCEPT ![c] = "verify"], [pc EXCEPT ![c] = "done"]}
      /\ came => pc'[c] = "verify"
      /\ ~came => pc'[c] = "done"
  BY <1>2 DEF GiveUp, Proceed, Go, TypeOK
<1>5. \A q \in Procs \ {c} :
        /\ pc'[q] = pc[q] /\ (q \in slipped' <=> q \in slipped)
        /\ ~Reading(q) => drift'[q] = drift[q] /\ (q \in raced' <=> q \in raced)
  BY <1>1, <1>2, <1>4, PostbackType DEF TypeOK
<1>6. TypeOK'
  <2>1. outcome' \in [Calls -> Outcomes] /\ holder' \in [Servers -> Slots \cup {NoSlot}]
    BY <1>2 DEF GiveUp, Proceed, Answer, Unlock, TypeOK, Outcomes
  <2>2. rest' \in Linked \cup {NoAccount}
    BY DEF Select, TypeOK
  <2>3. pc' \in [Procs -> CallPC \cup CommandPC]
    BY <1>4 DEF TypeOK, CallPC
  <2> QED
    BY <1>1, <1>2, <1>3, <2>1, <2>2, <2>3, PostbackType DEF TypeOK
<1>7. ASSUME NEW q \in Calls PROVE CallPlaced(q)'
  <2>1. CASE q = c
    BY <1>1, <1>3, <1>4, <2>1 DEF CallPlaced, CallPC, Accounts
  <2>2. CASE q # c
    <3>1. pc'[q] = pc[q] /\ (q \in slipped' <=> q \in slipped)
          /\ (~Reading(q) => drift'[q] = drift[q] /\ (q \in raced' <=> q \in raced))
      BY <1>5, <2>2
    <3> QED
      BY <1>3, <3>1 DEF Placed, CallPlaced, Reading
  <2> QED
    BY <2>1, <2>2
<1>8. ASSUME NEW q \in Commands PROVE CommandPlaced(q)'
  <2>1. pc'[q] = pc[q]
    BY <1>5
  <2> QED
    BY <1>3, <2>1 DEF Placed, CommandPlaced
<1>9. ASSUME NEW q \in Calls PROVE Tracked(q)'
  <2>1. CASE q = c
    BY <1>1, <1>2, <1>3, <1>4, <2>1 DEF Postback, Switch, Tracked, Amid, TypeOK
  <2>2. CASE q # c
    <3>1. pc'[q] = pc[q]
      BY <1>5, <2>2
    <3> QED
      BY <1>1, <1>2, <1>3, <2>2, <3>1, PostbackTracked
  <2> QED
    BY <2>1, <2>2
<1> QED
  BY <1>6, <1>7, <1>8, <1>9 DEF Placed

\* Selecting back keeps the invariant: to the other calls it is one more change.
LEMMA RestoreStep ==
  ASSUME IInv, NEW c \in Calls, Restore(c)
  PROVE  IInv'
<1> USE CallFields, CommandFields, ScopedReadAssumption DEF IInv
<1>1. found[c] \in Linked /\ pc[c] = "restore" /\ ask[c] \in Accounts
  BY DEF Restore, Placed, CallPlaced
<1>2. PICK came \in BOOLEAN :
        /\ Postback(c, found[c], came)
        /\ \/ came /\ Proceed(c, "done") /\ UNCHANGED warned
           \/ ~came /\ Warn(c)
  BY DEF Restore
<1>3. UNCHANGED <<live, ask, found, todo, page, seen, outcome>>
  BY DEF Restore, local
<1>4. /\ pc' = [pc EXCEPT ![c] = "done"]
      /\ Unlock(c)
      /\ warned' \subseteq Calls
  BY <1>2 DEF Warn, Proceed, Go, TypeOK
<1>5. \A q \in Procs \ {c} :
        /\ pc'[q] = pc[q] /\ (q \in slipped' <=> q \in slipped)
        /\ ~Reading(q) => drift'[q] = drift[q] /\ (q \in raced' <=> q \in raced)
  BY <1>1, <1>2, <1>4, PostbackType DEF TypeOK
<1>6. TypeOK'
  <2>1. holder' \in [Servers -> Slots \cup {NoSlot}]
    BY <1>4 DEF Unlock, TypeOK
  <2>2. rest' \in Linked \cup {NoAccount}
    BY DEF Restore, TypeOK
  <2>3. pc' \in [Procs -> CallPC \cup CommandPC]
    BY <1>4 DEF TypeOK, CallPC
  <2> QED
    BY <1>1, <1>2, <1>3, <1>4, <2>1, <2>2, <2>3, PostbackType DEF TypeOK
<1>7. ASSUME NEW q \in Calls PROVE CallPlaced(q)'
  <2>1. CASE q = c
    <3>1. pc'[c] = "done"
      BY <1>4 DEF TypeOK
    <3> QED
      BY <1>1, <1>3, <2>1, <3>1 DEF CallPlaced, CallPC
  <2>2. CASE q # c
    <3>1. pc'[q] = pc[q] /\ (q \in slipped' <=> q \in slipped)
          /\ (~Reading(q) => drift'[q] = drift[q] /\ (q \in raced' <=> q \in raced))
      BY <1>5, <2>2
    <3> QED
      BY <1>3, <3>1 DEF Placed, CallPlaced, Reading
  <2> QED
    BY <2>1, <2>2
<1>8. ASSUME NEW q \in Commands PROVE CommandPlaced(q)'
  <2>1. pc'[q] = pc[q]
    BY <1>5
  <2> QED
    BY <1>3, <2>1 DEF Placed, CommandPlaced
<1>9. ASSUME NEW q \in Calls PROVE Tracked(q)'
  <2>1. CASE q = c
    BY <1>4, <2>1 DEF Tracked, Amid, TypeOK
  <2>2. CASE q # c
    <3>1. pc'[q] = pc[q]
      BY <1>5, <2>2
    <3> QED
      BY <1>1, <1>2, <1>3, <2>2, <3>1, PostbackTracked
  <2> QED
    BY <2>1, <2>2
<1> QED
  BY <1>6, <1>7, <1>8, <1>9 DEF Placed

\* A command's selection keeps the invariant.
LEMMA SelectForStep ==
  ASSUME IInv, NEW p \in Commands, SelectFor(p)
  PROVE  IInv'
<1> USE CallFields, CommandFields, ScopedReadAssumption DEF IInv
<1>1. ask[p] \in Linked /\ page[p] = 0 /\ pc[p] = "select"
  BY DEF SelectFor, Placed, CommandPlaced
<1>2. PICK came \in BOOLEAN :
        Postback(p, ask[p], came) /\ Go(p, IF came THEN "page" ELSE "done")
  BY DEF SelectFor
<1>3. UNCHANGED <<live, holder, warned, ask, found, todo, page, seen, outcome>>
  BY DEF SelectFor, local
<1>4. pc' \in {[pc EXCEPT ![p] = "page"], [pc EXCEPT ![p] = "done"]}
  BY <1>2 DEF Go
<1>5. \A q \in Procs \ {p} :
        /\ pc'[q] = pc[q] /\ (q \in slipped' <=> q \in slipped)
        /\ ~Reading(q) => drift'[q] = drift[q] /\ (q \in raced' <=> q \in raced)
  BY <1>1, <1>2, <1>4, PostbackType DEF TypeOK
<1>6. TypeOK'
  <2>1. rest' \in Linked \cup {NoAccount}
    BY <1>1 DEF SelectFor, TypeOK
  <2>2. pc' \in [Procs -> CallPC \cup CommandPC]
    BY <1>4 DEF TypeOK, CommandPC
  <2> QED
    BY <1>1, <1>2, <1>3, <2>1, <2>2, PostbackType DEF TypeOK
<1>7. ASSUME NEW q \in Calls PROVE CallPlaced(q)'
  <2>1. pc'[q] = pc[q] /\ (q \in slipped' <=> q \in slipped)
        /\ (~Reading(q) => drift'[q] = drift[q] /\ (q \in raced' <=> q \in raced))
    BY <1>5
  <2> QED
    BY <1>3, <2>1 DEF Placed, CallPlaced, Reading
<1>8. ASSUME NEW q \in Commands PROVE CommandPlaced(q)'
  <2>1. pc'[q] = IF q = p THEN pc'[p] ELSE pc[q]
    BY <1>5
  <2>2. pc'[p] \in {"page", "done"}
    BY <1>4 DEF TypeOK
  <2> QED
    BY <1>1, <1>3, <2>1, <2>2 DEF Placed, CommandPlaced, CommandPC
<1>9. ASSUME NEW q \in Calls PROVE Tracked(q)'
  <2>1. pc'[q] = pc[q]
    BY <1>5
  <2> QED
    BY <1>1, <1>2, <1>3, <2>1, PostbackTracked
<1> QED
  BY <1>6, <1>7, <1>8, <1>9 DEF Placed

\* The start of a command keeps the invariant.
LEMMA StartStep ==
  ASSUME IInv, NEW p \in Commands, Start(p)
  PROVE  IInv'
<1> USE CallFields, CommandFields, ScopedReadAssumption
    DEF IInv, Start, Go, hist, local
<1>1. TypeOK'
  BY DEF TypeOK, Placed, CommandPlaced, CommandPC, Accounts
<1>2. ASSUME NEW q \in Calls PROVE CallPlaced(q)'
  BY DEF TypeOK, Placed, CallPlaced
<1>3. ASSUME NEW q \in Commands PROVE CommandPlaced(q)'
  BY DEF TypeOK, Placed, CommandPlaced, CommandPC
<1>4. ASSUME NEW q \in Calls PROVE Tracked(q)'
  BY DEF TypeOK, Tracked, Amid
<1> QED
  BY <1>1, <1>2, <1>3, <1>4 DEF Placed

\* The list of snapshot_all keeps the invariant.
LEMMA ListAllStep ==
  ASSUME IInv, NEW p \in Commands, ListAll(p)
  PROVE  IInv'
<1> USE CallFields, CommandFields, ScopedReadAssumption
    DEF IInv, ListAll, Go, hist, local
<1>1. TypeOK'
  BY DEF TypeOK, Placed, CommandPlaced, CommandPC, Accounts
<1>2. ASSUME NEW q \in Calls PROVE CallPlaced(q)'
  BY DEF TypeOK, Placed, CallPlaced
<1>3. ASSUME NEW q \in Commands PROVE CommandPlaced(q)'
  BY DEF TypeOK, Placed, CommandPlaced, CommandPC
<1>4. ASSUME NEW q \in Calls PROVE Tracked(q)'
  BY DEF TypeOK, Tracked, Amid
<1> QED
  BY <1>1, <1>2, <1>3, <1>4 DEF Placed

\* A command's choice of its next account keeps the invariant.
LEMMA ChooseAccountStep ==
  ASSUME IInv, NEW p \in Commands, ChooseAccount(p)
  PROVE  IInv'
<1> USE CallFields, CommandFields, ScopedReadAssumption
    DEF IInv, ChooseAccount, Selectable, Go, hist, local
<1>1. TypeOK'
  BY DEF TypeOK, Placed, CommandPlaced, CommandPC, Accounts
<1>2. ASSUME NEW q \in Calls PROVE CallPlaced(q)'
  BY DEF TypeOK, Placed, CallPlaced
<1>3. ASSUME NEW q \in Commands PROVE CommandPlaced(q)'
  BY DEF TypeOK, Placed, CommandPlaced, CommandPC
<1>4. ASSUME NEW q \in Calls PROVE Tracked(q)'
  BY DEF TypeOK, Tracked, Amid
<1> QED
  BY <1>1, <1>2, <1>3, <1>4 DEF Placed

\* A page that a command reads keeps the invariant.
LEMMA ReadForStep ==
  ASSUME IInv, NEW p \in Commands, ReadFor(p)
  PROVE  IInv'
<1> USE CallFields, CommandFields, ScopedReadAssumption
    DEF IInv, ReadFor, MorePages, Go, PageOf, hist, local
<1>1. TypeOK'
  BY DEF TypeOK, Placed, CommandPlaced, CommandPC, Accounts
<1>2. ASSUME NEW q \in Calls PROVE CallPlaced(q)'
  BY DEF TypeOK, Placed, CallPlaced
<1>3. ASSUME NEW q \in Commands PROVE CommandPlaced(q)'
  BY DEF TypeOK, Placed, CommandPlaced, CommandPC
<1>4. ASSUME NEW q \in Calls PROVE Tracked(q)'
  BY DEF TypeOK, Tracked, Amid
<1> QED
  BY <1>1, <1>2, <1>3, <1>4 DEF Placed

\* The end of a command keeps the invariant.
LEMMA ExitStep ==
  ASSUME IInv, NEW p \in Commands, Exit(p)
  PROVE  IInv'
<1> USE CallFields, CommandFields, ScopedReadAssumption
    DEF IInv, Exit, Go, hist, local
<1>1. TypeOK'
  BY DEF TypeOK, Placed, CommandPlaced, CommandPC, Accounts
<1>2. ASSUME NEW q \in Calls PROVE CallPlaced(q)'
  BY DEF TypeOK, Placed, CallPlaced
<1>3. ASSUME NEW q \in Commands PROVE CommandPlaced(q)'
  BY DEF TypeOK, Placed, CommandPlaced, CommandPC
<1>4. ASSUME NEW q \in Calls PROVE Tracked(q)'
  BY DEF TypeOK, Tracked, Amid
<1> QED
  BY <1>1, <1>2, <1>3, <1>4 DEF Placed

\* A server that ends leaves its calls idle, and every other process where it was.
LEMMA KillFields ==
  ASSUME IInv, NEW s \in Servers, Kill(s)
  PROVE  /\ UNCHANGED <<live, active, todo>>
         /\ \A c \in Calls :
              ServerOf(c) = s =>
                /\ pc'[c] = "idle" /\ ask'[c] = NoAccount /\ found'[c] = NoAccount
                /\ page'[c] = 0 /\ seen'[c] = {} /\ outcome'[c] = "none"
                /\ drift'[c] = 0 /\ c \notin raced' /\ c \notin slipped'
                /\ c \notin warned'
         /\ \A c \in Calls :
              ServerOf(c) # s =>
                /\ pc'[c] = pc[c] /\ ask'[c] = ask[c] /\ found'[c] = found[c]
                /\ page'[c] = page[c] /\ seen'[c] = seen[c] /\ outcome'[c] = outcome[c]
                /\ drift'[c] = drift[c]
                /\ c \in raced' <=> c \in raced
                /\ c \in slipped' <=> c \in slipped
         /\ \A p \in Commands :
              pc'[p] = pc[p] /\ ask'[p] = ask[p] /\ page'[p] = page[p]
  BY CallFields, CommandFields DEF IInv, TypeOK, Kill

\* The end of a server keeps the invariant.
LEMMA KillStep ==
  ASSUME IInv, NEW s \in Servers, Kill(s)
  PROVE  IInv'
<1>1. TypeOK'
  <2> DEFINE its == {c \in Calls : ServerOf(c) = s}
  <2>1. /\ live' \in BOOLEAN /\ active' \in Linked /\ todo' \in [Commands -> SUBSET Linked]
        /\ holder' \in [Servers -> Slots \cup {NoSlot}]
        /\ rest' \in Linked \cup {NoAccount}
        /\ raced' \subseteq Procs /\ slipped' \subseteq Procs /\ warned' \subseteq Calls
    BY DEF IInv, TypeOK, Kill
  <2>2. /\ pc' = [p \in Procs |-> IF p \in its THEN "idle" ELSE pc[p]]
        /\ ask' = [p \in Procs |-> IF p \in its THEN NoAccount ELSE ask[p]]
        /\ found' = [p \in Calls |-> IF p \in its THEN NoAccount ELSE found[p]]
        /\ page' = [p \in Procs |-> IF p \in its THEN 0 ELSE page[p]]
        /\ seen' = [p \in Procs |-> IF p \in its THEN {} ELSE seen[p]]
        /\ outcome' = [p \in Calls |-> IF p \in its THEN "none" ELSE outcome[p]]
        /\ drift' = [p \in Procs |-> IF p \in its THEN 0 ELSE drift[p]]
    BY DEF IInv, TypeOK, Kill
  <2> HIDE DEF its
  <2>3. /\ pc' \in [Procs -> CallPC \cup CommandPC]
        /\ ask' \in [Procs -> Accounts \cup {NoAccount}]
        /\ found' \in [Calls -> Linked \cup {NoAccount}]
    BY <2>2 DEF IInv, TypeOK, CallPC
  <2>4. page' \in [Procs -> 0 .. Pages] /\ drift' \in [Procs -> 0 .. 2]
    BY <2>2, ScopedReadAssumption DEF IInv, TypeOK
  <2>5. /\ seen' \in [Procs -> SUBSET (Linked \cup {LoginPage})]
        /\ outcome' \in [Calls -> Outcomes]
    BY <2>2 DEF IInv, TypeOK, Outcomes
  <2> QED
    BY <2>1, <2>3, <2>4, <2>5 DEF TypeOK
<1>2. ASSUME NEW q \in Calls PROVE CallPlaced(q)'
  BY KillFields DEF IInv, Placed, CallPlaced, CallPC
<1>3. ASSUME NEW q \in Commands PROVE CommandPlaced(q)'
  BY KillFields DEF IInv, Placed, CommandPlaced
<1>4. ASSUME NEW q \in Calls PROVE Tracked(q)'
  BY KillFields DEF IInv, Tracked, Amid
<1> QED
  BY <1>1, <1>2, <1>3, <1>4 DEF IInv, Placed

\* A session that lapses keeps the invariant.
LEMMA LapseStep ==
  ASSUME IInv, Lapse
  PROVE  IInv'
  BY DEF IInv, Lapse, hist, local, TypeOK, Placed, CallPlaced, CommandPlaced, Tracked, Amid

\* Every step keeps the invariant.
LEMMA NextIInv == IInv /\ [Next]_vars => IInv'
<1> SUFFICES ASSUME IInv, [Next]_vars PROVE IInv'
  OBVIOUS
<1>1. ASSUME NEW c \in Calls, CallStep(c) PROVE IInv'
  BY <1>1, BeginStep, LookStep, AuthenticateStep, CheckLinkedStep, SelectStep, VerifyStep,
     ReadPageStep, ConfirmStep, ReauthenticateStep, RecheckLinkedStep, RestoreStep,
     ListNumbersStep, ReplyStep DEF CallStep
<1>2. ASSUME NEW p \in Commands, CommandStep(p) PROVE IInv'
  BY <1>2, StartStep, ListAllStep, ChooseAccountStep, SelectForStep, ReadForStep, ExitStep
  DEF CommandStep
<1>3. CASE UNCHANGED vars
  BY <1>3 DEF vars, IInv, TypeOK, Placed, CallPlaced, CommandPlaced, Tracked, Amid
<1> QED
  BY <1>1, <1>2, <1>3, KillStep, LapseStep DEF Next

\* Everything a process holds has its type, and a process is where its
\* variables say.
THEOREM Typed == Spec => [](TypeOK /\ Placed)
<1>1. IInv => TypeOK /\ Placed
  BY DEF IInv
<1> QED
  BY <1>1, InitIInv, NextIInv, PTL DEF Spec

\* An answer of `scoped` holds pages of the account asked for alone, unless the
\* changes that other processes made meanwhile cancelled out.
THEOREM Confirmed == Spec => AnswersAreConfirmed
<1> DEFINE Kept ==
      \A c \in Calls :
        outcome[c] = "none" /\ outcome'[c] = "ok"
          => seen[c] \subseteq {ask[c]} \/ Unseen(c)
<1>1. IInv /\ [Next]_vars => [Kept]_vars
  <2> SUFFICES ASSUME IInv, Next, NEW c \in Calls,
                      outcome[c] = "none", outcome'[c] = "ok"
               PROVE  seen[c] \subseteq {ask[c]} \/ Unseen(c)
    OBVIOUS
  <2>0. ASSUME NEW s \in Servers, Kill(s) PROVE FALSE
    BY <2>0, KillFields
  <2>1. Confirm(c) /\ StillOn(c)
    BY <2>0, CallFields, CommandFields
    DEF Next, CallStep, CommandStep, Begin, Look, Authenticate, CheckLinked, Select, Verify,
        ReadPage, Confirm, Reauthenticate, RecheckLinked, Restore, ListNumbers, Reply, Start,
        ListAll, ChooseAccount, SelectFor, ReadFor, Exit, Lapse, GiveUp, Answer, local, IInv,
        TypeOK, Outcomes
  <2>2. live /\ active = ask[c] /\ pc[c] = "confirm"
    BY <2>1, ScopedReadAssumption DEF Confirm, StillOn, HomeStates, IInv, Placed, CallPlaced
  <2>3. /\ Tracked(c)
        /\ drift[c] \in 0 .. 2
        /\ seen[c] \subseteq Linked \cup {LoginPage}
    BY CallFields DEF IInv, TypeOK
  <2> QED
    BY <2>2, <2>3 DEF Tracked, Amid, Unseen
<1> QED
  BY <1>1, InitIInv, NextIInv, PTL DEF Spec, AnswersAreConfirmed

-----------------------------------------------------------------------------
\* What a step does not disturb of a call keeps the session where it was for it.
LEMMA HomeKept ==
  ASSUME NEW q \in Calls, Homeward(q),
         pc'[q] = pc[q], found'[q] = found[q], ask'[q] = ask[q],
         q \in raced => q \in raced', q \in slipped => q \in slipped',
         active' = active \/ ~Reading(q) \/ q \in raced'
  PROVE  Homeward(q)'
  BY DEF Homeward, Amid, Reading

\* A selection by p moves the session, for another call q, only with a mark.
LEMMA PostbackHome ==
  ASSUME IInv, NEW p \in Procs, NEW a \in Linked, NEW came, Postback(p, a, came),
         NEW q \in Calls, q # p
  PROVE  /\ q \in raced => q \in raced'
         /\ q \in slipped => q \in slipped'
         /\ active' = active \/ ~Reading(q) \/ q \in raced'
  BY CallFields DEF IInv, TypeOK, Postback, Switch

\* A selection by p that goes as asked puts the session on a.
LEMMA PostbackGoes ==
  ASSUME IInv, NEW p \in Procs, NEW a \in Linked, NEW came, Postback(p, a, came),
         p \notin slipped'
  PROVE  active' = a
  BY DEF IInv, TypeOK, Postback, Switch

\* The steps of a call other than its postbacks.
Quiet(c) ==
  \/ Begin(c) \/ Look(c) \/ Authenticate(c) \/ CheckLinked(c) \/ Verify(c) \/ ReadPage(c)
  \/ Confirm(c) \/ Reauthenticate(c) \/ RecheckLinked(c) \/ ListNumbers(c) \/ Reply(c)

\* The steps of a call other than its postbacks, and what ends with them.
LEMMA CallHome ==
  ASSUME IInv, NEW c \in Calls, Homeward(c),
         Quiet(c)
  PROVE  /\ active' = active
         /\ Homeward(c)'
         /\ pc[c] # "done" /\ pc'[c] = "done" /\ found'[c] # NoAccount
              /\ c \notin raced' /\ c \notin slipped'
              => active' = found'[c]
         /\ \A q \in Calls \ {c} :
              /\ pc'[q] = pc[q] /\ found'[q] = found[q] /\ ask'[q] = ask[q]
              /\ q \in raced => q \in raced'
              /\ q \in slipped => q \in slipped'
<1> USE CallFields, ScopedReadAssumption
    DEF IInv, TypeOK, Placed, CallPlaced, Homeward, Amid, GiveUp, StaysAway, Warn, Go,
        Proceed, Unlock, Restoring, HomeStates, hist, local
<1>1. CASE Begin(c)
  BY <1>1 DEF Begin, Free
<1>2. CASE Look(c)
  BY <1>2 DEF Look
<1>3. CASE Authenticate(c) \/ CheckLinked(c)
  BY <1>3 DEF Authenticate, CheckLinked, Selectable
<1>4. CASE Verify(c)
  BY <1>4 DEF Verify
<1>5. CASE ReadPage(c)
  BY <1>5 DEF ReadPage, MorePages
<1>6. CASE Confirm(c)
  BY <1>6 DEF Confirm, StillOn
<1>7. CASE Reauthenticate(c) \/ RecheckLinked(c)
  BY <1>7 DEF Reauthenticate, RecheckLinked
<1>8. CASE ListNumbers(c)
  BY <1>8 DEF ListNumbers
<1>9. CASE Reply(c)
  <2>1. /\ pc[c] = "done" /\ active' = active
        /\ pc'[c] = "idle" /\ found'[c] = NoAccount
    BY <1>9 DEF Reply
  <2>2. \A q \in Calls \ {c} :
          /\ pc'[q] = pc[q] /\ found'[q] = found[q] /\ ask'[q] = ask[q]
          /\ q \in raced => q \in raced'
          /\ q \in slipped => q \in slipped'
    BY <1>9 DEF Reply
  <2> QED
    BY <2>1, <2>2
<1> QED
  BY <1>1, <1>2, <1>3, <1>4, <1>5, <1>6, <1>7, <1>8, <1>9 DEF Quiet

\* The two postbacks of a call.
LEMMA PostbacksHome ==
  ASSUME IInv, NEW c \in Calls, Select(c) \/ Restore(c)
  PROVE  /\ Homeward(c)'
         /\ pc[c] # "done" /\ pc'[c] = "done" /\ found'[c] # NoAccount
              /\ c \notin raced' /\ c \notin slipped'
              => active' = found'[c]
         /\ \A q \in Calls \ {c} :
              /\ pc'[q] = pc[q] /\ found'[q] = found[q] /\ ask'[q] = ask[q]
              /\ q \in raced => q \in raced'
              /\ q \in slipped => q \in slipped'
              /\ active' = active \/ ~Reading(q) \/ q \in raced'
<1>0. c \in Procs /\ pc \in [Procs -> CallPC \cup CommandPC]
  BY CallFields DEF IInv, TypeOK
<1>1. CASE Select(c)
  <2>1. ask[c] \in Linked
    BY <1>1 DEF Select, IInv, Placed, CallPlaced
  <2>2. PICK came \in BOOLEAN :
          /\ Postback(c, ask[c], came)
          /\ pc' = [pc EXCEPT ![c] = IF came THEN "verify" ELSE "done"]
    BY <1>1 DEF Select, GiveUp, Proceed, Go
  <2>3. c \notin slipped' => active' = ask[c]
    BY <1>0, <2>1, <2>2, PostbackGoes
  <2>4. /\ pc'[c] \in {"verify", "done"}
        /\ pc'[c] = "done" => c \in slipped'
    BY <1>0, <2>2 DEF Postback
  <2>5. UNCHANGED <<ask, found>>
    BY <1>1 DEF Select
  <2>6. ASSUME NEW q \in Calls, q # c
        PROVE  /\ pc'[q] = pc[q]
               /\ q \in raced => q \in raced'
               /\ q \in slipped => q \in slipped'
               /\ active' = active \/ ~Reading(q) \/ q \in raced'
    BY <1>0, <2>1, <2>2, <2>6, PostbackHome, CallFields
  <2> QED
    BY <2>3, <2>4, <2>5, <2>6 DEF Homeward, Amid
<1>2. CASE Restore(c)
  <2>1. found[c] \in Linked
    BY <1>2 DEF Restore, IInv, Placed, CallPlaced
  <2>2. PICK came \in BOOLEAN :
          Postback(c, found[c], came) /\ pc' = [pc EXCEPT ![c] = "done"]
    BY <1>2 DEF Restore, Warn, Proceed, Go
  <2>3. c \notin slipped' => active' = found[c]
    BY <1>0, <2>1, <2>2, PostbackGoes
  <2>4. pc'[c] = "done"
    BY <1>0, <2>2
  <2>5. UNCHANGED <<ask, found>>
    BY <1>2 DEF Restore, local
  <2>6. ASSUME NEW q \in Calls, q # c
        PROVE  /\ pc'[q] = pc[q]
               /\ q \in raced => q \in raced'
               /\ q \in slipped => q \in slipped'
               /\ active' = active \/ ~Reading(q) \/ q \in raced'
    BY <1>0, <2>1, <2>2, <2>6, PostbackHome, CallFields
  <2> QED
    BY <2>3, <2>4, <2>5, <2>6 DEF Homeward, Amid
<1> QED
  BY <1>1, <1>2

\* A command leaves alone what a call holds, but for the account.
LEMMA CommandHome ==
  ASSUME IInv, NEW p \in Commands, CommandStep(p), NEW q \in Calls
  PROVE  /\ pc'[q] = pc[q] /\ found'[q] = found[q] /\ ask'[q] = ask[q]
         /\ q \in raced => q \in raced'
         /\ q \in slipped => q \in slipped'
         /\ active' = active \/ ~Reading(q) \/ q \in raced'
<1> USE CallFields, CommandFields
<1>1. CASE SelectFor(p)
  <2>1. ask[p] \in Linked /\ UNCHANGED <<ask, found>>
    BY <1>1 DEF SelectFor, local, IInv, Placed, CommandPlaced
  <2>2. (\E came \in BOOLEAN : Postback(p, ask[p], came)) /\ pc'[q] = pc[q]
    BY <1>1 DEF SelectFor, Go, IInv, TypeOK
  <2> QED
    BY <2>1, <2>2, PostbackHome
<1>2. CASE Start(p) \/ ListAll(p) \/ ChooseAccount(p) \/ ReadFor(p) \/ Exit(p)
  BY <1>2 DEF Start, ListAll, ChooseAccount, ReadFor, Exit, Go, hist, IInv, TypeOK
<1> QED
  BY <1>1, <1>2 DEF CommandStep

\* Every step keeps the session where each undisturbed call has it.
LEMMA NextHInv == HInv /\ [Next]_vars => HInv'
<1> SUFFICES ASSUME HInv, [Next]_vars, NEW q \in Calls PROVE Homeward(q)'
  BY NextIInv DEF HInv
<1> USE DEF HInv
<1>1. ASSUME NEW c \in Calls, CallStep(c) PROVE Homeward(q)'
  <2>1. CASE q = c
    BY <1>1, <2>1, CallHome, PostbacksHome DEF CallStep, Quiet
  <2>2. CASE q # c
    <3>1. /\ pc'[q] = pc[q] /\ found'[q] = found[q] /\ ask'[q] = ask[q]
          /\ q \in raced => q \in raced'
          /\ q \in slipped => q \in slipped'
          /\ active' = active \/ ~Reading(q) \/ q \in raced'
      BY <1>1, <2>2, CallHome, PostbacksHome DEF CallStep, Quiet
    <3> QED
      BY <3>1, HomeKept
  <2> QED
    BY <2>1, <2>2
<1>2. ASSUME NEW p \in Commands, CommandStep(p) PROVE Homeward(q)'
  BY <1>2, CommandHome, HomeKept
<1>3. CASE Lapse \/ UNCHANGED vars
  BY <1>3, HomeKept DEF Lapse, hist, local, vars
<1>4. ASSUME NEW s \in Servers, Kill(s) PROVE Homeward(q)'
  <2>1. CASE ServerOf(q) = s
    BY <1>4, <2>1, KillFields DEF Homeward, Amid
  <2>2. CASE ServerOf(q) # s
    BY <1>4, <2>2, KillFields, HomeKept
  <2> QED
    BY <2>1, <2>2
<1> QED
  BY <1>1, <1>2, <1>3, <1>4 DEF Next

\* It holds at the start.
LEMMA InitHInv == Init => HInv
  BY InitIInv DEF HInv, Homeward, Init

\* Until another process moves the session or a selection goes wrong, it is where
\* each call put it: on the account found, then on the one asked for.
THEOREM Undisturbed == Spec => []HInv
  BY InitHInv, NextHInv, PTL DEF Spec

\* A call that ends leaves the session on the account it found, unless another
\* process moved it or a selection went wrong.
THEOREM Returned == Spec => LeavesAsFound
<1> DEFINE Kept ==
      \A c \in Calls :
        /\ pc[c] # "done" /\ pc'[c] = "done"
        /\ found'[c] # NoAccount /\ c \notin raced' /\ c \notin slipped'
        => active' = found'[c]
<1>2. HInv /\ [Next]_vars => [Kept]_vars
  <2> SUFFICES ASSUME HInv, Next, NEW c \in Calls, pc[c] # "done", pc'[c] = "done",
                      found'[c] # NoAccount, c \notin raced', c \notin slipped'
               PROVE  active' = found'[c]
    OBVIOUS
  <2> USE DEF HInv
  <2>1. ASSUME NEW d \in Calls, CallStep(d) PROVE active' = found'[c]
    <3>1. d = c
      BY <2>1, CallHome, PostbacksHome DEF CallStep, Quiet
    <3> QED
      BY <2>1, <3>1, CallHome, PostbacksHome DEF CallStep, Quiet
  <2>2. ASSUME NEW p \in Commands, CommandStep(p) PROVE FALSE
    BY <2>2, CommandHome
  <2>3. CASE Lapse
    BY <2>3 DEF Lapse
  <2>4. ASSUME NEW s \in Servers, Kill(s) PROVE FALSE
    BY <2>4, KillFields
  <2> QED
    BY <2>1, <2>2, <2>3, <2>4 DEF Next
<1> QED
  BY <1>2, InitHInv, NextHInv, PTL DEF Spec, LeavesAsFound

-----------------------------------------------------------------------------
\* What the history says of a command that has selected, and that an idle one has not.
Follows(p) ==
  /\ pc[p] = "idle" => ask[p] = NoAccount
  /\ pc[p] = "select" => seen[p] = {}
  /\ ask[p] # NoAccount /\ drift[p] = 0 /\ p \notin slipped =>
       /\ seen[p] \subseteq {ask[p], LoginPage}
       /\ pc[p] = "page" => active = ask[p]

\* The inductive invariant behind CommandReadsItsAccount.
CInv == IInv /\ \A p \in Commands : Follows(p)

\* A step that leaves what the command holds, and moves the account under it only
\* with a mark, keeps what is said of it.
LEMMA FollowsKept ==
  ASSUME NEW q \in Commands, Follows(q),
         pc'[q] = pc[q], ask'[q] = ask[q], seen'[q] = seen[q],
         q \in slipped => q \in slipped',
         drift'[q] = 0 => drift[q] = 0 /\ (active' = active \/ pc[q] # "page")
  PROVE  Follows(q)'
  BY DEF Follows

\* A selection by p moves the account under a command q only with a mark.
LEMMA PostbackFollows ==
  ASSUME IInv, NEW p \in Procs, NEW a, NEW came, Postback(p, a, came),
         NEW q \in Commands, q # p
  PROVE  /\ q \in slipped => q \in slipped'
         /\ drift'[q] = 0 => drift[q] = 0 /\ (active' = active \/ pc[q] # "page")
<1> USE CommandFields DEF IInv, TypeOK
<1>1. q \in slipped => q \in slipped'
  BY DEF Postback
<1>2. CASE Switch(p, a)
  <2>1. CASE a # active /\ Amid(q)
    <3>1. drift'[q] = Bump(drift[q]) /\ drift[q] \in 0 .. 2
      BY <1>2, <2>1 DEF Switch
    <3> QED
      BY <1>1, <3>1 DEF Bump
  <2>2. CASE a = active \/ ~Amid(q)
    BY <1>1, <1>2, <2>2 DEF Switch, Amid
  <2> QED
    BY <2>1, <2>2
<1>3. CASE active' = active /\ (drift' = drift \/ drift' = [drift EXCEPT ![p] = 0])
  BY <1>1, <1>3
<1> QED
  BY <1>2, <1>3 DEF Postback

\* A call leaves alone what a command holds, but for the account.
LEMMA CallFollows ==
  ASSUME IInv, NEW c \in Calls, CallStep(c), NEW q \in Commands
  PROVE  /\ pc'[q] = pc[q] /\ ask'[q] = ask[q] /\ seen'[q] = seen[q]
         /\ q \in slipped => q \in slipped'
         /\ drift'[q] = 0 => drift[q] = 0 /\ (active' = active \/ pc[q] # "page")
<1> USE CallFields, CommandFields
<1>1. CASE Select(c)
  BY <1>1, PostbackFollows DEF Select, GiveUp, Proceed, Go, IInv, TypeOK
<1>2. CASE Restore(c)
  BY <1>2, PostbackFollows DEF Restore, Warn, Proceed, Go, local, IInv, TypeOK
<1>3. CASE Quiet(c)
  BY <1>3 DEF Quiet, IInv, TypeOK, Begin, Look, Authenticate, CheckLinked, Verify, ReadPage,
              Confirm, Reauthenticate, RecheckLinked, ListNumbers, Reply, GiveUp, StaysAway,
              Warn, Go, Proceed, hist, local
<1> QED
  BY <1>1, <1>2, <1>3 DEF CallStep, Quiet

\* A command's own steps: it reads the account of its selection.
LEMMA CommandFollows ==
  ASSUME IInv, NEW p \in Commands, Follows(p), CommandStep(p)
  PROVE  Follows(p)'
<1> USE CommandFields, ScopedReadAssumption DEF IInv, TypeOK, Follows, Go
<1>1. CASE Start(p)
  BY <1>1 DEF Start, hist
<1>2. CASE ListAll(p) \/ ChooseAccount(p)
  BY <1>2 DEF ListAll, ChooseAccount, Selectable, Accounts, hist
<1>3. CASE SelectFor(p)
  <2>1. UNCHANGED <<ask, seen>>
    BY <1>3 DEF SelectFor, local
  <2>2. pc[p] = "select" /\ seen[p] = {}
    BY <1>3 DEF SelectFor
  <2>3. pc'[p] \in {"page", "done"}
    BY <1>3 DEF SelectFor
  <2>4. p \notin slipped' => active' = ask[p]
    BY <1>3 DEF SelectFor, Postback, Switch
  <2> QED
    BY <2>1, <2>2, <2>3, <2>4
<1>4. CASE ReadFor(p)
  BY <1>4 DEF ReadFor, PageOf, hist
<1>5. CASE Exit(p)
  BY <1>5 DEF Exit
<1> QED
  BY <1>1, <1>2, <1>3, <1>4, <1>5 DEF CommandStep

\* A command leaves alone what another holds, but for the account.
LEMMA OtherFollows ==
  ASSUME IInv, NEW p \in Commands, CommandStep(p), NEW q \in Commands, q # p
  PROVE  /\ pc'[q] = pc[q] /\ ask'[q] = ask[q] /\ seen'[q] = seen[q]
         /\ q \in slipped => q \in slipped'
         /\ drift'[q] = 0 => drift[q] = 0 /\ (active' = active \/ pc[q] # "page")
<1> USE CommandFields
<1>1. CASE SelectFor(p)
  BY <1>1, PostbackFollows DEF SelectFor, Go, local, IInv, TypeOK
<1>2. CASE Start(p) \/ ListAll(p) \/ ChooseAccount(p) \/ ReadFor(p) \/ Exit(p)
  BY <1>2 DEF Start, ListAll, ChooseAccount, ReadFor, Exit, Go, hist, IInv, TypeOK
<1> QED
  BY <1>1, <1>2 DEF CommandStep

\* Every step keeps each command's account.
LEMMA NextCInv == CInv /\ [Next]_vars => CInv'
<1> SUFFICES ASSUME CInv, [Next]_vars, NEW q \in Commands PROVE Follows(q)'
  BY NextIInv DEF CInv
<1> USE DEF CInv
<1>1. ASSUME NEW c \in Calls, CallStep(c) PROVE Follows(q)'
  BY <1>1, CallFollows, FollowsKept
<1>2. ASSUME NEW p \in Commands, CommandStep(p) PROVE Follows(q)'
  <2>1. CASE q = p
    BY <1>2, <2>1, CommandFollows
  <2>2. CASE q # p
    BY <1>2, <2>2, OtherFollows, FollowsKept
  <2> QED
    BY <2>1, <2>2
<1>3. ASSUME NEW s \in Servers, Kill(s) PROVE Follows(q)'
  BY <1>3, CommandFields, FollowsKept DEF Kill, IInv, TypeOK
<1>4. CASE Lapse \/ UNCHANGED vars
  BY <1>4, FollowsKept DEF Lapse, hist, local, vars
<1> QED
  BY <1>1, <1>2, <1>3, <1>4 DEF Next

\* The pages a command reads for an account are that account's, or the login page,
\* when no other process changes the account after its selection (ready, snapshot_all).
THEOREM CommandsRead == Spec => []CommandReadsItsAccount
<1>1. Init => CInv
  BY InitIInv, CommandFields DEF CInv, Follows, Init
<1>2. CInv => CommandReadsItsAccount
  BY DEF CInv, Follows, CommandReadsItsAccount
<1> QED
  BY <1>1, <1>2, NextCInv, PTL DEF Spec

-----------------------------------------------------------------------------
\* A call that is to select, or to select back, found the session on another account.
Ahead(c) ==
  pc[c] \in {"check", "list", "select", "recheck", "relist", "restore"} => found[c] # ask[c]

\* A call before its selection knows where the session is; one after it knows the
\* way back; and when the session is elsewhere, one such call has put it there.
Homing ==
  rest # NoAccount =>
    /\ \A c \in Calls :
         pc[c] \in {"check", "list", "select"} /\ found[c] # NoAccount => active = found[c]
    /\ \A c \in Calls : Away(c) => found[c] = rest \/ active # rest
    /\ active # rest =>
         \E c \in Calls : Away(c) /\ found[c] = rest /\ active = ask[c]

\* The inductive invariant behind SessionRests.
RInv == IInv /\ (\A c \in Calls : Ahead(c)) /\ Homing

\* What a step does to one call without moving the session.
Settles(c) ==
  rest' # NoAccount =>
    /\ pc'[c] \in {"check", "list", "select"} /\ found'[c] # NoAccount => active = found'[c]
    /\ Away(c)' => Away(c) /\ found'[c] = found[c]
    /\ Away(c) /\ active = ask[c] =>
         Away(c)' /\ found'[c] = found[c] /\ ask'[c] = ask[c]

\* A step that moves neither the session nor its home, and no call off its way.
LEMMA HomingKept ==
  ASSUME Homing, active' = active, rest' \in {rest, NoAccount},
         \A c \in Calls : Settles(c)
  PROVE  Homing'
<1> SUFFICES ASSUME rest' # NoAccount
             PROVE  /\ \A c \in Calls :
                         pc'[c] \in {"check", "list", "select"} /\ found'[c] # NoAccount
                           => active = found'[c]
                    /\ \A c \in Calls : Away(c)' => found'[c] = rest \/ active # rest
                    /\ active # rest =>
                         \E c \in Calls : Away(c)' /\ found'[c] = rest /\ active = ask'[c]
  BY DEF Homing
<1>1. /\ \A c \in Calls : Away(c) => found[c] = rest \/ active # rest
      /\ active # rest =>
           \E c \in Calls : Away(c) /\ found[c] = rest /\ active = ask[c]
  BY DEF Homing
<1> QED
  BY <1>1 DEF Settles

\* A call that a step leaves alone stays on its way.
LEMMA SettlesAlone ==
  ASSUME Homing, rest' \in {rest, NoAccount}, NEW q \in Calls,
         pc'[q] = pc[q], found'[q] = found[q], ask'[q] = ask[q]
  PROVE  Settles(q)
  BY DEF Settles, Homing, Away, Amid

\* The steps of a call that do not select keep the session's home.
LEMMA QuietHoming ==
  ASSUME RInv, NEW c \in Calls, Quiet(c)
  PROVE  Homing' /\ \A q \in Calls : Ahead(q)'
<1> USE CallFields DEF RInv, IInv
<1>1. /\ active' = active
      /\ rest' \in {rest, NoAccount}
      /\ \A q \in Calls \ {c} : pc'[q] = pc[q] /\ found'[q] = found[q] /\ ask'[q] = ask[q]
  BY DEF Quiet, TypeOK, Begin, Look, Authenticate, CheckLinked, Verify, ReadPage, Confirm,
         Reauthenticate, RecheckLinked, ListNumbers, Reply, GiveUp, StaysAway, Warn, Go,
         Proceed, Unlock, hist, local
<1>2. Settles(c) /\ Ahead(c)'
  <2> USE ScopedReadAssumption
      DEF TypeOK, Settles, Ahead, Away, Amid, Homing, GiveUp, StaysAway, Warn, Go, Proceed,
          Unlock, Restoring, HomeStates, hist, local
  <2>1. CASE Begin(c)
    BY <2>1 DEF Begin
  <2>2. CASE Look(c)
    BY <2>2 DEF Look
  <2>3. CASE Authenticate(c) \/ CheckLinked(c)
    BY <2>3 DEF Authenticate, CheckLinked
  <2>4. CASE Verify(c)
    BY <2>4 DEF Verify
  <2>5. CASE ReadPage(c)
    BY <2>5 DEF ReadPage
  <2>6. CASE Confirm(c)
    BY <2>6 DEF Confirm, StillOn
  <2>7. CASE Reauthenticate(c) \/ RecheckLinked(c)
    BY <2>7 DEF Reauthenticate, RecheckLinked
  <2>8. CASE ListNumbers(c)
    BY <2>8 DEF ListNumbers
  <2>9. CASE Reply(c)
    BY <2>9 DEF Reply
  <2> QED
    BY <2>1, <2>2, <2>3, <2>4, <2>5, <2>6, <2>7, <2>8, <2>9 DEF Quiet
<1>3. \A q \in Calls : Settles(q)
  BY <1>1, <1>2, SettlesAlone
<1>4. \A q \in Calls : Ahead(q)'
  BY <1>1, <1>2 DEF Ahead
<1> QED
  BY <1>1, <1>3, <1>4, HomingKept

\* A selection by p puts the session on a or leaves it.
LEMMA PostbackMoves ==
  ASSUME NEW p, NEW a, NEW came, Postback(p, a, came)
  PROVE  active' \in {active, a}
  BY DEF Postback, Switch

\* A call that selects with no other under way can tell the way back.
LEMMA SelectHoming ==
  ASSUME RInv, NEW c \in Calls, Select(c)
  PROVE  Homing' /\ \A q \in Calls : Ahead(q)'
<1> USE CallFields DEF RInv
<1>1. /\ \A q \in Calls \ {c} : pc'[q] = pc[q]
      /\ pc'[c] \in {"verify", "done"} /\ pc[c] = "select"
      /\ active' \in {active, ask[c]}
      /\ UNCHANGED <<ask, found>>
  BY PostbackMoves DEF Select, GiveUp, Proceed, Go, IInv, TypeOK
<1>2. \A q \in Calls : Ahead(q)'
  BY <1>1 DEF Ahead
<1>3. found[c] # ask[c] /\ (rest # NoAccount /\ found[c] # NoAccount => active = found[c])
  BY <1>1 DEF Ahead, Homing
<1>4. rest' = IF active' = active \/ (Alone(c) /\ pc'[c] = "verify" /\ found[c] # NoAccount)
                THEN rest ELSE NoAccount
  BY DEF Select, GiveUp, Proceed, Go, IInv, TypeOK
<1>5. CASE active' = active
  <2>1. \A q \in Calls \ {c} : Away(q)' <=> Away(q)
    BY <1>1 DEF Away, Amid
  <2>2. rest' = rest /\ ~Away(c)
    BY <1>1, <1>4, <1>5 DEF Away, Amid
  <2> SUFFICES ASSUME rest # NoAccount
               PROVE  /\ \A q \in Calls :
                           pc'[q] \in {"check", "list", "select"} /\ found[q] # NoAccount
                             => active = found[q]
                      /\ \A q \in Calls : Away(q)' => found[q] = rest \/ active # rest
                      /\ active # rest =>
                           \E q \in Calls : Away(q)' /\ found[q] = rest /\ active = ask[q]
    BY <1>1, <1>2, <1>5, <2>2 DEF Homing
  <2>3. \A q \in Calls : pc'[q] \in {"check", "list", "select"} /\ found[q] # NoAccount
                             => active = found[q]
    BY <1>1 DEF Homing
  <2>4. ASSUME NEW q \in Calls, Away(q)' PROVE found[q] = rest \/ active # rest
    <3>1. CASE q = c
      BY <1>1, <1>3, <2>4, <3>1 DEF Away, Amid
    <3>2. CASE q # c
      BY <2>1, <2>4, <3>2 DEF Homing
    <3> QED
      BY <3>1, <3>2
  <2>5. ASSUME active # rest
        PROVE  \E q \in Calls : Away(q)' /\ found[q] = rest /\ active = ask[q]
    BY <2>1, <2>2, <2>5 DEF Homing
  <2> QED
    BY <2>3, <2>4, <2>5
<1>6. CASE active' # active
  <2> SUFFICES ASSUME rest' # NoAccount PROVE Homing'
    BY <1>2 DEF Homing
  <2>1. rest' = rest /\ Alone(c) /\ pc'[c] = "verify" /\ found[c] # NoAccount
    BY <1>4, <1>6
  <2>2. \A q \in Calls \ {c} : ~Reading(q)
    BY <2>1 DEF Alone
  <2>3. \A q \in Calls : ~Away(q)
    BY <1>1, <2>2 DEF Away, Amid, Reading
  <2>4. active = rest /\ found[c] = rest
    BY <1>3, <2>1, <2>3 DEF Homing
  <2>5. active' = ask[c] /\ Away(c)'
    BY <1>1, <1>3, <1>6, <2>1 DEF Away, Amid
  <2>6. \A q \in Calls \ {c} : ~Away(q)' /\ pc'[q] \notin {"check", "list", "select"}
    BY <1>1, <2>2 DEF Away, Amid, Reading
  <2> QED
    BY <1>1, <2>1, <2>4, <2>5, <2>6 DEF Homing
<1> QED
  BY <1>2, <1>5, <1>6

\* A call that selects back with no other under way brings the session home.
LEMMA RestoreHoming ==
  ASSUME RInv, NEW c \in Calls, Restore(c)
  PROVE  Homing' /\ \A q \in Calls : Ahead(q)'
<1> USE CallFields DEF RInv
<1>1. /\ \A q \in Calls \ {c} : pc'[q] = pc[q]
      /\ pc'[c] = "done" /\ pc[c] = "restore"
      /\ UNCHANGED <<ask, found>>
  BY DEF Restore, Warn, Proceed, Go, local, IInv, TypeOK
<1>2. \A q \in Calls : Ahead(q)'
  BY <1>1 DEF Ahead
<1>3. rest' = IF Alone(c) /\ active' = found[c] THEN rest ELSE NoAccount
  BY DEF Restore
<1> SUFFICES ASSUME rest' # NoAccount PROVE Homing'
  BY <1>2 DEF Homing
<1>4. \A q \in Calls \ {c} : ~Reading(q)
  BY <1>3 DEF Alone
<1>5. \A q \in Calls : ~Away(q)' /\ pc'[q] \notin {"check", "list", "select"}
  BY <1>1, <1>4 DEF Away, Amid, Reading
<1>6. \A q \in Calls \ {c} : ~Away(q)
  BY <1>4 DEF Away, Amid, Reading
<1>7. active' = rest
  <2>1. rest' = rest /\ active' = found[c] /\ rest # NoAccount
    BY <1>3
  <2>2. Away(c)
    BY <1>1, ScopedReadAssumption DEF Away, Amid, Ahead, IInv, Placed, CallPlaced, Accounts
  <2> QED
    BY <1>6, <2>1, <2>2 DEF Homing
<1> QED
  BY <1>3, <1>5, <1>7 DEF Homing

\* A command that selects with no call under way gives the session its home.
LEMMA CommandHoming ==
  ASSUME RInv, NEW p \in Commands, CommandStep(p)
  PROVE  Homing' /\ \A q \in Calls : Ahead(q)'
<1> USE CallFields, CommandFields DEF RInv
<1>1. CASE SelectFor(p)
  <2>1. /\ \A q \in Calls : pc'[q] = pc[q]
        /\ active' \in {active, ask[p]}
        /\ UNCHANGED <<ask, found>>
    BY <1>1, PostbackMoves DEF SelectFor, Go, local, IInv, TypeOK
  <2>2. \A q \in Calls : Ahead(q)' /\ (Away(q)' <=> Away(q))
    BY <2>1 DEF Ahead, Away, Amid
  <2>3. rest' = IF active' # ask[p] THEN rest ELSE IF Alone(p) THEN ask[p] ELSE NoAccount
    BY <1>1 DEF SelectFor
  <2>4. CASE active' # ask[p]
    BY <2>1, <2>2, <2>3, <2>4 DEF Homing
  <2>5. CASE active' = ask[p] /\ ~Alone(p)
    BY <2>2, <2>3, <2>5 DEF Homing
  <2>6. CASE active' = ask[p] /\ Alone(p)
    <3>1. \A q \in Calls : ~Reading(q)
      BY <2>6 DEF Alone
    <3>2. \A q \in Calls : ~Away(q)' /\ pc'[q] \notin {"check", "list", "select"}
      BY <2>1, <3>1 DEF Away, Amid, Reading
    <3> QED
      BY <2>2, <2>3, <2>6, <3>2 DEF Homing
  <2> QED
    BY <2>4, <2>5, <2>6
<1>2. CASE Start(p) \/ ListAll(p) \/ ChooseAccount(p) \/ ReadFor(p) \/ Exit(p)
  <2>1. /\ active' = active /\ rest' = rest
        /\ \A q \in Calls : pc'[q] = pc[q] /\ found'[q] = found[q] /\ ask'[q] = ask[q]
    BY <1>2 DEF Start, ListAll, ChooseAccount, ReadFor, Exit, Go, hist, IInv, TypeOK
  <2>2. \A q \in Calls : Settles(q)
    BY <2>1, SettlesAlone
  <2> QED
    BY <2>1, <2>2, HomingKept DEF Ahead
<1> QED
  BY <1>1, <1>2 DEF CommandStep

\* A server that ends takes the session's home with it, or was not on its way.
LEMMA KillHoming ==
  ASSUME RInv, NEW s \in Servers, Kill(s)
  PROVE  Homing' /\ \A q \in Calls : Ahead(q)'
<1> USE DEF RInv
<1>1. active' = active /\ rest' \in {rest, NoAccount}
  BY KillFields DEF Kill
<1>2. rest' # NoAccount => \A q \in Calls : ServerOf(q) = s => ~Away(q)
  BY DEF Kill
<1>3. ASSUME NEW q \in Calls PROVE Settles(q) /\ Ahead(q)'
  <2>1. CASE ServerOf(q) = s
    BY <1>2, <2>1, KillFields DEF Settles, Ahead, Away, Amid
  <2>2. CASE ServerOf(q) # s
    <3>1. pc'[q] = pc[q] /\ found'[q] = found[q] /\ ask'[q] = ask[q]
      BY <2>2, KillFields
    <3> QED
      BY <1>1, <3>1, SettlesAlone DEF Ahead
  <2> QED
    BY <2>1, <2>2
<1> QED
  BY <1>1, <1>3, HomingKept

\* Every step keeps the session's home.
LEMMA NextRInv == RInv /\ [Next]_vars => RInv'
<1> SUFFICES ASSUME RInv, [Next]_vars PROVE Homing' /\ \A q \in Calls : Ahead(q)'
  BY NextIInv DEF RInv
<1>1. ASSUME NEW c \in Calls, CallStep(c) PROVE Homing' /\ \A q \in Calls : Ahead(q)'
  BY <1>1, QuietHoming, SelectHoming, RestoreHoming DEF CallStep, Quiet
<1>2. CASE Lapse \/ UNCHANGED vars
  <2>1. UNCHANGED <<active, rest, pc, found, ask>>
    BY <1>2 DEF Lapse, hist, local, vars
  <2> QED
    BY <2>1 DEF RInv, Homing, Ahead, Away, Amid
<1> QED
  BY <1>1, <1>2, CommandHoming, KillHoming DEF Next

\* When no tool call is under way the session is on the account a command selected
\* last, or the first one, but after a selection that went wrong, a kill, or two at once.
THEOREM Rests == Spec => []SessionRests
<1>1. Init => RInv
  BY InitIInv, CallFields DEF RInv, Ahead, Homing, Away, Amid, Init
<1>2. RInv => SessionRests
  BY DEF RInv, Homing, SessionRests, Away, Amid, Reading
<1> QED
  BY <1>1, <1>2, NextRInv, PTL DEF Spec

-----------------------------------------------------------------------------
(* The calls of one server alone on a session implement AtomicReads, for    *)
(* any number of threads, accounts and pages.                               *)

\* Nothing but one server uses the session, it is not killed, and the portal does
\* what it answers.
Exclusive ==
  /\ Commands = {}
  /\ \A s, t \in Servers : s = t
  /\ Faults \subseteq {"broken", "lapse"}

Working(c) == pc[c] \notin {"idle", "done"}

\* Where a call is says where the session is, and what it answers is of its account.
Course(c) ==
  /\ pc[c] = "idle" => ask[c] = NoAccount
  /\ Amid(c) \/ pc[c] \in {"idle", "look", "check", "list", "select"} => outcome[c] = "none"
  /\ pc[c] \in {"recheck", "relist", "restore", "done"} => outcome[c] # "none"
  /\ Working(c) => holder[ServerOf(c)] = c[2]
  /\ pc[c] \in {"check", "list"} => found[c] # ask[c] /\ (live => found[c] = active)
  /\ pc[c] = "select" => found[c] = active /\ found[c] # ask[c]
  /\ Amid(c) \/ pc[c] \in {"recheck", "relist", "restore"} =>
       /\ ask[c] \in Linked
       /\ found[c] \in Linked
       /\ live => active = ask[c]
  /\ pc[c] \in {"page", "confirm"} =>
       /\ seen[c] \subseteq {ask[c], LoginPage}
       /\ LoginPage \in seen[c] => ~live
  /\ pc[c] = "confirm" => seen[c] # {}
  /\ pc[c] \in {"recheck", "relist", "restore"} => found[c] # ask[c]
  /\ outcome[c] = "ok" => ask[c] \in Linked /\ seen[c] = {ask[c]}

\* The inductive invariant.
RunInv == IInv /\ \A c \in Calls : Course(c)

LEMMA InitRunInv == Init => RunInv
  BY InitIInv, CallFields DEF Init, RunInv, Course, Amid, Working

\* The server's mutex lets one call work at a time.
LEMMA OneWorks ==
  ASSUME Exclusive, RunInv, NEW c \in Calls, NEW d \in Calls, Working(c), Working(d)
  PROVE  c = d
<1>1. holder[ServerOf(c)] = c[2] /\ holder[ServerOf(d)] = d[2]
  BY DEF RunInv, Course
<1>2. ServerOf(c) = ServerOf(d)
  BY CallFields DEF Exclusive
<1>3. c = <<ServerOf(c), c[2]>> /\ d = <<ServerOf(d), d[2]>>
  BY DEF Calls, ServerOf
<1> QED
  BY <1>1, <1>2, <1>3

\* What is true of a call that does not work needs its own variables only.
LEMMA IdleKept ==
  ASSUME NEW d \in Calls, ~Working(d), Course(d),
         pc'[d] = pc[d], ask'[d] = ask[d], outcome'[d] = outcome[d], seen'[d] = seen[d]
  PROVE  Course(d)'
  BY DEF Course, Amid, Working

-----------------------------------------------------------------------------
\* Where the session rests when at most c works.
Home(c) == IF ~live THEN NoAccount ELSE IF Away(c) THEN found[c] ELSE active

LEMMA RestsHome ==
  ASSUME NEW c \in Calls, \A d \in Calls \ {c} : ~Working(d)
  PROVE  RestingAccount = Home(c)
<1> DEFINE away == {d \in Calls : Away(d)}
<1>1. away = IF Away(c) THEN {c} ELSE {}
  BY DEF Away, Amid, Working
<1>2. (CHOOSE d \in {c} : TRUE) = c
  OBVIOUS
<1> QED
  BY <1>1, <1>2 DEF RestingAccount, Home

LEMMA RestsHomeAfter ==
  ASSUME NEW c \in Calls, \A d \in Calls \ {c} : ~Working(d)'
  PROVE  RestingAccount' = Home(c)'
<1> DEFINE away == {d \in Calls : Away(d)}
<1>1. away' = IF Away(c)' THEN {c} ELSE {}
  BY DEF Away, Amid, Working
<1>2. (CHOOSE d \in {c} : TRUE) = c
  OBVIOUS
<1> QED
  BY <1>1, <1>2 DEF RestingAccount, Home

-----------------------------------------------------------------------------
\* A step of c leaves what the other calls hold.
LEMMA CallFrame ==
  ASSUME TypeOK, NEW c \in Calls, CallStep(c), NEW d \in Calls, d # c
  PROVE  /\ pc'[d] = pc[d] /\ ask'[d] = ask[d] /\ outcome'[d] = outcome[d]
         /\ seen'[d] = seen[d] /\ found'[d] = found[d]
<1> USE CallFields DEF TypeOK, GiveUp, Warn, StaysAway, Go, Answer, Proceed
<1>1. CASE Begin(c) \/ Look(c) \/ Authenticate(c) \/ CheckLinked(c) \/ Reply(c)
  BY <1>1 DEF Begin, Look, Authenticate, CheckLinked, Reply
<1>2. CASE Select(c) \/ Restore(c)
  BY <1>2 DEF Select, Restore, Postback, local
<1>3. CASE Verify(c) \/ ReadPage(c) \/ Confirm(c)
  BY <1>3 DEF Verify, ReadPage, Confirm
<1>4. CASE Reauthenticate(c) \/ RecheckLinked(c) \/ ListNumbers(c)
  BY <1>4 DEF Reauthenticate, RecheckLinked, ListNumbers, local
<1> QED
  BY <1>1, <1>2, <1>3, <1>4 DEF CallStep

\* A call that is not over works alone.
LEMMA Lone ==
  ASSUME Exclusive, RunInv, NEW c \in Calls, CallStep(c), pc[c] # "done"
  PROVE  \A d \in Calls \ {c} : ~Working(d) /\ ~Working(d)'
<1> SUFFICES ASSUME NEW d \in Calls, d # c PROVE ~Working(d)
  BY CallFrame DEF Working, RunInv, IInv
<1>1. CASE pc[c] = "idle"
  <2>1. holder[ServerOf(c)] = NoSlot
    BY <1>1 DEF CallStep, Begin, Free, Look, Authenticate, CheckLinked, Select, Verify,
                ReadPage, Confirm, Reauthenticate, RecheckLinked, Restore, ListNumbers, Reply
  <2>2. ServerOf(d) = ServerOf(c) /\ d[2] # NoSlot
    BY CallFields, ScopedReadAssumption DEF Exclusive
  <2>3. Working(d) => holder[ServerOf(d)] = d[2]
    BY DEF RunInv, Course
  <2> QED
    BY <2>1, <2>2, <2>3
<1>2. CASE pc[c] # "idle"
  BY <1>2, OneWorks DEF Working
<1> QED
  BY <1>1, <1>2

\* A step of a call that is not over: the invariant, when the call itself keeps it, and
\* where the session rests.
LEMMA LoneStep ==
  ASSUME Exclusive, RunInv, NEW c \in Calls, CallStep(c), pc[c] # "done"
  PROVE  /\ Course(c)' => \A d \in Calls : Course(d)'
         /\ RestingAccount = Home(c) /\ RestingAccount' = Home(c)'
<1>1. \A d \in Calls \ {c} : ~Working(d) /\ ~Working(d)'
  BY Lone
<1>2. ASSUME NEW d \in Calls, d # c PROVE Course(d)'
  BY <1>1, <1>2, CallFrame, IdleKept DEF RunInv, IInv
<1> QED
  BY <1>1, <1>2, RestsHome, RestsHomeAfter

-----------------------------------------------------------------------------
(* The steps of AtomicReads.                                                *)

AtomicStep == [Atomic!ANext]_(Atomic!avars)

LEMMA Stutters ==
  ASSUME UNCHANGED <<ask, outcome>>, RestingAccount' = RestingAccount,
         \A d \in Calls : outcome[d] = "ok" => seen'[d] = seen[d]
  PROVE  AtomicStep
<1>1. UNCHANGED Atomic!avars
  BY DEF Atomic!avars
<1> QED
  BY <1>1 DEF AtomicStep

LEMMA Refuses ==
  ASSUME TypeOK, NEW c \in Calls, outcome[c] = "none", ask[c] # NoAccount, UNCHANGED <<ask, seen>>,
         outcome' = [outcome EXCEPT ![c] = "error"], RestingAccount' = RestingAccount
  PROVE  AtomicStep
<1>1. Atomic!Refuse(c)
  BY DEF Atomic!Refuse, TypeOK
<1> QED
  BY <1>1 DEF AtomicStep, Atomic!ANext

LEMMA Strands ==
  ASSUME TypeOK, NEW c \in Calls, outcome[c] # "none", ask[c] \in Linked,
         UNCHANGED <<ask, seen, outcome>>,
         RestingAccount # NoAccount, RestingAccount' = ask[c]
  PROVE  AtomicStep
<1>1. Atomic!Strand(c)
  BY DEF Atomic!Strand
<1> QED
  BY <1>1 DEF AtomicStep, Atomic!ANext

-----------------------------------------------------------------------------
(* Each step of a call keeps the invariant and is a step of AtomicReads.    *)

LEMMA BeginMaps ==
  ASSUME Exclusive, RunInv, NEW c \in Calls, Begin(c)
  PROVE  Course(c)' /\ AtomicStep
<1> USE CallFields, ScopedReadAssumption DEF RunInv, IInv
<1>1. RestingAccount = Home(c) /\ RestingAccount' = Home(c)'
  BY LoneStep DEF CallStep, Begin
<1>2. PICK a \in Accounts : ask' = [ask EXCEPT ![c] = a]
  BY DEF Begin
<1>3. Course(c)'
  BY <1>2 DEF Begin, Course, Amid, Go, TypeOK, Working, Accounts
<1>4. RestingAccount' = RestingAccount
  BY <1>1 DEF Begin, Home, Away, Amid, Go, TypeOK
<1>5. Atomic!Ask(c)
  <2>1. ask[c] = NoAccount /\ UNCHANGED <<outcome, seen>> /\ a \in Linked \cup Unlinked
    BY DEF Begin, Course, Amid, Accounts
  <2>2. [d \in Calls |-> ask[d]]' = [[d \in Calls |-> ask[d]] EXCEPT ![c] = a]
    BY <1>2 DEF TypeOK
  <2> QED
    BY <1>4, <2>1, <2>2 DEF Atomic!Ask
<1> QED
  BY <1>3, <1>5 DEF AtomicStep, Atomic!ANext

LEMMA LookMaps ==
  ASSUME Exclusive, RunInv, NEW c \in Calls, Look(c)
  PROVE  Course(c)' /\ AtomicStep
<1> USE CallFields, ScopedReadAssumption DEF RunInv, IInv
<1>1. RestingAccount = Home(c) /\ RestingAccount' = Home(c)'
  BY LoneStep DEF CallStep, Look
<1>0. ask[c] \in Accounts /\ outcome[c] = "none" /\ HomeStates = IF live THEN {active} ELSE {NoAccount}
  BY DEF Look, Placed, CallPlaced, Course, Amid, Exclusive, HomeStates
<1>3. Course(c)'
  BY <1>0 DEF GiveUp, Look, Course, Amid, Go, Answer, Proceed, TypeOK, Working, Accounts
<1>4. RestingAccount' = RestingAccount
  BY <1>0, <1>1 DEF GiveUp, Look, Home, Away, Amid, Go, Proceed, TypeOK
<1>5. CASE outcome' = outcome
  BY <1>3, <1>4, <1>5, Stutters DEF Look
<1>6. CASE Answer(c, "error")
  BY <1>0, <1>3, <1>4, <1>6, Refuses DEF GiveUp, Look, Answer, Accounts
<1> QED
  BY <1>3, <1>5, <1>6 DEF GiveUp, Look

LEMMA AuthenticateMaps ==
  ASSUME Exclusive, RunInv, NEW c \in Calls, Authenticate(c)
  PROVE  Course(c)' /\ AtomicStep
<1> USE CallFields, ScopedReadAssumption DEF RunInv, IInv
<1>1. RestingAccount = Home(c) /\ RestingAccount' = Home(c)'
  BY LoneStep DEF CallStep, Authenticate
<1>0. ask[c] \in Accounts /\ outcome[c] = "none" /\ seen[c] = {}
  BY DEF Authenticate, Placed, CallPlaced, Course, Amid
<1>3. Course(c)'
  BY <1>0 DEF Authenticate, GiveUp, Course, Amid, Go, Answer, Proceed, TypeOK, Working, Accounts
<1>4. RestingAccount' = RestingAccount
  BY <1>0, <1>1 DEF GiveUp, Authenticate, Home, Away, Amid, Go, Proceed, TypeOK
<1>5. CASE outcome' = outcome
  BY <1>3, <1>4, <1>5, Stutters DEF Authenticate
<1>6. CASE Answer(c, "error")
  BY <1>0, <1>3, <1>4, <1>6, Refuses DEF GiveUp, Authenticate, Answer, Accounts
<1> QED
  BY <1>3, <1>5, <1>6 DEF GiveUp, Authenticate

LEMMA CheckLinkedMaps ==
  ASSUME Exclusive, RunInv, NEW c \in Calls, CheckLinked(c)
  PROVE  Course(c)' /\ AtomicStep
<1> USE CallFields, ScopedReadAssumption DEF RunInv, IInv
<1>1. RestingAccount = Home(c) /\ RestingAccount' = Home(c)'
  BY LoneStep DEF CallStep, CheckLinked
<1>0. ask[c] \in Accounts /\ outcome[c] = "none" /\ seen[c] = {}
  BY DEF CheckLinked, Placed, CallPlaced, Course, Amid
<1>3. Course(c)'
  BY <1>0 DEF CheckLinked, Selectable, GiveUp, Course, Amid, Go, Answer, Proceed, TypeOK, Working, Accounts
<1>4. RestingAccount' = RestingAccount
  BY <1>0, <1>1 DEF GiveUp, CheckLinked, Home, Away, Amid, Go, Proceed, TypeOK
<1>5. CASE outcome' = outcome
  BY <1>3, <1>4, <1>5, Stutters DEF CheckLinked
<1>6. CASE Answer(c, "error")
  BY <1>0, <1>3, <1>4, <1>6, Refuses DEF GiveUp, CheckLinked, Answer, Accounts
<1> QED
  BY <1>3, <1>5, <1>6 DEF GiveUp, CheckLinked

LEMMA SelectMaps ==
  ASSUME Exclusive, RunInv, NEW c \in Calls, Select(c)
  PROVE  Course(c)' /\ AtomicStep
<1> USE CallFields, ScopedReadAssumption DEF RunInv, IInv
<1>1. RestingAccount = Home(c) /\ RestingAccount' = Home(c)'
  BY LoneStep DEF CallStep, Select
<1>0. /\ pc[c] = "select" /\ ask[c] \in Linked /\ found[c] = active /\ found[c] # ask[c]
      /\ outcome[c] = "none" /\ seen[c] = {} /\ holder[ServerOf(c)] = c[2]
      /\ UNCHANGED <<live, ask, found, todo, page, seen>>
  BY DEF Select, Placed, CallPlaced, Course, Working
<1>2. \/ pc'[c] = "verify" /\ (live => active' = ask[c]) /\ UNCHANGED <<outcome, holder>>
      \/ pc'[c] = "done" /\ active' = active /\ outcome' = [outcome EXCEPT ![c] = "error"]
  BY DEF Select, GiveUp, Proceed, Postback, Switch, Go, Answer, Exclusive, TypeOK
<1>3. Course(c)'
  BY <1>0, <1>2 DEF Course, Amid, TypeOK, Working
<1>4. RestingAccount' = RestingAccount
  BY <1>0, <1>1, <1>2 DEF Home, Away, Amid, TypeOK, Accounts
<1>5. CASE outcome' = outcome
  BY <1>0, <1>3, <1>4, <1>5, Stutters
<1>6. CASE outcome' = [outcome EXCEPT ![c] = "error"]
  BY <1>0, <1>3, <1>4, <1>6, Refuses DEF Accounts
<1> QED
  BY <1>2, <1>3, <1>5, <1>6

LEMMA VerifyMaps ==
  ASSUME Exclusive, RunInv, NEW c \in Calls, Verify(c)
  PROVE  Course(c)' /\ AtomicStep
<1> USE CallFields, ScopedReadAssumption DEF RunInv, IInv
<1>1. RestingAccount = Home(c) /\ RestingAccount' = Home(c)'
  BY LoneStep DEF CallStep, Verify
<1>0. ask[c] \in Accounts /\ outcome[c] = "none" /\ seen[c] = {}
  BY DEF Verify, Placed, CallPlaced, Course, Amid
<1>3. Course(c)'
  BY <1>0 DEF Verify, Course, Amid, Go, Answer, Proceed, Restoring, TypeOK, Working
<1>4. RestingAccount' = RestingAccount
  BY <1>0, <1>1 DEF Verify, Course, Home, Away, Amid, Go, Proceed, Restoring, TypeOK
<1>5. CASE outcome' = outcome
  BY <1>3, <1>4, <1>5, Stutters DEF Verify
<1>6. CASE Answer(c, "error")
  BY <1>0, <1>3, <1>4, <1>6, Refuses DEF Verify, Answer, Accounts
<1> QED
  BY <1>3, <1>5, <1>6 DEF Verify

LEMMA ReadPageMaps ==
  ASSUME Exclusive, RunInv, NEW c \in Calls, ReadPage(c)
  PROVE  Course(c)' /\ AtomicStep
<1> USE CallFields, ScopedReadAssumption DEF RunInv, IInv
<1>1. RestingAccount = Home(c) /\ RestingAccount' = Home(c)'
  BY LoneStep DEF CallStep, ReadPage
<1>0. /\ pc[c] = "page" /\ ask[c] \in Linked /\ found[c] \in Linked /\ outcome[c] = "none"
      /\ live => active = ask[c]
      /\ holder[ServerOf(c)] = c[2]
      /\ seen[c] \subseteq {ask[c], LoginPage} /\ (LoginPage \in seen[c] => ~live)
      /\ UNCHANGED <<live, active, ask, found>>
  BY DEF ReadPage, Course, Amid, Working
<1>2. PageOf \in {ask[c], LoginPage} /\ (PageOf = LoginPage => ~live)
  BY <1>0 DEF PageOf, Accounts
<1>3. CASE Answer(c, "error")
  <2>1. Proceed(c, Restoring(c)) /\ UNCHANGED seen
    BY <1>0, <1>3 DEF ReadPage, Answer, TypeOK, Go
  <2>2. Course(c)'
    BY <1>0, <1>3, <2>1 DEF Course, Amid, Go, Answer, Proceed, Restoring, TypeOK, Working
  <2>3. RestingAccount' = RestingAccount
    BY <1>0, <1>1, <2>1 DEF Home, Away, Amid, Go, Proceed, Restoring, TypeOK
  <2> QED
    BY <1>0, <1>3, <2>1, <2>2, <2>3, Refuses DEF Answer, Accounts
<1>4. CASE UNCHANGED <<holder, outcome>>
  <2>1. pc' \in {[pc EXCEPT ![c] = "page"], [pc EXCEPT ![c] = "confirm"]}
        /\ seen' = [seen EXCEPT ![c] = @ \cup {PageOf}]
    BY <1>0, <1>4 DEF ReadPage, Go, Answer, TypeOK
  <2>2. Course(c)'
    BY <1>0, <1>2, <1>4, <2>1 DEF Course, Amid, TypeOK, Working
  <2>3. RestingAccount' = RestingAccount
    BY <1>0, <1>1, <2>1 DEF Home, Away, Amid, TypeOK
  <2> QED
    BY <1>0, <1>4, <2>1, <2>2, <2>3, Stutters DEF TypeOK
<1> QED
  BY <1>3, <1>4 DEF ReadPage

LEMMA ConfirmMaps ==
  ASSUME Exclusive, RunInv, NEW c \in Calls, Confirm(c)
  PROVE  Course(c)' /\ AtomicStep
<1> USE CallFields, ScopedReadAssumption DEF RunInv, IInv
<1>1. RestingAccount = Home(c) /\ RestingAccount' = Home(c)'
  BY LoneStep DEF CallStep, Confirm
<1>0. /\ pc[c] = "confirm" /\ ask[c] \in Linked /\ found[c] \in Linked /\ outcome[c] = "none"
      /\ live => active = ask[c]
      /\ holder[ServerOf(c)] = c[2]
      /\ seen[c] \subseteq {ask[c], LoginPage} /\ (LoginPage \in seen[c] => ~live) /\ seen[c] # {}
      /\ UNCHANGED <<live, active, ask, found, seen>>
  BY DEF Confirm, Course, Amid, Working
<1>h. HomeStates = IF live THEN {active} ELSE {NoAccount}
  BY DEF Exclusive, HomeStates
<1>2. Proceed(c, Restoring(c))
  BY <1>0, <1>h DEF Confirm, StillOn
<1>3. RestingAccount' = RestingAccount
  BY <1>0, <1>1, <1>2 DEF Home, Away, Amid, Go, Proceed, Restoring, TypeOK
<1>4. CASE StillOn(c) /\ Answer(c, "ok")
  <2>1. live /\ seen[c] = {ask[c]}
    BY <1>0, <1>h, <1>4 DEF StillOn, Accounts
  <2>2. Course(c)'
    BY <1>0, <1>2, <1>4, <2>1 DEF Course, Amid, Go, Answer, Proceed, Restoring, TypeOK, Working
  <2>3. RestingAccount # NoAccount
    BY <1>0, <1>1, <2>1 DEF Home, Away, Amid, Accounts
  <2>4. [d \in Calls |-> IF outcome[d] = "ok" THEN seen[d] ELSE {}]'
          = [[d \in Calls |-> IF outcome[d] = "ok" THEN seen[d] ELSE {}] EXCEPT ![c] = {ask[c]}]
    BY <1>0, <1>4, <2>1 DEF Answer, TypeOK
  <2>5. Atomic!ReadAll(c)
    BY <1>0, <1>3, <1>4, <2>1, <2>3, <2>4 DEF Atomic!ReadAll, Answer
  <2> QED
    BY <2>2, <2>5 DEF AtomicStep, Atomic!ANext
<1>5. CASE Answer(c, "error")
  <2>1. Course(c)'
    BY <1>0, <1>2, <1>5 DEF Course, Amid, Go, Answer, Proceed, Restoring, TypeOK, Working
  <2> QED
    BY <1>0, <1>3, <1>5, <2>1, Refuses DEF Answer, Accounts
<1> QED
  BY <1>4, <1>5 DEF Confirm, GiveUp

LEMMA ReauthenticateMaps ==
  ASSUME Exclusive, RunInv, NEW c \in Calls, Reauthenticate(c)
  PROVE  Course(c)' /\ AtomicStep
<1> USE CallFields, ScopedReadAssumption DEF RunInv, IInv
<1>1. RestingAccount = Home(c) /\ RestingAccount' = Home(c)'
  BY LoneStep DEF CallStep, Reauthenticate
<1>0. /\ pc[c] = "recheck" /\ ask[c] \in Linked /\ found[c] \in Linked /\ outcome[c] # "none"
      /\ found[c] # ask[c]
      /\ live => active = ask[c]
      /\ UNCHANGED <<live, active, ask, found, seen, outcome>>
  BY DEF Reauthenticate, Course, local
<1>2. \/ pc' = [pc EXCEPT ![c] = "relist"] /\ UNCHANGED holder
      \/ pc' = [pc EXCEPT ![c] = "done"]
  BY DEF Reauthenticate, Warn, Go, Proceed
<1>3. Course(c)'
  BY <1>0, <1>2 DEF Course, Amid, TypeOK, Working
<1>4. CASE live /\ pc' = [pc EXCEPT ![c] = "done"]
  <2>1. RestingAccount # NoAccount /\ RestingAccount' = ask[c]
    BY <1>0, <1>1, <1>4 DEF Home, Away, Amid, TypeOK, Accounts
  <2> QED
    BY <1>0, <1>3, <2>1, Strands
<1>5. CASE ~live \/ pc' = [pc EXCEPT ![c] = "relist"]
  <2>1. RestingAccount' = RestingAccount
    BY <1>0, <1>1, <1>5 DEF Home, Away, Amid, TypeOK
  <2> QED
    BY <1>0, <1>3, <2>1, Stutters
<1> QED
  BY <1>2, <1>4, <1>5

LEMMA RecheckLinkedMaps ==
  ASSUME Exclusive, RunInv, NEW c \in Calls, RecheckLinked(c)
  PROVE  Course(c)' /\ AtomicStep
<1> USE CallFields, ScopedReadAssumption DEF RunInv, IInv
<1>1. RestingAccount = Home(c) /\ RestingAccount' = Home(c)'
  BY LoneStep DEF CallStep, RecheckLinked
<1>0. /\ pc[c] = "relist" /\ ask[c] \in Linked /\ found[c] \in Linked /\ outcome[c] # "none"
      /\ found[c] # ask[c] /\ holder[ServerOf(c)] = c[2]
      /\ live => active = ask[c]
      /\ UNCHANGED <<live, active, ask, found, seen, outcome>>
  BY DEF RecheckLinked, Course, Working, local
<1>2. \/ pc' = [pc EXCEPT ![c] = "restore"] /\ UNCHANGED holder
      \/ pc' = [pc EXCEPT ![c] = "numbers"] /\ UNCHANGED holder
      \/ pc' = [pc EXCEPT ![c] = "done"]
  BY DEF RecheckLinked, Warn, Go, Proceed
<1>3. Course(c)'
  BY <1>0, <1>2 DEF Course, Amid, TypeOK, Working
<1>4. CASE live /\ pc' # [pc EXCEPT ![c] = "restore"]
  <2>1. RestingAccount # NoAccount /\ RestingAccount' = ask[c]
    BY <1>0, <1>1, <1>2, <1>4 DEF Home, Away, Amid, TypeOK, Accounts
  <2> QED
    BY <1>0, <1>3, <2>1, Strands
<1>5. CASE ~live \/ pc' = [pc EXCEPT ![c] = "restore"]
  <2>1. RestingAccount' = RestingAccount
    BY <1>0, <1>1, <1>5 DEF Home, Away, Amid, TypeOK
  <2> QED
    BY <1>0, <1>3, <2>1, Stutters
<1> QED
  BY <1>4, <1>5

LEMMA ListNumbersMaps ==
  ASSUME Exclusive, RunInv, NEW c \in Calls, ListNumbers(c)
  PROVE  Course(c)' /\ AtomicStep
<1> USE CallFields, ScopedReadAssumption DEF RunInv, IInv
<1>1. RestingAccount = Home(c) /\ RestingAccount' = Home(c)'
  BY LoneStep DEF CallStep, ListNumbers
<1>0. /\ pc[c] = "numbers" /\ ask[c] \in Accounts
      /\ pc' = [pc EXCEPT ![c] = "done"]
      /\ UNCHANGED <<live, active, ask, found, seen>>
  BY DEF ListNumbers, Placed, CallPlaced, GiveUp, Warn, Proceed, Go
<1>2. \/ outcome[c] = "none" /\ outcome' = [outcome EXCEPT ![c] = "error"]
      \/ outcome[c] # "none" /\ UNCHANGED outcome
  BY DEF ListNumbers, GiveUp, Answer
<1>3. Course(c)'
  BY <1>0, <1>2 DEF Course, Amid, TypeOK, Working
<1>4. RestingAccount' = RestingAccount
  BY <1>0, <1>1 DEF Home, Away, Amid, TypeOK
<1>5. CASE outcome[c] = "none" /\ outcome' = [outcome EXCEPT ![c] = "error"]
  BY <1>0, <1>3, <1>4, <1>5, Refuses DEF Accounts
<1>6. CASE UNCHANGED outcome
  BY <1>0, <1>3, <1>4, <1>6, Stutters
<1> QED
  BY <1>2, <1>5, <1>6

LEMMA RestoreMaps ==
  ASSUME Exclusive, RunInv, NEW c \in Calls, Restore(c)
  PROVE  Course(c)' /\ AtomicStep
<1> USE CallFields, ScopedReadAssumption DEF RunInv, IInv
<1>1. RestingAccount = Home(c) /\ RestingAccount' = Home(c)'
  BY LoneStep DEF CallStep, Restore
<1>0. /\ pc[c] = "restore" /\ ask[c] \in Linked /\ found[c] \in Linked /\ outcome[c] # "none"
      /\ found[c] # ask[c]
      /\ live => active = ask[c]
      /\ UNCHANGED <<live, ask, found, seen, outcome>>
  BY DEF Restore, Course, local
<1>2. /\ pc' = [pc EXCEPT ![c] = "done"]
      /\ ~live \/ active' = found[c] \/ active' = active
  BY DEF Restore, Warn, Proceed, Postback, Switch, Go
<1>3. Course(c)'
  BY <1>0, <1>2 DEF Course, Amid, TypeOK, Working
<1>4. CASE live /\ active' = active
  <2>1. RestingAccount # NoAccount /\ RestingAccount' = ask[c]
    BY <1>0, <1>1, <1>2, <1>4 DEF Home, Away, Amid, TypeOK, Accounts
  <2> QED
    BY <1>0, <1>3, <2>1, Strands
<1>5. CASE ~live \/ active' = found[c]
  <2>1. RestingAccount' = RestingAccount
    BY <1>0, <1>1, <1>2, <1>5 DEF Home, Away, Amid, TypeOK, Accounts
  <2> QED
    BY <1>0, <1>3, <2>1, Stutters
<1> QED
  BY <1>2, <1>4, <1>5

\* A call that is over, and the others that may be under way.
LEMMA ReplyMaps ==
  ASSUME Exclusive, RunInv, NEW c \in Calls, Reply(c)
  PROVE  (\A d \in Calls : Course(d)') /\ AtomicStep
<1> USE CallFields, ScopedReadAssumption DEF RunInv, IInv
<1>0. /\ pc[c] = "done" /\ pc' = [pc EXCEPT ![c] = "idle"]
      /\ ask' = [ask EXCEPT ![c] = NoAccount] /\ outcome' = [outcome EXCEPT ![c] = "none"]
      /\ seen' = [seen EXCEPT ![c] = {}] /\ found' = [found EXCEPT ![c] = NoAccount]
      /\ UNCHANGED <<live, active, holder>>
  BY DEF Reply, Go
<1>1. Course(c)'
  BY <1>0 DEF Course, Amid, TypeOK, Working
<1>2. ASSUME NEW d \in Calls, d # c PROVE Course(d)'
  BY <1>0, <1>2 DEF Course, Amid, TypeOK, Working
<1>3. {d \in Calls : Away(d)}' = {d \in Calls : Away(d)} /\ ~Away(c)
  BY <1>0 DEF Away, Amid, TypeOK
<1>4. RestingAccount' = RestingAccount
  <2> DEFINE away == {d \in Calls : Away(d)}
  <2>1. CASE away = {}
    BY <1>0, <1>3, <2>1 DEF RestingAccount
  <2>2. CASE away # {}
    <3> DEFINE first == CHOOSE d \in away : TRUE
    <3>1. first \in away /\ first # c /\ first \in Calls
      BY <1>3, <2>2
    <3>2. found'[first] = found[first]
      BY <1>0, <3>1 DEF TypeOK
    <3> QED
      BY <1>0, <1>3, <2>2, <3>2 DEF RestingAccount
  <2> QED
    BY <2>1, <2>2
<1>5. Atomic!Take(c)
  <2>1. outcome[c] # "none"
    BY <1>0 DEF Course
  <2>2. [d \in Calls |-> ask[d]]' = [[d \in Calls |-> ask[d]] EXCEPT ![c] = NoAccount]
    BY <1>0 DEF TypeOK
  <2>3. [d \in Calls |-> IF outcome[d] = "ok" THEN seen[d] ELSE {}]'
          = [[d \in Calls |-> IF outcome[d] = "ok" THEN seen[d] ELSE {}] EXCEPT ![c] = {}]
    BY <1>0 DEF TypeOK
  <2> QED
    BY <1>0, <1>4, <2>1, <2>2, <2>3 DEF Atomic!Take
<1> QED
  BY <1>1, <1>2, <1>5 DEF AtomicStep, Atomic!ANext

\* A session that lapses.
LEMMA LapseMaps ==
  ASSUME Exclusive, RunInv, Lapse
  PROVE  (\A d \in Calls : Course(d)') /\ AtomicStep
<1> USE CallFields, ScopedReadAssumption DEF RunInv, IInv
<1>1. ASSUME NEW d \in Calls PROVE Course(d)'
  BY DEF Lapse, local, Course, Amid, Working
<1>2. RestingAccount' = NoAccount
  BY DEF Lapse, RestingAccount
<1>3. RestingAccount # NoAccount
  <2> DEFINE away == {d \in Calls : Away(d)}
  <2>1. CASE away = {}
    BY <2>1 DEF Lapse, RestingAccount, TypeOK, Accounts
  <2>2. CASE away # {}
    <3> DEFINE first == CHOOSE d \in away : TRUE
    <3>1. first \in away
      BY <2>2
    <3>2. found[first] # NoAccount
      BY <3>1 DEF Away, Amid
    <3> QED
      BY <2>2, <3>2 DEF Lapse, RestingAccount
  <2> QED
    BY <2>1, <2>2
<1>4. Atomic!Expire
  BY <1>2, <1>3 DEF Atomic!Expire, Lapse, local
<1> QED
  BY <1>1, <1>4 DEF AtomicStep, Atomic!ANext

-----------------------------------------------------------------------------
LEMMA NextRunInv ==
  ASSUME Exclusive, RunInv, [Next]_vars
  PROVE  RunInv' /\ AtomicStep
<1>1. IInv'
  BY NextIInv DEF RunInv
<1>2. ASSUME NEW c \in Calls, CallStep(c), pc[c] # "done"
      PROVE  (\A d \in Calls : Course(d)') /\ AtomicStep
  <2>1. Course(c)' /\ AtomicStep
    BY <1>2, BeginMaps, LookMaps, AuthenticateMaps, CheckLinkedMaps, SelectMaps, VerifyMaps,
       ReadPageMaps, ConfirmMaps, ReauthenticateMaps, RecheckLinkedMaps, RestoreMaps,
       ListNumbersMaps DEF CallStep, Reply
  <2> QED
    BY <1>2, <2>1, LoneStep
<1>3. ASSUME NEW c \in Calls, CallStep(c), pc[c] = "done"
      PROVE  (\A d \in Calls : Course(d)') /\ AtomicStep
  <2>1. Reply(c)
    BY <1>3 DEF CallStep, Begin, Look, Authenticate, CheckLinked, Select, Verify, ReadPage,
                Confirm, Reauthenticate, RecheckLinked, Restore, ListNumbers
  <2> QED
    BY <2>1, ReplyMaps
<1>4. CASE Lapse
  BY <1>1, <1>4, LapseMaps DEF RunInv
<1>5. CASE UNCHANGED vars
  <2>1. \A d \in Calls : Course(d)'
    BY <1>5 DEF RunInv, vars, Course, Amid, Working
  <2>2. RestingAccount' = RestingAccount
    BY <1>5 DEF vars, RestingAccount, Away, Amid
  <2> QED
    BY <1>1, <1>5, <2>1, <2>2, Stutters DEF vars, RunInv
<1>6. ASSUME NEW p \in Commands PROVE FALSE
  BY <1>6 DEF Exclusive
<1>7. ASSUME NEW s \in Servers, Kill(s) PROVE FALSE
  BY <1>7 DEF Exclusive, Kill
<1> QED
  BY <1>1, <1>2, <1>3, <1>4, <1>5, <1>6, <1>7 DEF RunInv, Next

LEMMA InitMaps == Init => Atomic!AInit
<1> SUFFICES ASSUME Init PROVE Atomic!AInit
  OBVIOUS
<1>1. RestingAccount = active
  BY CallFields DEF Init, RestingAccount, Away, Amid
<1> QED
  BY <1>1, CallFields DEF Init, Atomic!AInit

\* The calls of one server alone on a session implement atomic reads: no call sees
\* what another selects, and the session stays where it was (LivePortal::read, scoped).
THEOREM Implements == ASSUME Exclusive PROVE Spec => ReadsAreAtomic
<1>1. RunInv /\ [Next]_vars => RunInv' /\ [Atomic!ANext]_(Atomic!avars)
  BY NextRunInv DEF AtomicStep
<1> QED
  BY <1>1, InitRunInv, InitMaps, PTL DEF Spec, ReadsAreAtomic, Atomic!ASpec

-----------------------------------------------------------------------------
(* The mutex of a server, and how far a call has to go.                     *)

\* A call holds its server's mutex as long as it works, and no longer.
Serialized == \A c \in Calls : Working(c) <=> holder[ServerOf(c)] = c[2]

\* How many exchanges with the portal a call may yet have: one for each place it
\* can be, and of the list of numbers and the way back the longer.
Left(c) ==
  CASE pc[c] = "look"    -> Pages + 9
    [] pc[c] = "check"   -> Pages + 8
    [] pc[c] = "list"    -> Pages + 7
    [] pc[c] = "select"  -> Pages + 6
    [] pc[c] = "verify"  -> Pages + 5
    [] pc[c] = "page"    -> Pages + 4 - page[c]
    [] pc[c] = "confirm" -> 4
    [] pc[c] = "recheck" -> 3
    [] pc[c] = "relist"  -> 2
    [] pc[c] \in {"restore", "numbers"} -> 1
    [] OTHER             -> 0

\* A step takes a call that works an exchange further, and when it ends gives up the
\* mutex.
Advances(c) ==
  /\ Working(c)
  /\ Left(c)' < Left(c)
  /\ \/ Working(c)' /\ UNCHANGED holder
     \/ pc'[c] = "done" /\ Unlock(c)

LEMMA Descends ==
  ASSUME IInv, NEW c \in Calls, pc'[c] \in CallPC, page'[c] = page[c],
         \/ pc[c] = "look" /\ pc'[c] \in {"verify", "check", "done"}
         \/ pc[c] = "check" /\ pc'[c] \in {"list", "done"}
         \/ pc[c] = "list" /\ pc'[c] \in {"select", "numbers", "done"}
         \/ pc[c] = "select" /\ pc'[c] \in {"verify", "done"}
         \/ pc[c] = "verify" /\ page[c] = 0 /\ pc'[c] \in {"page", "done", "recheck"}
         \/ pc[c] \in {"page", "confirm"} /\ pc'[c] \in {"done", "recheck"}
         \/ pc[c] = "recheck" /\ pc'[c] \in {"relist", "done"}
         \/ pc[c] = "relist" /\ pc'[c] \in {"restore", "numbers", "done"}
         \/ pc[c] \in {"restore", "numbers"} /\ pc'[c] = "done"
  PROVE  Left(c)' < Left(c)
<1>1. Pages \in Nat /\ page[c] \in Nat
  BY CallFields, ScopedReadAssumption DEF IInv, TypeOK
<1>2. pc[c] = "page" => page[c] < Pages
  BY DEF IInv, Placed, CallPlaced
<1> QED
  BY <1>1, <1>2 DEF Left

LEMMA CallAdvances ==
  ASSUME IInv, NEW c \in Calls, CallStep(c)
  PROVE  \/ Advances(c)
         \/ pc[c] = "idle" /\ pc'[c] = "look" /\ Free(ServerOf(c))
              /\ holder' = [holder EXCEPT ![ServerOf(c)] = c[2]]
         \/ pc[c] = "done" /\ pc'[c] = "idle" /\ UNCHANGED holder
<1> USE CallFields DEF IInv, TypeOK, Go, GiveUp, Warn
<1>1. Restoring(c) \in {"done", "recheck"}
  BY DEF Restoring
<1>2. CASE Begin(c)
  BY <1>2 DEF Begin
<1>3. CASE Reply(c)
  BY <1>3 DEF Reply
<1>4. CASE Look(c)
  <2>1. pc[c] = "look" /\ page'[c] = page[c]
    BY <1>4 DEF Look
  <2>2. \/ pc'[c] \in {"verify", "check"} /\ UNCHANGED holder
        \/ pc'[c] = "done" /\ Unlock(c)
    BY <1>4 DEF Look, Proceed
  <2> QED
    BY <2>1, <2>2, Descends DEF Advances, Working, CallPC
<1>0. CASE Authenticate(c)
  <2>1. pc[c] = "check" /\ page'[c] = page[c]
    BY <1>0 DEF Authenticate
  <2>2. \/ pc'[c] = "list" /\ UNCHANGED holder
        \/ pc'[c] = "done" /\ Unlock(c)
    BY <1>0 DEF Authenticate, Proceed
  <2> QED
    BY <2>1, <2>2, Descends DEF Advances, Working, CallPC
<1>5. CASE CheckLinked(c)
  <2>1. pc[c] = "list" /\ page'[c] = page[c]
    BY <1>5 DEF CheckLinked
  <2>2. \/ pc'[c] \in {"select", "numbers"} /\ UNCHANGED holder
        \/ pc'[c] = "done" /\ Unlock(c)
    BY <1>5 DEF CheckLinked, Proceed
  <2> QED
    BY <2>1, <2>2, Descends DEF Advances, Working, CallPC
<1>6. CASE Select(c)
  <2>1. pc[c] = "select" /\ page'[c] = page[c]
    BY <1>6 DEF Select
  <2>2. \/ pc'[c] = "verify" /\ UNCHANGED holder
        \/ pc'[c] = "done" /\ Unlock(c)
    BY <1>6 DEF Select, Proceed
  <2> QED
    BY <2>1, <2>2, Descends DEF Advances, Working, CallPC
<1>7. CASE Verify(c)
  <2>1. pc[c] = "verify" /\ page'[c] = page[c] /\ page[c] = 0
    BY <1>7 DEF Verify, Placed, CallPlaced
  <2>2. \/ pc'[c] \in {"page", "recheck"} /\ UNCHANGED holder
        \/ pc'[c] = "done" /\ Unlock(c)
    BY <1>1, <1>7 DEF Verify, Proceed
  <2> QED
    BY <2>1, <2>2, Descends DEF Advances, Working, CallPC
<1>8. CASE ReadPage(c)
  <2>1. pc[c] = "page" /\ page[c] < Pages /\ page[c] \in Nat /\ Pages \in Nat
    BY <1>8, ScopedReadAssumption DEF ReadPage, Placed, CallPlaced
  <2>2. CASE page' = [page EXCEPT ![c] = @ + 1] /\ Go(c, IF MorePages(c) THEN "page" ELSE "confirm")
               /\ UNCHANGED holder
    <3>1. page'[c] = page[c] + 1
      BY <2>2
    <3>2. pc'[c] = IF MorePages(c) THEN "page" ELSE "confirm"
      BY <2>2
    <3>3. Left(c)' < Left(c)
      BY <2>1, <3>1, <3>2 DEF Left, MorePages
    <3> QED
      BY <2>1, <2>2, <3>2, <3>3 DEF Advances, Working
  <2>3. CASE page' = page /\ Proceed(c, Restoring(c))
    <3>1. \/ pc'[c] = "recheck" /\ UNCHANGED holder
          \/ pc'[c] = "done" /\ Unlock(c)
      BY <1>1, <2>3 DEF Proceed
    <3> QED
      BY <2>1, <2>3, <3>1, Descends DEF Advances, Working, CallPC
  <2> QED
    BY <1>8, <2>2, <2>3 DEF ReadPage
<1>9. CASE Confirm(c)
  <2>1. pc[c] = "confirm" /\ page'[c] = page[c]
    BY <1>9 DEF Confirm
  <2>2. \/ pc'[c] = "recheck" /\ UNCHANGED holder
        \/ pc'[c] = "done" /\ Unlock(c)
    BY <1>1, <1>9 DEF Confirm, Proceed
  <2> QED
    BY <2>1, <2>2, Descends DEF Advances, Working, CallPC
<1>10. CASE Reauthenticate(c)
  <2>1. pc[c] = "recheck" /\ page'[c] = page[c]
    BY <1>10 DEF Reauthenticate, local
  <2>2. \/ pc'[c] = "relist" /\ UNCHANGED holder
        \/ pc'[c] = "done" /\ Unlock(c)
    BY <1>10 DEF Reauthenticate, Proceed
  <2> QED
    BY <2>1, <2>2, Descends DEF Advances, Working, CallPC
<1>11. CASE RecheckLinked(c)
  <2>1. pc[c] = "relist" /\ page'[c] = page[c]
    BY <1>11 DEF RecheckLinked, local
  <2>2. \/ pc'[c] \in {"restore", "numbers"} /\ UNCHANGED holder
        \/ pc'[c] = "done" /\ Unlock(c)
    BY <1>11 DEF RecheckLinked, Proceed
  <2> QED
    BY <2>1, <2>2, Descends DEF Advances, Working, CallPC
<1>12. CASE Restore(c) \/ ListNumbers(c)
  <2>1. pc[c] \in {"restore", "numbers"} /\ page'[c] = page[c]
    BY <1>12 DEF Restore, ListNumbers, local
  <2>2. pc'[c] = "done" /\ Unlock(c)
    BY <1>12 DEF Restore, ListNumbers, Proceed
  <2> QED
    BY <2>1, <2>2, Descends DEF Advances, Working, CallPC
<1> QED
  BY <1>0, <1>2, <1>3, <1>4, <1>5, <1>6, <1>7, <1>8, <1>9, <1>10, <1>11, <1>12 DEF CallStep

\* Commands and the portal leave the calls where they are and the mutexes as they are.
LEMMA OthersLeave ==
  ASSUME IInv, (\E p \in Commands : CommandStep(p)) \/ Lapse \/ UNCHANGED vars
  PROVE  /\ UNCHANGED holder
         /\ \A c \in Calls : pc'[c] = pc[c] /\ page'[c] = page[c]
<1> USE CallFields, CommandFields DEF IInv, TypeOK, Go
<1>1. ASSUME NEW p \in Commands, CommandStep(p)
      PROVE  UNCHANGED holder /\ \A c \in Calls : pc'[c] = pc[c] /\ page'[c] = page[c]
  <2>1. CASE Start(p) \/ ListAll(p) \/ ChooseAccount(p) \/ ReadFor(p) \/ Exit(p)
    BY <2>1 DEF Start, ListAll, ChooseAccount, ReadFor, Exit
  <2>2. CASE SelectFor(p)
    BY <2>2 DEF SelectFor, Postback, local
  <2> QED
    BY <1>1, <2>1, <2>2 DEF CommandStep
<1>2. CASE Lapse \/ UNCHANGED vars
  BY <1>2 DEF Lapse, local, vars
<1> QED
  BY <1>1, <1>2

\* A step of c reads no page for another call.
LEMMA CallLeavesPage ==
  ASSUME TypeOK, NEW c \in Calls, CallStep(c), NEW d \in Calls, d # c
  PROVE  page'[d] = page[d]
<1> USE CallFields DEF TypeOK
<1>1. CASE ReadPage(c) \/ Reply(c)
  BY <1>1 DEF ReadPage, Reply
<1>2. CASE ~(ReadPage(c) \/ Reply(c))
  BY <1>2 DEF CallStep, Begin, Look, Authenticate, CheckLinked, Select, Verify, Confirm,
              Reauthenticate, RecheckLinked, Restore, ListNumbers, local
<1> QED
  BY <1>1, <1>2

LEMMA SamePlace ==
  ASSUME NEW c \in Calls, pc'[c] = pc[c], page'[c] = page[c]
  PROVE  Left(c)' = Left(c)
  BY DEF Left

LEMMA NextSerialized ==
  ASSUME IInv, Serialized, [Next]_vars
  PROVE  Serialized'
<1>1. ASSUME NEW c \in Calls, CallStep(c), NEW d \in Calls
      PROVE  (Working(d) <=> holder[ServerOf(d)] = d[2])'
  <2>1. holder \in [Servers -> Slots \cup {NoSlot}]
    BY DEF IInv, TypeOK
  <2>2. CASE d = c
    BY <1>1, <2>1, <2>2, CallAdvances, CallFields, ScopedReadAssumption
    DEF Serialized, Advances, Unlock, Working
  <2>3. CASE d # c
    <3>1. Working(d)' <=> Working(d)
      BY <1>1, <2>3, CallFrame DEF Working, IInv
    <3>2. CASE ServerOf(d) # ServerOf(c)
      <4>1. holder'[ServerOf(d)] = holder[ServerOf(d)]
        BY <1>1, <2>1, <3>2, CallAdvances, CallFields DEF Advances, Unlock
      <4> QED
        BY <3>1, <4>1 DEF Serialized
    <3>3. CASE ServerOf(d) = ServerOf(c)
      <4>1. d[2] # c[2] /\ d[2] # NoSlot
        BY <2>3, <3>3, CallFields, ScopedReadAssumption DEF Calls, ServerOf
      <4>2. CASE UNCHANGED holder
        BY <3>1, <4>2 DEF Serialized
      <4>3. CASE holder[ServerOf(c)] \in {NoSlot, c[2]} /\ holder'[ServerOf(c)] \in {NoSlot, c[2]}
        BY <3>1, <3>3, <4>1, <4>3 DEF Serialized
      <4>4. \/ UNCHANGED holder
            \/ holder[ServerOf(c)] \in {NoSlot, c[2]} /\ holder'[ServerOf(c)] \in {NoSlot, c[2]}
        BY <1>1, <2>1, CallAdvances, CallFields DEF Advances, Unlock, Serialized, Free
      <4> QED
        BY <4>2, <4>3, <4>4
    <3> QED
      BY <3>2, <3>3
  <2> QED
    BY <2>2, <2>3
<1>2. CASE (\E p \in Commands : CommandStep(p)) \/ Lapse \/ UNCHANGED vars
  BY <1>2, OthersLeave DEF Serialized, Working
<1>3. ASSUME NEW s \in Servers, Kill(s), NEW d \in Calls
      PROVE  (Working(d) <=> holder[ServerOf(d)] = d[2])'
  <2>1. holder' = [holder EXCEPT ![s] = NoSlot] /\ holder \in [Servers -> Slots \cup {NoSlot}]
    BY <1>3 DEF Kill, IInv, TypeOK
  <2> QED
    BY <1>3, <2>1, KillFields, CallFields, ScopedReadAssumption DEF Serialized, Working
<1> QED
  BY <1>1, <1>2, <1>3 DEF Next, Serialized

LEMMA InitSerialized == Init => Serialized
  BY CallFields, ScopedReadAssumption DEF Init, Serialized, Working

\* A call holds its server's mutex from its first request to its last, on every path
\* through its errors: two calls of a server are never under way at once, and none that
\* has ended keeps the next one out (LivePortal::read).
THEOREM Excludes == Spec => []Serialized
<1>1. IInv /\ Serialized /\ [Next]_vars => Serialized'
  BY NextSerialized
<1> QED
  BY <1>1, InitIInv, InitSerialized, NextIInv, PTL DEF Spec

\* What a step does to a call that works: its own takes it further, another's leaves it
\* where it is, but for the end of its server.
CallsDescend ==
  [][\A c \in Calls :
       Working(c) =>
         /\ Left(c) \in 1 .. Pages + 9
         /\ Left(c)' <= Left(c)
         /\ CallStep(c) => Left(c)' < Left(c)]_vars

\* A call has at most Pages + 9 exchanges with the portal, whatever fails and whoever
\* moves the session meanwhile, and then has its answer (scoped and select_account, twice;
\* the attempts and redirects of one exchange are module Transport's).  That an exchange
\* ends is the fairness of FairSpec.
THEOREM Finite == Spec => CallsDescend
<1> DEFINE Kept ==
      \A c \in Calls :
        Working(c) =>
          /\ Left(c) \in 1 .. Pages + 9
          /\ Left(c)' <= Left(c)
          /\ CallStep(c) => Left(c)' < Left(c)
<1>1. IInv /\ [Next]_vars => [Kept]_vars
  <2> SUFFICES ASSUME IInv, Next, NEW c \in Calls, Working(c)
               PROVE  /\ Left(c) \in 1 .. Pages + 9
                      /\ Left(c)' <= Left(c)
                      /\ CallStep(c) => Left(c)' < Left(c)
    OBVIOUS
  <2>1. Left(c) \in 1 .. Pages + 9
    <3>1. Pages \in Nat /\ page[c] \in Nat /\ pc[c] \in CallPC /\ (pc[c] = "page" => page[c] < Pages)
      BY CallFields, ScopedReadAssumption DEF IInv, TypeOK, Placed, CallPlaced
    <3> QED
      BY <3>1 DEF Left, Working, CallPC
  <2>2. CallStep(c) => Left(c)' < Left(c)
    BY CallAdvances DEF Advances, Working
  <2>3. Left(c)' <= Left(c)
    <3>1. CASE CallStep(c)
      <4>1. Left(c)' \in Int
        <5>1. pc'[c] \in CallPC /\ page'[c] \in Nat /\ Pages \in Nat
          BY NextIInv, CallFields, ScopedReadAssumption DEF IInv, TypeOK, Placed, CallPlaced
        <5> QED
          BY <5>1 DEF Left
      <4> QED
        BY <2>1, <2>2, <3>1, <4>1
    <3>2. CASE \E d \in Calls \ {c} : CallStep(d)
      BY <2>1, <3>2, CallFrame, CallLeavesPage, SamePlace DEF IInv
    <3>3. CASE (\E p \in Commands : CommandStep(p)) \/ Lapse
      BY <2>1, <3>3, OthersLeave, SamePlace
    <3>4. ASSUME NEW s \in Servers, Kill(s)
          PROVE  Left(c)' <= Left(c)
      <4>1. CASE ServerOf(c) = s
        BY <2>1, <3>4, <4>1, KillFields DEF Left
      <4>2. CASE ServerOf(c) # s
        BY <2>1, <3>4, <4>2, KillFields, SamePlace
      <4> QED
        BY <4>1, <4>2
    <3> QED
      BY <3>1, <3>2, <3>3, <3>4 DEF Next
  <2> QED
    BY <2>1, <2>2, <2>3
<1> QED
  BY <1>1, InitIInv, NextIInv, PTL DEF Spec, CallsDescend

-----------------------------------------------------------------------------
(* One server alone keeps what SECURITY.md says of any.                     *)

\* No command, and one server; the portal may fail in any way.
OneServer == Commands = {} /\ \A s, t \in Servers : s = t

\* Nobody changes the account under a call.
Still == \A c \in Calls : drift[c] = 0

LEMMA NextStill ==
  ASSUME OneServer, IInv, Serialized, Still, [Next]_vars
  PROVE  Still'
<1>1. ASSUME NEW c \in Calls, CallStep(c)
      PROVE  Still'
  <2>1. drift \in [Procs -> 0 .. 2] /\ c \in Procs
    BY CallFields DEF IInv, TypeOK
  <2>2. CASE Quiet(c) /\ ~Reply(c)
    BY <2>2 DEF Quiet, Begin, Look, Authenticate, CheckLinked, Verify, ReadPage, Confirm,
                Reauthenticate, RecheckLinked, ListNumbers, hist, Still
  <2>3. CASE Reply(c)
    BY <2>1, <2>3, CallFields DEF Reply, Still
  <2>4. ASSUME Select(c) \/ Restore(c), NEW d \in Calls, d # c
        PROVE  ~Reading(d)
    <3>1. Working(c)
      BY <2>4 DEF Select, Restore, Working
    <3>2. ServerOf(c) = ServerOf(d)
      BY CallFields DEF OneServer
    <3>3. c[2] # d[2]
      BY <2>4, <3>2 DEF Calls, ServerOf
    <3> QED
      BY <3>1, <3>2, <3>3 DEF Serialized, Working, Reading
  <2>5. CASE Select(c) \/ Restore(c)
    <3>1. \/ UNCHANGED drift
          \/ drift' = [drift EXCEPT ![c] = 0]
          \/ \E a : Switch(c, a)
      BY <2>5 DEF Select, Restore, Postback
    <3> QED
      BY <2>1, <2>4, <2>5, <3>1, CallFields, AmidReads DEF Switch, Still
  <2> QED
    BY <1>1, <2>2, <2>3, <2>5 DEF CallStep, Quiet
<1>2. CASE Lapse \/ UNCHANGED vars
  BY <1>2 DEF Lapse, hist, vars, Still
<1>3. ASSUME NEW s \in Servers, Kill(s)
      PROVE  Still'
  BY <1>3, KillFields DEF Still
<1> QED
  BY <1>1, <1>2, <1>3 DEF Next, OneServer

LEMMA InitStill == Init => Still
  BY CallFields DEF Init, Still

\* Where one server has the session to itself every answer is of the account asked for,
\* whatever fails (scoped): the pages another process can slip in unseen are the only
\* ones that SECURITY.md's promise misses.
THEOREM AsAsked == ASSUME OneServer PROVE Spec => AnswersAreOfTheAccountAsked
<1> DEFINE Known ==
      \A c \in Calls :
        outcome[c] = "none" /\ outcome'[c] = "ok"
          => seen[c] \subseteq {ask[c]} \/ Unseen(c)
    Kept ==
      \A c \in Calls :
        outcome[c] = "none" /\ outcome'[c] = "ok" => seen[c] \subseteq {ask[c]}
<1>1. Still /\ [Known]_vars => [Kept]_vars
  BY DEF Still, Unseen
<1>2. IInv /\ Serialized /\ Still /\ [Next]_vars => Still'
  BY NextStill
<1>3. Spec => []Still
  BY <1>2, Excludes, InitIInv, InitStill, NextIInv, PTL DEF Spec
<1>4. Spec => [][Known]_vars
  BY Confirmed DEF AnswersAreConfirmed
<1> QED
  BY <1>1, <1>3, <1>4, PTL DEF AnswersAreOfTheAccountAsked

-----------------------------------------------------------------------------
(* What a call that leaves the session elsewhere says of it.                *)

\* How a call ends: with an error; with the session on the account found, which it was
\* on or is selected back to; with a warning; or on a selection that was not made.
LEMMA EndsTold ==
  ASSUME IInv, NEW c \in Calls, CallStep(c),
         pc[c] # "done", pc'[c] = "done", live', found'[c] # NoAccount
  PROVE  active' = found'[c] \/ outcome'[c] = "error" \/ c \in warned' \/ Unmade(c)
<1> USE CallFields, ScopedReadAssumption
    DEF IInv, TypeOK, GiveUp, Warn, Answer, Proceed, Restoring, Go
<1>1. CASE Begin(c) \/ Look(c) \/ Authenticate(c) \/ CheckLinked(c)
  BY <1>1 DEF Begin, Look, Authenticate, CheckLinked
<1>2. CASE Select(c)
  BY <1>2 DEF Select
<1>3. CASE Verify(c) \/ ReadPage(c)
  BY <1>3 DEF Verify, ReadPage
<1>4. CASE Confirm(c)
  <2>1. CASE StillOn(c) /\ Proceed(c, Restoring(c))
    BY <1>4, <2>1 DEF Confirm, StillOn, HomeStates, Placed, CallPlaced
  <2>2. CASE outcome' = [outcome EXCEPT ![c] = "error"]
    BY <2>2
  <2> QED
    BY <1>4, <2>1, <2>2 DEF Confirm
<1>5. CASE Reauthenticate(c) \/ RecheckLinked(c)
  BY <1>5 DEF Reauthenticate, RecheckLinked
<1>6. CASE Restore(c)
  <2>1. PICK came \in BOOLEAN :
          /\ Postback(c, found[c], came)
          /\ \/ came /\ Proceed(c, "done") /\ UNCHANGED warned
             \/ ~came /\ Warn(c)
    BY <1>6 DEF Restore
  <2>2. UNCHANGED <<live, found>>
    BY <1>6 DEF Restore, local
  <2>3. CASE came
    BY <1>6, <2>1, <2>2, <2>3 DEF Postback, Switch, Unmade, Restore
  <2>4. CASE ~came
    BY <2>1, <2>4
  <2> QED
    BY <2>3, <2>4
<1>7. CASE ListNumbers(c)
  BY <1>7 DEF ListNumbers
<1>8. CASE Reply(c)
  BY <1>8 DEF Reply
<1> QED
  BY <1>1, <1>2, <1>3, <1>4, <1>5, <1>6, <1>7, <1>8 DEF CallStep

\* No call strands the session in silence, whatever fails and whoever else selects, but
\* where the portal answers the selection back and makes none (scoped's restore): of
\* what SECURITY.md says of failures, the part that is true.
THEOREM Told == Spec => StrandingIsTold
<1> DEFINE Kept ==
      \A c \in Calls :
        /\ pc[c] # "done" /\ pc'[c] = "done"
        /\ live' /\ found'[c] # NoAccount /\ active' # found'[c]
        => outcome'[c] = "error" \/ c \in warned' \/ Unmade(c)
<1>1. IInv /\ [Next]_vars => [Kept]_vars
  <2> SUFFICES ASSUME IInv, Next, NEW c \in Calls, pc[c] # "done", pc'[c] = "done",
                      live', found'[c] # NoAccount, active' # found'[c]
               PROVE  outcome'[c] = "error" \/ c \in warned' \/ Unmade(c)
    OBVIOUS
  <2>1. CallStep(c)
    <3>1. ASSUME NEW d \in Calls, CallStep(d), d # c PROVE FALSE
      BY <3>1, CallFrame DEF IInv
    <3>2. ASSUME NEW s \in Servers, Kill(s) PROVE FALSE
      BY <3>2, KillFields
    <3> QED
      BY <3>1, <3>2, OthersLeave DEF Next
  <2> QED
    BY <2>1, EndsTold
<1> QED
  BY <1>1, InitIInv, NextIInv, PTL DEF Spec, StrandingIsTold
=============================================================================
