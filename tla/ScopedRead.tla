----------------------------- MODULE ScopedRead -----------------------------
(***************************************************************************)
(* One portal session shared by several processes.                         *)
(*                                                                         *)
(* Which account the portal reports is state on the portal's session, and  *)
(* every process of one user shares that session through session.json.  A  *)
(* tool call of an MCP server reads through `scoped` (mcp.rs): look at the *)
(* account the portal reports, select the one asked for when it differs,   *)
(* read the pages, look again, select the first account back.  A command   *)
(* selects an account, or all of them in turn, or none, and reads.         *)
(*                                                                         *)
(* One step is one exchange with the portal: a request and its answer,     *)
(* whose retries and redirects are module Transport's.  Sign-in is off     *)
(* here (a session that lapses stays lapsed): module SignIn models it.  A  *)
(* page is abstracted to the account whose page it is.                     *)
(***************************************************************************)
EXTENDS Naturals

CONSTANTS
  Linked,      \* the accounts linked to the login
  Unlinked,    \* account numbers a config or a flag can name and the login lacks
  Servers,     \* the MCP server processes
  Slots,       \* the threads of one server that can hold a tool call
  Commands,    \* the command-line processes
  Pages,       \* how many pages one read fetches
  Faults,      \* what the portal may do wrong, a subset of FaultKinds
  NoAccount,   \* a home page that states no account; a command naming none
  LoginPage,   \* what a lapsed session gets in place of a page
  NoSlot       \* the holder of a free mutex

\* "broken":  a request fails before the portal acts on it
\* "unstated": the home page does not state an account number
\* "ignored": the portal answers a selection with a page, having selected nothing
\* "lost":    the portal selects, and its answer never arrives
\* "lapse":   the session times out
\* "killed":  a server ends inside a call, which the client restarts
FaultKinds == {"broken", "unstated", "ignored", "lost", "lapse", "killed"}

Accounts == Linked \cup Unlinked
Calls    == Servers \X Slots
Procs    == Calls \cup Commands
ServerOf(c) == c[1]

ASSUME ScopedReadAssumption ==
  /\ Pages \in Nat \ {0}
  /\ Faults \subseteq FaultKinds
  /\ Linked \cap Unlinked = {}
  /\ NoAccount \notin Accounts
  /\ LoginPage \notin Accounts
  /\ NoSlot \notin Slots
  /\ Commands \cap Calls = {}

VARIABLES
  live,      \* the portal still honours the session
  active,    \* the account the session is on
  holder,    \* LivePortal.refused: the slot holding each server's mutex
  pc,        \* where each process is
  ask,       \* the account the process reads
  found,     \* the account `scoped` found the session on
  todo,      \* the accounts a command has yet to read
  page,      \* how many pages of the read have come
  seen,      \* whose pages they were
  outcome,   \* what the call answers
  drift,     \* history: changes of account by others during the process's read
  raced,     \* history: those whose account some other process changed since `found`
  slipped,   \* history: those with a selection that did not go as asked
  rest,      \* history: the account the session is to be on when no call is under way,
             \* or NoAccount once a call was kept from selecting back
  warned     \* history: the calls that wrote the warning of `restore` to stderr

hist  == <<drift, raced, slipped, rest, warned>>
local == <<ask, found, todo, page, seen, outcome>>
vars  == <<live, active, holder, pc, ask, found, todo, page, seen, outcome,
           drift, raced, slipped, rest, warned>>

CallPC    == {"idle", "look", "check", "list", "select", "verify", "page", "confirm",
              "recheck", "relist", "restore", "numbers", "done"}
CommandPC == {"idle", "list", "choose", "select", "page", "done"}
Outcomes  == {"none", "ok", "error"}

TypeOK ==
  /\ live \in BOOLEAN
  /\ active \in Linked
  /\ holder \in [Servers -> Slots \cup {NoSlot}]
  /\ pc \in [Procs -> CallPC \cup CommandPC]
  /\ ask \in [Procs -> Accounts \cup {NoAccount}]
  /\ found \in [Calls -> Linked \cup {NoAccount}]
  /\ todo \in [Commands -> SUBSET Linked]
  /\ page \in [Procs -> 0 .. Pages]
  /\ seen \in [Procs -> SUBSET (Linked \cup {LoginPage})]
  /\ outcome \in [Calls -> Outcomes]
  /\ drift \in [Procs -> 0 .. 2]
  /\ raced \subseteq Procs
  /\ slipped \subseteq Procs
  /\ rest \in Linked \cup {NoAccount}
  /\ warned \subseteq Calls

Init ==
  /\ live = TRUE
  /\ active \in Linked
  /\ holder = [s \in Servers |-> NoSlot]
  /\ pc = [p \in Procs |-> "idle"]
  /\ ask = [p \in Procs |-> NoAccount]
  /\ found = [c \in Calls |-> NoAccount]
  /\ todo = [p \in Commands |-> {}]
  /\ page = [p \in Procs |-> 0]
  /\ seen = [p \in Procs |-> {}]
  /\ outcome = [c \in Calls |-> "none"]
  /\ drift = [p \in Procs |-> 0]
  /\ raced = {}
  /\ slipped = {}
  /\ rest = active
  /\ warned = {}

-----------------------------------------------------------------------------
(* The portal.                                                             *)

\* The account a GET of the home page can report, as reported_account reads it.
HomeStates ==
  IF live THEN {active} \cup (IF "unstated" \in Faults THEN {NoAccount} ELSE {})
          ELSE {NoAccount}

\* Whose page a GET of an account's page returns.
PageOf == IF live THEN active ELSE LoginPage

\* The page of linked accounts has a row for account a, with the postback that
\* selects it.
Selectable(a) == live /\ a \in Linked

Go(p, at) == pc' = [pc EXCEPT ![p] = at]

\* The history counts no further than this.
Bump(n) == IF n < 2 THEN n + 1 ELSE 2

Reading(q) == pc[q] \notin {"idle", "look", "done"}

\* q has made its selection, if it had to, and reads the pages or confirms them.
Amid(q) == pc[q] \in {"verify", "page", "confirm"}

\* p selects with no tool call of another thread or process under way.
Alone(p) == \A c \in Calls \ {p} : ~Reading(c)

\* The session goes to account a by a selection of p's, which everyone else
\* reading notices only if the account changes.
Switch(p, a) ==
  /\ active' = a
  /\ drift' = [q \in Procs |->
                 IF q = p THEN 0
                 ELSE IF a # active /\ Amid(q) THEN Bump(drift[q]) ELSE drift[q]]
  /\ raced' = raced \cup {q \in Procs : q # p /\ a # active /\ Reading(q)}

\* The postback of accounts::select for account a, and whether a response came.
\* What came is not looked at: an error page, or the login page of a lapsed session,
\* counts as success.
Postback(p, a, came) ==
  \/ /\ came
     /\ live
     /\ Switch(p, a)
     /\ UNCHANGED slipped
  \/ /\ came
     /\ ~live \/ "ignored" \in Faults
     /\ drift' = [drift EXCEPT ![p] = 0]
     /\ slipped' = slipped \cup {p}
     /\ UNCHANGED <<active, raced>>
  \/ /\ ~came
     /\ live
     /\ "lost" \in Faults
     /\ Switch(p, a)
     /\ slipped' = slipped \cup {p}
  \/ /\ ~came
     /\ "broken" \in Faults
     /\ slipped' = slipped \cup {p}
     /\ UNCHANGED <<active, drift, raced>>

Lapse ==
  /\ "lapse" \in Faults
  /\ live
  /\ live' = FALSE
  /\ UNCHANGED <<active, holder, pc, local, hist>>

-----------------------------------------------------------------------------
(* A tool call: LivePortal::read and scoped.                               *)

\* The call returns and drops the mutex guard.
Unlock(c) == holder' = [holder EXCEPT ![ServerOf(c)] = NoSlot]

\* The call goes on to `at`, which ends it when `at` is "done".
Proceed(c, at) ==
  /\ Go(c, at)
  /\ IF at = "done" THEN Unlock(c) ELSE UNCHANGED holder

\* Mutant of Restoring: nothing is ever selected back.
NeverRestoring(c) == "done"

\* `restore` has something to do only if the call selected.
Restoring(c) ==
  IF found[c] \in {NoAccount, ask[c]} THEN "done" ELSE "recheck"

Answer(c, o) == outcome' = [outcome EXCEPT ![c] = o]

\* Mutant of GiveUp: what fails is tried again from the first look, without a bound.
TryAgain(c) == Go(c, "look") /\ UNCHANGED <<outcome, holder>>

\* `?` before anything has to be selected back: the call ends with the error.
GiveUp(c) == Answer(c, "error") /\ Proceed(c, "done")

\* Mutant of Free: a mutex that does not exclude.
AlwaysFree(s) == TRUE

\* No call of the server holds its mutex.
Free(s) == holder[s] = NoSlot

\* The tool call names an account, or the default does, or the first linked.
Begin(c) ==
  /\ pc[c] = "idle"
  /\ Free(ServerOf(c))
  /\ holder' = [holder EXCEPT ![ServerOf(c)] = c[2]]
  /\ \E a \in Accounts : ask' = [ask EXCEPT ![c] = a]
  /\ Go(c, "look")
  /\ UNCHANGED <<live, active, found, todo, page, seen, outcome, hist>>

\* session.reported(): GET the home page.
Look(c) ==
  /\ pc[c] = "look"
  /\ \/ \E r \in HomeStates :
          /\ found' = [found EXCEPT ![c] = r]
          /\ Go(c, IF r = ask[c] THEN "verify" ELSE "check")
          /\ UNCHANGED <<holder, outcome>>
     \/ /\ "broken" \in Faults
        /\ GiveUp(c)
        /\ UNCHANGED found
  /\ UNCHANGED <<live, active, ask, todo, page, seen, hist>>

\* select_account's ensure_authenticated: GET the user profile.
Authenticate(c) ==
  /\ pc[c] = "check"
  /\ \/ /\ live
        /\ Go(c, "list")
        /\ UNCHANGED <<holder, outcome>>
     \/ /\ ~live \/ "broken" \in Faults
        /\ GiveUp(c)
  /\ UNCHANGED <<live, active, ask, found, todo, page, seen, hist>>

\* accounts::select up to its postback: GET the list of linked accounts.  Without a
\* row for the account, as on a login page, the call is to end with an error that
\* lists the numbers there are.
CheckLinked(c) ==
  /\ pc[c] = "list"
  /\ \/ /\ Go(c, IF Selectable(ask[c]) THEN "select" ELSE "numbers")
        /\ UNCHANGED <<holder, outcome>>
     \/ /\ "broken" \in Faults
        /\ GiveUp(c)
  /\ UNCHANGED <<live, active, ask, found, todo, page, seen, hist>>

\* `session.select(account)?`: when the postback fails the call ends there,
\* with nothing selected back.
Select(c) ==
  /\ pc[c] = "select"
  /\ \E came \in BOOLEAN :
       /\ Postback(c, ask[c], came)
       /\ \/ came /\ Go(c, "verify") /\ UNCHANGED <<outcome, holder>>
          \/ ~came /\ GiveUp(c)
       /\ rest' = IF active' = active \/ (Alone(c) /\ came /\ found[c] # NoAccount)
                    THEN rest ELSE NoAccount
  /\ UNCHANGED <<live, ask, found, todo, page, seen, warned>>

\* The read's own ready(): ensure_authenticated.
Verify(c) ==
  /\ pc[c] = "verify"
  /\ \/ /\ live
        /\ Go(c, "page")
        /\ UNCHANGED <<holder, outcome>>
     \/ /\ ~live \/ "broken" \in Faults
        /\ Answer(c, "error")
        /\ Proceed(c, Restoring(c))
  /\ UNCHANGED <<live, active, ask, found, todo, page, seen, hist>>

\* Mutant of MorePages: one page too many.
OneMorePage(p) == page[p] < Pages

\* The page being read is not the last.
MorePages(p) == page[p] + 1 < Pages

\* One page of the read.
ReadPage(c) ==
  /\ pc[c] = "page"
  /\ \/ /\ page' = [page EXCEPT ![c] = @ + 1]
        /\ seen' = [seen EXCEPT ![c] = @ \cup {PageOf}]
        /\ Go(c, IF MorePages(c) THEN "page" ELSE "confirm")
        /\ UNCHANGED <<holder, outcome>>
     \/ /\ "broken" \in Faults
        /\ Answer(c, "error")
        /\ Proceed(c, Restoring(c))
        /\ UNCHANGED <<page, seen>>
  /\ UNCHANGED <<live, active, ask, found, todo, hist>>

\* Mutant of StillOn: the answer is given without the comparison.
OnAnyAccount(c) == TRUE

\* The home page, looked at again, reports the account asked for.
StillOn(c) == ask[c] \in HomeStates

\* The home page again.  On the account asked for, the value is the answer; on
\* another, the session is left where it is.
Confirm(c) ==
  /\ pc[c] = "confirm"
  /\ \/ /\ StillOn(c)
        /\ Answer(c, "ok")
        /\ Proceed(c, Restoring(c))
     \/ /\ \E r \in HomeStates : r \notin {ask[c], NoAccount}
        /\ GiveUp(c)
     \/ /\ NoAccount \in HomeStates \/ "broken" \in Faults
        /\ Answer(c, "error")
        /\ Proceed(c, Restoring(c))
  /\ UNCHANGED <<live, active, ask, found, todo, page, seen, hist>>

\* Mutant of Warn: the failed way back is let go without a word.
EndSilently(c) == UNCHANGED warned /\ Proceed(c, "done")

\* The way back has failed: `restore` warns on stderr, and the answer stands.
Warn(c) == warned' = warned \cup {c} /\ Proceed(c, "done")

\* The session is not going back.
StaysAway(c) == slipped' = slipped \cup {c} /\ rest' = NoAccount

\* restore(): select_account again, its ensure_authenticated first.
Reauthenticate(c) ==
  /\ pc[c] = "recheck"
  /\ \/ /\ live
        /\ Go(c, "relist")
        /\ UNCHANGED <<holder, slipped, rest, warned>>
     \/ /\ ~live \/ "broken" \in Faults
        /\ StaysAway(c)
        /\ Warn(c)
  /\ UNCHANGED <<live, active, local, drift, raced>>

\* Then the list of linked accounts.
RecheckLinked(c) ==
  /\ pc[c] = "relist"
  /\ \/ /\ Selectable(found[c])
        /\ Go(c, "restore")
        /\ UNCHANGED <<holder, slipped, rest, warned>>
     \/ /\ ~Selectable(found[c])
        /\ StaysAway(c)
        /\ Go(c, "numbers")
        /\ UNCHANGED <<holder, warned>>
     \/ /\ "broken" \in Faults
        /\ StaysAway(c)
        /\ Warn(c)
  /\ UNCHANGED <<live, active, local, drift, raced>>

Restore(c) ==
  /\ pc[c] = "restore"
  /\ \E came \in BOOLEAN :
       /\ Postback(c, found[c], came)
       /\ \/ came /\ Proceed(c, "done") /\ UNCHANGED warned
          \/ ~came /\ Warn(c)
  /\ rest' = IF Alone(c) /\ active' = found[c] THEN rest ELSE NoAccount
  /\ UNCHANGED <<live, local>>

\* accounts::numbers for the error of an account without a row, which an answer or
\* its failure ends: the call's error on the way in, a warning on the way back.
ListNumbers(c) ==
  /\ pc[c] = "numbers"
  /\ \/ outcome[c] = "none" /\ GiveUp(c) /\ UNCHANGED warned
     \/ outcome[c] # "none" /\ Warn(c) /\ UNCHANGED outcome
  /\ UNCHANGED <<live, active, ask, found, todo, page, seen, drift, raced, slipped, rest>>

\* The answer has gone to the client, and the thread waits for its next call.
Reply(c) ==
  /\ pc[c] = "done"
  /\ Go(c, "idle")
  /\ ask' = [ask EXCEPT ![c] = NoAccount]
  /\ found' = [found EXCEPT ![c] = NoAccount]
  /\ page' = [page EXCEPT ![c] = 0]
  /\ seen' = [seen EXCEPT ![c] = {}]
  /\ outcome' = [outcome EXCEPT ![c] = "none"]
  /\ drift' = [drift EXCEPT ![c] = 0]
  /\ raced' = raced \ {c}
  /\ slipped' = slipped \ {c}
  /\ warned' = warned \ {c}
  /\ UNCHANGED <<live, active, holder, todo, rest>>

\* The call has moved the session and not yet selected back.
Away(c) ==
  /\ Amid(c) \/ pc[c] \in {"recheck", "relist", "restore"}
  /\ found[c] \notin {NoAccount, ask[c]}

\* The server's process ends, and with it whatever its calls were doing.  What it
\* selected stays selected.  The next server starts with a mutex of its own.
Kill(s) ==
  LET its == {c \in Calls : ServerOf(c) = s}
      Reset(f, v) == [p \in DOMAIN f |-> IF p \in its THEN v ELSE f[p]]
  IN /\ "killed" \in Faults
     /\ \E c \in its : pc[c] # "idle"
     /\ pc' = Reset(pc, "idle")
     /\ holder' = [holder EXCEPT ![s] = NoSlot]
     /\ ask' = Reset(ask, NoAccount) /\ found' = Reset(found, NoAccount)
     /\ page' = Reset(page, 0) /\ seen' = Reset(seen, {})
     /\ outcome' = Reset(outcome, "none")
     /\ drift' = Reset(drift, 0)
     /\ raced' = raced \ its /\ slipped' = slipped \ its /\ warned' = warned \ its
     /\ rest' = IF \E c \in its : Away(c) THEN NoAccount ELSE rest
     /\ UNCHANGED <<live, active, todo>>

-----------------------------------------------------------------------------
(* A command: ready() or snapshot_all(), then the pages.                   *)

\* The command reads whatever account is active (no --account and no
\* default_account), one account, or every linked account in turn.  First comes
\* ensure_authenticated; a command whose session has lapsed reads nothing.
Start(p) ==
  /\ pc[p] = "idle"
  /\ live
  /\ \/ /\ \E a \in Linked : todo' = [todo EXCEPT ![p] = {a}]
        /\ Go(p, "choose")
     \/ /\ Go(p, "list") \/ Go(p, "page")
        /\ UNCHANGED todo
  /\ UNCHANGED <<live, active, holder, ask, found, page, seen, outcome, hist>>

\* snapshot_all's own list of accounts, in which a login page has none.
ListAll(p) ==
  /\ pc[p] = "list"
  /\ \/ live /\ todo' = [todo EXCEPT ![p] = Linked] /\ Go(p, "choose")
     \/ ~live /\ UNCHANGED todo /\ Go(p, "done")
  /\ UNCHANGED <<live, active, holder, ask, found, page, seen, outcome, hist>>

\* Mutant of ChooseAccount: the page is read with nothing selected.
ChooseWithoutSelecting(p) ==
  /\ pc[p] = "choose"
  /\ \E a \in todo[p] :
       /\ Selectable(a)
       /\ ask' = [ask EXCEPT ![p] = a]
       /\ todo' = [todo EXCEPT ![p] = @ \ {a}]
  /\ page' = [page EXCEPT ![p] = 0]
  /\ seen' = [seen EXCEPT ![p] = {}]
  /\ Go(p, "page")
  /\ UNCHANGED <<live, active, holder, found, outcome, hist>>

\* The list of linked accounts, whose row for the account gives the postback.
ChooseAccount(p) ==
  /\ pc[p] = "choose"
  /\ \E a \in todo[p] :
       /\ Selectable(a)
       /\ ask' = [ask EXCEPT ![p] = a]
       /\ todo' = [todo EXCEPT ![p] = @ \ {a}]
  /\ page' = [page EXCEPT ![p] = 0]
  /\ seen' = [seen EXCEPT ![p] = {}]
  /\ Go(p, "select")
  /\ UNCHANGED <<live, active, holder, found, outcome, hist>>

SelectFor(p) ==
  /\ pc[p] = "select"
  /\ \E came \in BOOLEAN :
       /\ Postback(p, ask[p], came)
       /\ Go(p, IF came THEN "page" ELSE "done")
  /\ rest' = IF active' # ask[p] THEN rest ELSE IF Alone(p) THEN ask[p] ELSE NoAccount
  /\ UNCHANGED <<live, holder, warned, local>>

ReadFor(p) ==
  /\ pc[p] = "page"
  /\ page' = [page EXCEPT ![p] = @ + 1]
  /\ seen' = [seen EXCEPT ![p] = @ \cup {PageOf}]
  /\ Go(p, IF MorePages(p) THEN "page"
           ELSE IF todo[p] = {} THEN "done" ELSE "choose")
  /\ UNCHANGED <<live, active, holder, ask, found, todo, outcome, hist>>

\* The command exits, with its rows or with an error, for which it may have asked
\* for the numbers of the accounts.
Exit(p) ==
  /\ pc[p] = "done" \/ (pc[p] # "idle" /\ (~live \/ "broken" \in Faults))
  /\ Go(p, "idle")
  /\ ask' = [ask EXCEPT ![p] = NoAccount]
  /\ todo' = [todo EXCEPT ![p] = {}]
  /\ page' = [page EXCEPT ![p] = 0]
  /\ seen' = [seen EXCEPT ![p] = {}]
  /\ drift' = [drift EXCEPT ![p] = 0]
  /\ raced' = raced \ {p}
  /\ slipped' = slipped \ {p}
  /\ UNCHANGED <<live, active, holder, found, outcome, rest, warned>>

-----------------------------------------------------------------------------
CallStep(c) ==
  \/ Begin(c)  \/ Look(c) \/ Authenticate(c) \/ CheckLinked(c) \/ Select(c)
  \/ Verify(c) \/ ReadPage(c) \/ Confirm(c)
  \/ Reauthenticate(c) \/ RecheckLinked(c) \/ Restore(c) \/ ListNumbers(c) \/ Reply(c)

CommandStep(p) ==
  \/ Start(p) \/ ListAll(p) \/ ChooseAccount(p) \/ SelectFor(p) \/ ReadFor(p)
  \/ Exit(p)

Next ==
  \/ \E c \in Calls : CallStep(c)
  \/ \E p \in Commands : CommandStep(p)
  \/ \E s \in Servers : Kill(s)
  \/ Lapse

Spec == Init /\ [][Next]_vars

\* Every exchange ends, by its answer or by the client's timeout, so a call that
\* has started goes on.
FairSpec == Spec /\ \A c \in Calls : WF_vars(CallStep(c) /\ pc[c] # "idle")

-----------------------------------------------------------------------------
(* Where a process is says what its variables hold.                        *)

CallPlaced(c) ==
  /\ pc[c] \in CallPC
  /\ pc[c] # "idle" => ask[c] \in Accounts
  /\ pc[c] = "select" => ask[c] \in Linked
  /\ pc[c] \in {"recheck", "relist", "restore"} => found[c] \in Linked
  /\ pc[c] \in {"idle", "look", "check", "list", "select", "verify"} =>
       page[c] = 0 /\ seen[c] = {}
  /\ pc[c] \in {"idle", "look", "check", "list", "select"} => c \notin slipped
  /\ pc[c] \in {"idle", "look"} =>
       found[c] = NoAccount /\ drift[c] = 0 /\ c \notin raced
  /\ pc[c] = "page" => page[c] < Pages

CommandPlaced(p) ==
  /\ pc[p] \in CommandPC
  /\ pc[p] = "idle" => page[p] = 0
  /\ pc[p] = "select" => ask[p] \in Linked /\ page[p] = 0
  /\ pc[p] = "page" => page[p] < Pages

Placed ==
  /\ \A c \in Calls : CallPlaced(c)
  /\ \A p \in Commands : CommandPlaced(p)

\* What the history says of a call between its selection and its answer.
Tracked(c) ==
  Amid(c) =>
    /\ drift[c] = 0 => seen[c] \subseteq {active, LoginPage}
    /\ drift[c] = 0 /\ c \notin slipped => active = ask[c]
    /\ drift[c] = 1 /\ c \notin slipped => active # ask[c]
    /\ LoginPage \in seen[c] => ~live

\* The inductive invariant behind AnswersAreConfirmed.
IInv == TypeOK /\ Placed /\ \A c \in Calls : Tracked(c)

\* Where the session is during a call that nothing disturbs.
Homeward(c) ==
  found[c] # NoAccount /\ c \notin raced /\ c \notin slipped =>
    /\ pc[c] \in {"check", "list", "select", "numbers"} => active = found[c]
    /\ Amid(c) => active = ask[c]

\* The inductive invariant behind LeavesAsFound.
HInv == IInv /\ \A c \in Calls : Homeward(c)

-----------------------------------------------------------------------------
(* Properties.                                                             *)

\* What the final look cannot see: the account was changed and changed back, or
\* the call's own selection did nothing and another process then did it.
Unseen(c) == drift[c] = 2 \/ (c \in slipped /\ drift[c] = 1)

\* A tool's answer holds pages of the account asked for, and no login page,
\* unless the changes made meanwhile cancelled out (scoped, mcp.rs).
AnswersAreConfirmed ==
  [][\A c \in Calls :
       outcome[c] = "none" /\ outcome'[c] = "ok"
         => seen[c] \subseteq {ask[c]} \/ Unseen(c)]_vars

\* A call that ends leaves the session on the account it found there, unless
\* another process moved it or a selection went wrong (scoped's restore).
LeavesAsFound ==
  [][\A c \in Calls :
       /\ pc[c] # "done" /\ pc'[c] = "done"
       /\ found'[c] # NoAccount /\ c \notin raced' /\ c \notin slipped'
       => active' = found'[c]]_vars

\* When no tool call is under way the session is on the account that a command
\* selected last, or the one it was on at first, however many calls have come and
\* gone since: each has selected back, unless it was killed, its selection went wrong,
\* the home page told it no account, or another selected meanwhile (scoped).
SessionRests ==
  rest # NoAccount /\ (\A c \in Calls : ~Reading(c)) => active = rest

\* The pages a command reads for an account are that account's, or a login page
\* the session lapsed to, when no other process changes the account after the
\* command's selection (ready and snapshot_all, lib.rs).
CommandReadsItsAccount ==
  \A p \in Commands :
    ask[p] # NoAccount /\ drift[p] = 0 /\ p \notin slipped
      => seen[p] \subseteq {ask[p], LoginPage}

\* The call's selection back was answered and moved nothing, at which nobody looks.
Unmade(c) == pc[c] = "restore" /\ UNCHANGED active

\* A call that ends with the session elsewhere than it found it has failed, or has
\* warned on stderr that it could not bring it back, unless the portal answered the
\* selection back and made none (scoped's restore).
StrandingIsTold ==
  [][\A c \in Calls :
       /\ pc[c] # "done" /\ pc'[c] = "done"
       /\ live' /\ found'[c] # NoAccount /\ active' # found'[c]
       => outcome'[c] = "error" \/ c \in warned' \/ Unmade(c)]_vars

\* A call that has started is answered, on every path through its errors and however
\* often others move the session meanwhile (LivePortal::read and scoped, mcp.rs).
CallsEnd == \A c \in Calls : pc[c] = "look" ~> pc[c] = "done"

-----------------------------------------------------------------------------
(* What the documentation says and the code does not keep.                 *)

\* "If another process switched the account during the read [...] the tool
\* answers with an error rather than rows it cannot confirm" (SECURITY.md).
AnswersAreOfTheAccountAsked ==
  [][\A c \in Calls :
       outcome[c] = "none" /\ outcome'[c] = "ok" => seen[c] \subseteq {ask[c]}]_vars
=============================================================================
