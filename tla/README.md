# tojfl: models and proofs

`tojfl` reads a utility customer's account of the Town of Jupiter from the Town's
web portal, an ASP.NET WebForms site that was not made to be read by a program.
It is a library (`crates/tojfl-sdk`), a command line and an MCP server
(`crates/tojfl-cli`). The server is started by a desktop assistant and stays up
for days; commands are run by the user at any moment. All of them share one
portal session, one config file and the keychain items of one user, and nothing
coordinates them. Most of what can go wrong is there: in the order in which
processes act on a session that holds state on the portal, in requests that fail
between two steps, in pages whose shape has changed, and in files and lists that
are stale when used.

This directory holds TLA+ modules of those parts, configurations that
model-check them with TLC, and theorems about them that TLAPS checks.

- [Checking it](#checking-it)
- [The system](#the-system): its components, their state, how they interact
- [The modules](#the-modules): the model of each part, what its runs check and show
- [The proofs](#the-proofs)
- [Where the documentation and the code part](#where-the-documentation-and-the-code-part)
- [What is not modelled](#what-is-not-modelled)
- [Plan](#plan)

## Checking it

    tlc -workers 2 -config scoped_shared.cfg MCScopedRead    # one run
    tlapm ScopedReadProofs.tla                               # one module of proofs

`PROJECT.json` lists every run with its module and configuration, the lines of
source each definition was translated from (`map`), for each property a mutated
definition under which TLC finds the property violated (`mutants`), the
hazards of the code with the properties that cover them, and the theorems.

| Run | Module | Instance | Distinct states |
| --- | --- | --- | --- |
| `scoped_shared` | MCScopedRead | 1 server with 1 thread, 1 command, 2 linked accounts and 1 that is not, 2 pages, every fault, a server that is killed | 483 k |
| `scoped_alone` | MCScopedRead | 1 server with 2 threads, requests that fail, a session that lapses | 20 k |
| `scoped_aba` (violated) | MCScopedRead | 2 servers, no faults | - |
| `sign_in` | MCSignIn | 1 server and 1 command, bare or with variables of their own, 2 logins, 2 passwords, 2 sessions, 2 changes, every fault | 10.1 M |
| `sign_in_logout` (violated) | MCSignIn | 1 server, no faults | - |
| `transport` | MCTransport | 3 hosts, 2 schemes, 2 cookies, 3 attempts, 2 redirects | 68 k |
| `transport_twice` (violated) | MCTransport | 2 attempts, no redirects | - |
| `settings` | MCSettings | 2 commands (symmetric), with and without a `./tojfl.toml` | 8.9 M |
| `answers` | Answers | 3 rows on 2 days, a page that shows 2 | 4.3 M |
| `documents` | Documents | 3 bills on 2 dates | 1.35 M |
| `payment` | MCPayment | 3 linked accounts and 1 that is not, of 2 customers | 7.6 k |
| `dates` | MCDates | 425 days from each of 5 New Years, 2 days past a due date | 2.9 M |

## The system

Sources are under `src/`, `sdk` is `crates/tojfl-sdk/src` and `cli` is
`crates/tojfl-cli/src`.

### Components

| Component | Source | State | Operations | What makes it correct |
| --- | --- | --- | --- | --- |
| Account selection and scoped reads | `cli/mcp.rs` (`LivePortal`, `scoped`), `sdk/lib.rs` (`ready`, `select_account`, `snapshot_all`), `sdk/accounts.rs` | the account the portal's session is on, the server's mutex | a tool call; a command with one account, all or none | an answer is of the account asked for; the session stays where the user left it; a call that fails does not block the next |
| Session life cycle and sign-in | `sdk/auth.rs`, `sdk/lib.rs` (`login`, `ensure_authenticated`), `cli/mcp.rs` (`read`, `Refused`), `cli/creds.rs` | `session.json`, the keychain password, the config's `username` and `auto_login`, `Refused` in the server's memory | load, try, sign in, save, retry; login, logout | the data are the configured login's; a refused password is not sent over and over; a logout and `auto_login = false` hold |
| HTTP transport | `sdk/client.rs` | attempts and hops of one exchange, the cookie jar | `get`, `post_form`, `send_retrying` | forms go to the portal alone, never in the clear; every exchange ends |
| Session file, config file, keychain | `sdk/session.rs`, `sdk/config.rs`, `cli/creds.rs`, `cli/commands.rs` | the files and keychain items | `config init/set/unset/set-password/clear-password`, `auth login [--save]`, `auth logout [--forget]` | a file is whole; what was reported saved or removed is |
| Tool answers and snapshot | `cli/mcp.rs` (`JupiterSource`), `sdk/lib.rs` (`build_snapshot`) | none | `jupiter_bills`, `jupiter_usage`, `jupiter_payments`; `snapshot` | "none" is never said of a page that was not understood; what is owed counts each credit once |
| Statements and documents | `cli/commands.rs` (`bills`, `documents`), `sdk/lib.rs` (`download_bill`) | the files it writes | list, get, download one, latest, all | the statement listed is the one fetched; what is reported saved is a PDF and is there |
| Page scrapers | `sdk/scrape.rs` | none | one parser for each page | a row is read whole or reported missing |
| WebForms postbacks | `sdk/dnn.rs` | none | extract a form, post it back | every hidden field goes back |
| Calendar dates | `sdk/date.rs` | none | parse, order, format, today | order and range filters, past due |
| Payment lookup | `sdk/payment.rs`, `cli/commands.rs` (`pay`) | none | quote, open the hosted page | the account paid is the one named, and the name shown is its own |
| Usage forms | `sdk/usage.rs` | none | history and range forms | a form that is missing is not an empty history |
| Command line and output | `cli/cli.rs`, `cli/output.rs`, `cli/main.rs` | none | parse arguments, print | - |
| MCP framework | `pk_cli_mcp`, not in this repository | connections | serve calls on threads | - |
| Updates, contact, completions | `cli/selfupdate.rs`, `sdk/pages.rs` | none | print | - |

### How they interact

* **Through the portal.** Which account a page shows is state of the session on
  the portal, set by a postback. Every process that loads `session.json` holds
  the same cookies, and so shares that state. A process learns it only by the
  home page.
* **Through files.** `session.json` is replaced by a rename, `config.toml` is
  written in place. A server reads both afresh for each call; a command reads
  them once, when it starts.
* **Through the keychain,** before which `$TOJFL_PASSWORD` is looked at, and after
  which the config's `password`. `$TOJFL_USERNAME` comes before the config's
  `username` for a command.
* **Through memory.** The threads of a server share `Refused` behind one mutex
  that is held across every request of a call, and nothing else.

There are no callbacks and no messages between processes. What is hard is
*interleaving* of requests of processes on one session; *staleness* of what was
read at the start of a call or a command, or taken from an earlier list;
*partial failure* of a call between its selection and its way back, of a save
between its file and its keychain item, of a batch between two files; *retries*
of a request that was processed; and *pages of another shape* that parse as
nothing. `PROJECT.json` lists each such hazard at its line.

## The modules

The components' modules do not share variables. Each is the whole of its state
and what the others do to that state is in it as actions (another process's
selection in ScopedRead, the user's login in SignIn, the portal's new bill in
Documents, the Town's midnight in Dates). `AtomicReads` is an abstract specification, which ScopedRead
implements. An `MC` module gives an instance its values.

One step is one thing the rest of the world can see or come between: a request and
its answer, a write, a rename, a look at a file. What a process computes between two of them
is part of the step before or after.

### ScopedRead: tool calls and commands on one session

| Model | Code |
| --- | --- |
| `live`, `active` | the portal's session: whether it is honoured, and its account |
| `holder` | the `MutexGuard` on `LivePortal.refused`, by server |
| `found`, `ask` | `before` and `account` of `scoped` |
| `todo`, `page`, `seen` | the accounts `snapshot_all` has to read, the pages of the read and whose they were |
| `Begin`, `Look`, `Authenticate`, `CheckLinked`, `Select`, `Verify`, `ReadPage`, `Confirm`, `Reauthenticate`, `RecheckLinked`, `Restore`, `ListNumbers`, `Reply` | `LivePortal::read` and `scoped`: lock, `reported`, `select_account` (session check, list, postback; or the numbers for its error), the closure's `ready` and pages, `reported` again, `restore` |
| `Start`, `ListAll`, `ChooseAccount`, `SelectFor`, `ReadFor`, `Exit` | a command: `ready` or `snapshot_all`, then its pages |
| `Kill` | the process of a server ends inside a call, and the client starts another |
| `Postback` | `dnn::postback` by `accounts::select`, whose response is not looked at |
| `drift`, `raced`, `slipped` | history: how often others changed the account since this process selected (0, 1, more), who was raced at all, whose selection did not go as asked |
| `rest` | history: the account the session ought to be on when no call is under way |

`Faults` says what the portal may do wrong: a request may fail before it is
processed or after, the home page may not state the number, a selection may do
nothing, the session may lapse, a server may be killed. A page is whose page it is.

**What the runs show.**
`AnswersAreConfirmed`: an answer has pages of the account asked for only, and no
login page, unless the changes others made cancelled out, in which case the look
after the read cannot tell. This is what `scoped` achieves and the most it can
achieve on a portal without transactions. `LeavesAsFound`: a call nobody raced,
whose selections went as asked, ends with the session on the account it found,
on every path through its errors. `CommandReadsItsAccount`: what a command that
selected reads is that account's, until another process selects. `SessionRests`
is about whole histories of calls: whenever none is under way, the session is on
the account that a command selected last, or that it was on at first. What it
excepts, by giving `rest` up, is the list of ways a session is left elsewhere: a
server killed between its selection and its way back, a look that was told no
account, a selection or a way back that went wrong, and a selection of one process
during the read of another.
`ReadsAreAtomic`: the calls of one server, alone on the session, implement
`AtomicReads`, where a read takes place at one moment and the session does not
move, but for a way back that failed (`Strand`). The mapping takes the account of
the session to be the one the call in progress will select back; it is where the
mutex and `restore` are needed at once. `StrandingIsTold`: a call that ends with the
session elsewhere than it found it failed, or warned on stderr (`warned`). Two cases are
excepted: a way back the portal answered and did not make (`Unmade`), and a home page
that states no account, as then there is nothing known to go back to. `CallsEnd`: a call that started is answered,
since nothing it meets has it try again without a bound.

**Bounds.** Another process matters only by the account it leaves on the
session, and `drift` counts to two, so one other process that can select any
number of times meets every case; a command is the freest such process.
Two pages give a change before, between and after them. An account that is not
linked meets the refusal of `CheckLinked`, and the list of numbers asked for the
error's text. A killed server starts with a mutex
of its own and takes the account it finds for the one to return to, as the first
did, so one is enough. Two threads are needed for the mutex,
in the run where they are alone; there is no third role for a third thread.

**Fairness.** A request ends with an answer or by the client's timeout, so a
call that has started takes its next step: weak fairness of `CallStep(c)` while
the call is not idle. Nobody is owed a next call, and none is assumed of commands
or of the portal. A thread that waits for the mutex is idle in the model, so
nothing is claimed of how long it waits.

### SignIn: who signs in, as whom, with what

| Model | Code |
| --- | --- |
| `file`, `stored`, `cfg` | `session.json` (`Foreign` when it is for another base URL or has no cookies), the keychain password, `username`, `auto_login` and `password` of the config |
| `accepts`, `owner`, `alive` | the portal: passwords, whose each session is, which it honours |
| `env` | `$TOJFL_USERNAME` and `$TOJFL_PASSWORD` of each process, as it was started |
| `Loaded`, `LoginUser`, `FoundPassword` | where a username and a password come from: the environment, the keychain, the config; a command's username is not the session's |
| `refused` | `Refused`, in a server's memory |
| `mine`, `had`, `jar`, `who`, `pass` | what a call or a command read: its config, whether there was a saved session, cookies, `Portal.username`, the password |
| `Begin`, `Open` | `LivePortal::config`, `Portal::new` or `without_session` |
| `Try`, `Resolve`, `Post`, `Save`, `Retry`, `Finish` | the call, `may_sign_in` or `should_refresh`, `resolve_password` and `Refused::sign_in`, `auth::login`, `Session::save`, the call again |
| `UserLogin`, `UserLogout`, `EditSettings`, `ResetPassword`, `Lapse` | the user and the portal, at any moment |
| `changes`, `refusals` | history: what changed a credential, and how often each server saw one refused |

A session is a member of `Sids`, which the portal hands out again once nobody
holds its cookies; `Junk` are cookies it never honoured. `auth::login` takes any
page without the login form for success, and so an error page leaves `Junk`. A sign-in
whose answer is lost may have opened a session that nobody holds. The processes talk to
one base URL.

**What the runs show.** `AnswersAsConfigured`: a server answers with the data of
the login its config named when the call began, though the file may hold another
login's living session (`without_session`). `RefusalsNeedAChange`: a server sees
a password refused at most once more than credentials were changed, however often
it is asked; `Refused` is one credential, and the environment variable hides the
keychain. A change is an act of the user or the portal, or a save of a login that the file did not
name, which a server with no username configured goes by. A refusal is counted when the
server has its answer: one that an outage hid is not remembered, and may be met again. `LogoutHolds`: after a logout no process that starts later brings the
file back, but a server with `$TOJFL_PASSWORD`, as the code intends.
`AutoLoginOffHolds`: with `auto_login` off and no call that read it on, only the
user's login opens a session or has a password refused. `SInv`, the invariant of
the proofs, also says that `session.json` never names a login its cookies do not
belong to.

**Bounds.** Two logins and two passwords are right and wrong, this and the other.
Every instance starts as the installer or `config init` leaves it: a username and a
password set, right or wrong, or neither. One session may be in the file and one
being opened, so there are two, which the portal hands out again once they are
forgotten. Two changes from such a start are enough for a wrong password to be
replaced and set again, or for a login and a logout, or an edit and either, in any
order and at every step of a call; `MaxChanges` bounds those; lapses, calls and
commands are unbounded until it is passed, after which no call begins, since two
logins can take the file from each other for ever. That is why the run may stop where
the system would not (`CHECK_DEADLOCK FALSE`). The theorems are for any number of each. A server's
calls are one process, since its mutex lets one through at a time. Logins, passwords
and sessions are symmetric: no definition tells one from another.

### Transport: one exchange

| Model | Code |
| --- | --- |
| `method`, `url`, `attempt`, `hops` | the locals of `get`, `post_form` and `send_retrying` |
| `Start` | `require_secure_portal_url` and `post_form`'s origin check |
| `Send`, `NoAnswer`, `Busy`, `Broken`, `Receive`, `Redirect` | one turn of `send_retrying`; `is_transient_error`, `is_transient_status`, other errors, a response, a hop with `require_secure_hop` |
| `wire`, `applied`, `Process`, `Lose` | the network and the portal: attempts of the POST on their way, and processed |
| `jar` | the cookie that reqwest's own jar sends the portal |
| `noted`, `Hear` | `Client.cookies` and `record_cookies`: one map for all hosts, of the answers `get` and `post_form` see |
| `Overhear` | an answer `send_retrying` keeps to itself, whose cookies only reqwest records |
| `Reload` | the session is saved, and the next process starts from it |
| `Rest` | the caller's next exchange |

**What the runs show.** `FormsGoHome`, `NeverInTheClear`: whatever a page's form
action, a link or a chain of redirects says. `SendsAreBounded`: the two limits
multiply, and no exchange sends more than `(MaxRedirects + 1) * MaxAttempts`
requests. `ExchangesEnd`: an exchange ends with a result. `SavedIsSent`: the program
keeps the session cookie twice, in reqwest's jar, which it sends, and in a map of its
own, which it saves; the two agree through any chain of exchanges, redirects and
retries. They part in two cases, for which `apart` stands: the last answer to set the
cookie came from another host (the map does not ask which), or was one that
`send_retrying` retried. That the portal processes a form at most once is not so
(`ProcessedOnce`, run `transport_twice`).

**Bounds.** `MAX_ATTEMPTS` is the code's 3; `MAX_REDIRECTS` is 2 rather than 10,
which reaches the first hop, one in the middle, and the refusal, and the theorem
is for every value. The three hosts are the portal, another and this machine,
to which alone plain http is allowed; the portal of the instance is on https. One
cookie stands for the portal's session, with two values so that a new one differs
from the old.

**Fairness.** Weak fairness of `ClientStep`: reqwest's timeout ends every wait.
None of the network: a request may stay under way for ever.

### Settings: what commands leave behind

| Model | Code |
| --- | --- |
| `osfile`, `localfile` | `config.toml` on the OS path, `./tojfl.toml`: two of the keys, `Empty` while it is being written |
| `session`, `temp`, `left` | `session.json`, the temporary file of each save, whole or half, and whether a process that is gone left its own |
| `keychain` | the connector's token and the password |
| `mine`, `from` | the `Config` a command loaded, and from where |
| `StartSet`, `Truncate`, `Write` | `config init/set/unset`, `Config::save` (`fs::write`) |
| `StartLogin`, `SignIn`, `OpenTemp`, `FillTemp`, `Rename`, `SaveFails`, `SetPassword` | `auth login [--save]`, `Session::save_to`, the keychain, `Config::save` |
| `StartLogout`, `MakePortal`, `SessionExists`, `Unlink`, `ForgetToken`, `ForgetPassword` | `auth logout [--forget]`, `Session::clear`, `finish_forget` |
| `EditPassword` | `config set-password`, `config clear-password` |
| `Exit`, `Kill` | the process ends, or is killed between any two steps, and leaves what it wrote |

Every step can fail. `meddled` is the history of what others changed meanwhile.

**What the run shows.** `SessionIsWhole`: no reader ever finds half a session,
with two saves, a logout and a kill at any point. `TempsAreRemoved`: the only
copies of the cookies left behind are those of a process killed in its save, or of one
that could not remove its own (`save_to` ignores that error); their name holds the
process's id, and nothing removes them later. `ForgetTriesEverything`: whatever is left
after `--forget` failed to go and was reported, or was put there meanwhile.
`ReportedLoginIsSaved`: `--save` without an error means session, password and
username are there. `SavesKeepOtherSettings`: a save changes its key alone, if
nobody wrote the file meanwhile; the condition is needed, since the file is read,
changed and written back without a lock, and cut to nothing in between.

**Bounds.** Two processes are enough for every pair of commands; the two keys are
the one a save is about and one it must keep, in either role.

### Answers: pages into answers

| Model | Code |
| --- | --- |
| `books`, `day`, `defects`, `dated` | the portal: rows, today, what is wrong with its history pages, how the service page states dates |
| `Ask`, `OpenForm`, `ReadRows`, `ReadService` | `jupiter_bills`, `jupiter_usage`, `jupiter_payments`: the page (for the usage history a form first, `usage::fetch`), then the service page when there is nothing to list (`empty_is_an_error`, `ledger_covers`) |
| `Snapshot`, `ReadFirst`, `ReadSecond` | `build_snapshot`: home page, then ledger |
| `PendingTotal` | `pending_payment_total`: every pending row that is a credit, called a payment or (`held`) not |
| `PostRow`, `Clear`, `NextDay` | the Town's books, between any two requests |
| `Page`, `rows` | a history page: the numbers of the newest rows it lists, whose days and kinds (but for a credit that clears) stay as they were read |

The scrapers appear as what they make of a page: all rows, none (`gone`: the table
or the form's button is not found), rows
without an amount or a description (`blank`), rows whose credits do not read as
credits (`unsigned`), dates of an unknown form (`undated`).

**What the run shows.** `NoneMeansNone`: "none" is never said of a page that held
what was asked for, unless the service page stated no date, or the two dates
could not be compared. `ErrorsHaveACause`: a page refused had a defect, held no
row, or something happened between the two requests, or shared its oldest row's
day with the payment it lost from view. `SnapshotOwes`: what a snapshot reports
as owed is never short by a credit counted as pending and as cleared; that rests
on the order of its two requests. A pending credit is taken off whether it is called a
payment or not, while `jupiter_payments` lists only those that are.

**Bounds.** Three rows with a page of two lets a row fall off the page; two days
are the day of the oldest row and one after it. An amount is one unit: the
properties tell amounts apart by how often they are counted.

### Documents: statements by position and by date

| Model | Code |
| --- | --- |
| `issued`, `web`, `form` | the portal: bills, Web Bill links, and whether its dates parse |
| `picked`, `List`, `Guess` | what the user took from `bills list` or `documents list` under `--since` and `--until`, or made up |
| `Start`, `Fetch`, `Choose`, `Refuse`, `Download`, `DownloadFails`, `Write`, `WriteFails` | `bills get N`, `documents download`, by date, latest or `--all` |
| `dest`, `place` | `-o`, and whether nothing, a file or a directory is at that path |
| `FileOf`, `Opens`, `MakesDir` | `resolve_doc_path` and the paths of `bills_get` and `documents_download_all`, `fs::write`, `create_dir_all` |
| `items`, `todo`, `saved` | the history read, and the rows of it that are chosen and not yet saved, and saved |
| `files` | what this command wrote, by name; a write truncates first |
| `Issue`, `Publish`, `Kill` | bills and links at any moment; the user's interrupt |

A set of row numbers stands for a list of rows: the code goes through them in the
order of the history, and `First` is the next.

**What the run shows.** `PositionsHold`: `bills get N` of a listed position saves
that bill, however the list was filtered, unless a bill was issued since.
`DatesHold`: a listed date saves that statement, unless another bill has its date
and is newer, or can be downloaded when the one listed cannot. `SavedAsReported`:
`--all` saves a prefix of its rows, and each is in its file but where two bills of
one date share a file, which holds the later written. That is also so with `-o`,
since the directory is not a file when the batch begins to write; a path that an earlier
`download -o` made a file makes a batch to it fail. Neither a lapsed session's login page
nor half a write is ever a success.

**Bounds.** Three bills on two dates are a pair that shares one and a third that
does not, on either side of it, with links in every order. What an earlier command
wrote is read by none, so `files` is reset with the command; `place` is not, since
it decides what the next command writes.

### Payment: whose bill is paid

| Model | Code |
| --- | --- |
| `flag`, `wanted` | `-c` and `-a` of `pay`, and `Portal.active_account`: `--account` or `default_account` |
| `live`, `active` | the portal's session, as in ScopedRead |
| `Start`, `Ready`, `Choose`, `Select`, `ReadHome`, `ReadNames` | `resolve_pay_target`: `ready`, `account_summary` with the list of accounts for the name, `derive_pay_numbers` |
| `GetForm`, `Post`, `Accepted`, `Valid` | `payment::quote`: the public form, posted without a session, and the heuristic that reads the answer |
| `SelectElsewhere`, `Lapse` | other processes and the portal, which may also answer a selection and select nothing |
| `HomeNumbers` | `parse_account_summary`: one text states both numbers, so a page has both or neither |
| `moved` | history: the session was elsewhere than selected when the home page was read |

**What the run shows.** `NamedIsPaid`: the account paid is the one named by `-a`,
`--account` or `default_account`; without `-a`, another process that selects between
the command's selection and its look at the home page has its own account paid,
and that is the one exception, next to a selection the portal ignored
(SECURITY.md:55-56 has it otherwise, see below). `ShownIsPaid`: the name and address beside a quote are
those of the account it is for. They are looked up by the home page's number, while
the number paid may be the flag's; so when the session was moved they can be
another's, and then, for a quote called valid, another account of the same customer.
`ValidIsAccepted`: a quote is called valid only for a pair that the Town has. What
it rests on is that an answer without an amount and a hosted page is never valid: not
a form that came back because its button was missing, nor a refusal in words that
`looks_like_error` does not know.

**Bounds.** Two accounts of one customer and one of another, all linked, and one that
is not: the pairs a home page and a flag can make are those that fit and those that
do not. A name is the account whose name it is.

### Dates: today and past due

| Model | Code |
| --- | --- |
| `CivilFromDays` and the operators it is made of | `civil_from_days` (date.rs) |
| `IsLeap`, `MonthLength`, `NextDate`, `NewYear` | the calendar, from which nothing of the code is taken |
| `day`, `utc`, `Midnight` | the system clock, in UTC |
| `town`, `TownMidnight` | the Town's date, which follows some hours later |
| `due`, `owed`, `stated`, `late`, `Issue`, `Pay` | the Town's bill, whether its date is in a known form, and the days counted since it was due |
| `ReadHome`, `Report`, `End` | `build_snapshot`: the home page, then three more pages, then `today()` and `is_past_due` |

**What the run shows.** `TodayIsCounted`: the date that `civil_from_days` makes of a
number of days is the one a calendar counts from day to day. `PastDueIsLate`: a
snapshot says past due exactly when the Town has counted past the due date of a bill
that is owed; and, which is the whole of the difference between UTC and the Town,
on the evening of the due date. A midnight or a payment between the
pages of the snapshot is in the model.

**Bounds.** The five years are those around which the leap rule differs: 1970, the year
before 2000, a plain stretch, the year before 2100, and the last of an era; 425 days
pass a whole year and the February after it. `MaxLate` cuts a bill off two days after it
was due. The theorem is for every year and every number of days.

## The proofs

TLC checks the instances above; the theorems hold for every value of the constants.

| Theorem | Property | For every |
| --- | --- | --- |
| `ScopedReadProofs!Typed` | `TypeOK /\ Placed` | number of servers, threads, commands, accounts, pages; every set of faults |
| `ScopedReadProofs!Confirmed` | `AnswersAreConfirmed` | the same |
| `ScopedReadProofs!Undisturbed`, `Returned` | `HInv`, `LeavesAsFound` | the same |
| `ScopedReadProofs!CommandsRead` | `CommandReadsItsAccount` | the same |
| `ScopedReadProofs!Rests` | `SessionRests` | the same |
| `ScopedReadProofs!Implements` | `ReadsAreAtomic` | number of threads, accounts and pages, for one server with no commands and no faults but `broken` and `lapse` (`Exclusive`) |
| `ScopedReadProofs!Excludes`, `Finite` | `Serialized`, `CallsDescend` (stated with the proofs) | number of servers, threads, commands, accounts, pages; every set of faults |
| `ScopedReadProofs!Told` | `StrandingIsTold` | the same |
| `ScopedReadProofs!AsAsked` | `AnswersAreOfTheAccountAsked` | number of threads, accounts and pages and every set of faults, for one server with no commands (`OneServer`) |
| `SignInProofs!Owned`, `Configured` | `SInv`, `AnswersAsConfigured` | number of logins, passwords, servers, commands, sessions; every environment |
| `SignInProofs!Refusals` | `RefusalsNeedAChange` | the same |
| `SignInProofs!LoggedOut` | `LogoutHolds` | the same |
| `SignInProofs!AutoOff` | `AutoLoginOffHolds` | the same |
| `SignInProofs!Lasts` | `LogoutLasts` (stated with the proofs) | the same |
| `TransportProofs!Typed`, `Bounded` | `TypeOK`, `SendsAreBounded` | limits, hosts, cookies |
| `TransportProofs!Saved` | `SavedIsSent` | the same |
| `TransportProofs!Home`, `Encrypted` | `FormsGoHome`, `NeverInTheClear` | the same |
| `TransportProofs!Finite` | `ExchangesDescend` (stated with the proofs) | the same |
| `PaymentProofs!Typed`, `PaidAsNamed`, `Shown`, `ValidQuotes` | `TypeOK`, `NamedIsPaid`, `ShownIsPaid`, `ValidIsAccepted` | accounts and customers |
| `DatesProofs!Typed`, `Counted`, `Late` | `TypeOK`, `TodayIsCounted`, `PastDueIsLate` | first year, number of days, days past due |
| `DocumentsProofs!Typed`, `Positions`, `ByDate`, `Reported` | `TypeOK`, `PositionsHold`, `DatesHold`, `SavedAsReported` | bills, dates, paths |
| `SettingsProofs!Typed`, `NeverHalf`, `NoTemps`, `Forgets`, `LoginSaved`, `OthersKept` | `TypeOK`, `SessionIsWhole`, `TempsAreRemoved`, `ForgetTriesEverything`, `ReportedLoginIsSaved`, `SavesKeepOtherSettings` | number of commands; every `./tojfl.toml` |
| `AnswersProofs!Typed`, `NoneIsNone`, `Errors`, `Owes` | `TypeOK`, `NoneMeansNone`, `ErrorsHaveACause`, `SnapshotOwes` | number of days and rows, length of a page |

They assume the `ASSUME` of each module (`ScopedReadAssumption`, `SignInAssumption`,
`TransportAssumption`, `PaymentAssumption`, `DatesAssumption`, `DocumentsAssumption`,
`SettingsAssumption`, `AnswersAssumption`) and nothing else: that the values which stand for "none" are not
members of the sets they are told apart from, that at least one page is read and at
least one attempt made, that the bounds are numbers, and that the base URL is one
`Client::new` accepts. `Implements` and `AsAsked` have a hypothesis of
their own, named in the table.

Every property of a run that is expected to pass is proved, but for the two of
liveness. Two of the statements of the documentation that a run refutes are proved
under a condition which says what they lack: `AsAsked` (one server alone) and `Lasts`
(no call is left that opened the session before the logout, and no server was given
`$TOJFL_PASSWORD`).

**ScopedRead.** `AnswersAreConfirmed` is a statement about one step, `Confirm`,
and needs what `Tracked` says of the whole read. While nobody has changed the
account (`drift` 0) the pages seen are of the account the session is on, and,
if the selection went as asked, that is the one asked for; after one change
(`drift` 1) the session is on another. So a look that finds the account asked for
means no change, or at least two. A login page among those seen means that the
session is dead, and then the look finds no account. The account changes by
others' `Postback` only, which moves the `drift` of every reader; that step is
lemma work of its own. `Placed` ties `pc` to the other variables. `IInv` is the
conjunction, and `HInv` adds `Homeward`, where the session is during an undisturbed
call: on the account found until the selection, on the one asked for after it. With
it each way a call ends is one case of `Returned`. `CommandsRead` has its own
invariant `CInv`: a command that selected, and was not disturbed, is on its account
(`Follows`). `Rests` is about all calls together: `RInv` says that while `rest` is
held a call before its selection knows where the session is, that a call which is away
found it on `rest` if it is there now, and that a session which is elsewhere was put
there by a call that found it on `rest` and will select it back (`Homing`). There may
be several calls away at once, of several servers, and still one way home.

**AtomicReads.** The mapping reads the abstract account off the call that is away. For
it to be a function of the state at most one call may be away, which is the mutex
(`OneWorks`). `RunInv` adds to `IInv` what each step of a call knows (`Course`): that
the session is on the account found before the selection and on the one asked for after
it, what it has seen, and whether it has its answer. Each step is then a lemma: `Confirm`
is `ReadAll`, a failure is `Refuse`, a way back that failed is `Strand`, and all else
of a call in progress leaves the abstract state as it is, the selections included.

**The mutex and the end of a call.** `Serialized` says that a call works exactly while
it holds its server's mutex, and is inductive with `IInv`; each step of a call either
takes it further with the mutex as it was, or ends it and gives the mutex up
(`CallAdvances`). `Left` counts the requests a call may yet make, and falls at each of
its steps: at most two looks, a selection and a way back of three requests each, the
read's `ready` and its pages. So a call has its answer after `Pages + 9` requests, which is `CallsEnd` but
for the fairness that a request ends. `AsAsked` needs the mutex: with no other process,
and no other call of its own server between its requests, `drift` stays 0 (`Still`), and
what `Confirmed` leaves open cannot have happened.

**SignIn.** `AnswersAsConfigured` is not inductive: that an answer is of the
login configured follows from the cookies being its login's (`ServerOwned`), which
at `Open` follows from the file being truthful (`FileOwned`), which at `Save`
follows from what the process holds (`SigningIn`). A session that the portal
opens anew must not belong to cookies somebody still holds, or every `Belongs`
breaks: hence `Opens`'s guards, which say that the portal does not hand out a
session identifier twice. `SigningIn` also carries `MaySignIn` from the decision
to the request and the save, from which `LoggedOut` and `AutoOff` follow, and `Lasts`:
`SignedOut` (no session file, no call before its sign-in that has seen one, no
`$TOJFL_PASSWORD`) is kept by every step but the user's own login.
`RefusalsNeedAChange` counts, and its invariant `Allowed` is an account of what may
yet be refused: a server has seen no more refusals than changes, plus one, less those
that it may still meet with no change (`MayRefuse`, `MayRefuseTwice`), because the
credential it would send is wrong and is not the one in `Refused`. A refusal uses one
up, and only a change makes one. A call may also make one itself, by saving a login the
file did not name, and the change it counts then pays for it (`FilePays`, `PostPays`).

**Transport.** `TInv` says `sends <= hops * MaxAttempts + attempt`; the bound
follows by two lemmas on products. `Home` and `Encrypted` follow from `Placed`
and the guards of `Start` and `Redirect`. `Saved` needs that whatever reqwest's jar
hears, the map hears at the same step or `apart` says so, over all hosts of a chain.
`Left` gives two steps to each request that may yet be sent, over the redirects and
attempts that are left; a retry uses up an attempt, a redirect a round of them.

**Payment.** `PInv` carries the account named to the quote: the session is on it when
the home page is read, and the page's account is it afterwards, unless `moved`; the
numbers sent are the flags' and, where there is none, the page's; the name shown is
the page's account's. What a valid quote was accepted for is its last conjunct.

**Dates.** `Counted` is arithmetic on eras of 400 years. Each quotient of
`civil_from_days` is characterised by the bounds it is between (`Quotients`,
`EraParts`, `YearParts`, `MonthParts`), which leaves linear arithmetic; from those
follow what the next day is in its month, its year and its era, leap days included
(`NextDayOfMonth`, `NextDayOfYear`, `EraEnds`), and that is the calendar's `NextDate`.
`DatesInv` adds that `utc` is `town` or the day after it, and that `late` counts
exactly when the due date is before `town`; `Late` then needs that no date lies
between a day and the next.

**Documents.** `DInv` says what the rows still to do and those saved are of the history
read, that the saved ones come before those still to do, and that the file of each
holds it or a later row of its date. `First`, the least row of a set, is characterised
once and used as a fact.

**Settings.** `SetInv` has a conjunct for each property that says what holds on the way
to it: `Temps` where a temporary file is, `Forgotten` and `Stored` what a logout and a
login have dealt with so far, or failed at, or another changed, and `Fresh` that a
config loaded from disk is still the one there. Lemma `OthersKeep` says what another's
step leaves of them and is used in every action.

**Answers.** A page, a count and a balance are cardinalities of sets of row numbers, and
what a step does to them follows from one lemma each: a row posted is one more of its
kind (`Posted`), a credit that clears one pending less and one cleared more (`Cleared`), a
page holds the newest rows, so that what is wanted and not on it is older than all it
holds (`PageIsNewest`). `AnsInv` adds to the properties that later rows are of no earlier
day (`Ordered`), that nothing has happened between the pages of a call before its first
is read (`Begun`), what a call knows that goes on to the service page (`Asking`), and what
a balance that was read says of the books since (`Owing`). `ErrorsHaveACause` then is
about the date of a row older than the page: it reaches the page only on the day of the
oldest row there, which exists since the numbers are well founded (`LeastExists`).
`SnapshotOwes` is `Owing` less the pending rows listed, which are at most all of them
and, on a plain page that shows every row, exactly those (`PendingListed`).

**Only model-checked.** `CallsEnd` and `ExchangesEnd`: liveness under fairness is
out of TLAPS's reach. Their safety halves are the two theorems `Finite` and `Excludes`.

## Where the documentation and the code part

Each of these runs checks a statement of the documentation or of a comment, and TLC
gives a behaviour of the code that does not keep it.

* `scoped_aba`: SECURITY.md:46-48 promises an error "if another process switched
  the account during the read". `scoped` (mcp.rs:330) compares the account after
  the read with the one asked for, and a change that was undone by then is not
  seen. Another server's tool call does just that: it selects and selects back.
* `sign_in_logout`: README.md:85, "after `tojfl auth logout` you stay logged
  out". A call that opened the session before the logout may sign in after it and
  save the file (lib.rs:239).
* `transport_twice`: client.rs:34-36, "a retry can't double-process a request". A form
  that timed out may have reached the portal, or reach it later, and is sent again
  (client.rs:168). The comment at client.rs:227 says why that does no harm: the portal's
  POSTs are idempotent.

The others that came up while modelling have no run of their own; in the
models they are what a condition of a property leaves out.

* SECURITY.md:51-54 has "a line on the server's stderr" as the trace of a portal that
  "fails between selecting and selecting back". `accounts::select` does not look at the
  page its postback returns (accounts.rs:46), so a portal that answers with one and
  selects nothing leaves the session there without a word. (`Unmade` in
  `StrandingIsTold`.)
* The comment at mcp.rs:310-311 says that a session "that moved during the read is
  another process's choice, so it stays". A read that fails selects the first account
  back whoever moved the session meanwhile (mcp.rs:329). (`raced` in `LeavesAsFound`.)
* SECURITY.md:55-56 says of a login with `default_account` set that "every command then
  selects it on each run, and none of this reaches them". `ready` selects once
  (lib.rs:247), and what is read after another process's selection is of that process's
  account: a command's rows, and the account that `pay` without `-a` quotes and opens
  (commands.rs:1154). (`drift` in `CommandReadsItsAccount`, `moved` in `NamedIsPaid`.)
* auth.rs:8-9 has "Success is detected by receiving a forms-auth cookie and no longer
  being shown the login form". Any page that is not the form is a success
  (auth.rs:50-57), and cookies that sign nobody in are saved as the session. (`Junk` in
  SignIn.)
* `Session::clear` deletes the file with "no error if absent" (session.rs:77). It looks,
  and then removes (session.rs:80), so one of two logouts at once fails on a file that
  is gone. (`Unlink` in Settings.)
* A selection whose answer is lost ends the call with nothing selected back
  (mcp.rs:320), against mcp.rs:17-20. The call fails, so it is told. (`slipped`.)
* SECURITY.md:37-38 can be read as if every refused password were remembered;
  `Refused` holds the last (mcp.rs:157). (`RefusalsNeedAChange` counts changes,
  not passwords: one that is set, replaced and set again is sent again.)
* The saved cookies are those of every host that answered (client.rs:144), and not those
  of an answer that was retried, so the next process may start from another cookie than
  this one sent. (`apart` in `SavedIsSent`.)
* `config set` run beside a `./tojfl.toml` saves the config it loaded, that file's host
  included, to the OS config, which a server then reads; SECURITY.md:20 says that a server
  does not read the file itself. (`from` in `SavesKeepOtherSettings`.)
* date.rs:102-104 holds that UTC for the Town's time does not matter. On the evening of
  the due date a bill is past due already. (`PastDueIsLate`.)
* `usage list --since` and `--until` (README.md:111,134) keep every row of a monthly
  history: its periods, such as "Jun 2026", are in no form `date::parse` knows, and a row
  without a date is kept (commands.rs:845,932). docs/portal.md:138-141 has them as days.
  (The usage list itself is not modelled.)

## What is not modelled

* **Parsing of HTML and forms** (`scrape.rs`, `dnn.rs`): functions of long
  texts, without state. Their outcomes are in Answers (`defects`), ScopedRead (`unstated`,
  `ignored`) and Payment (`Valid`). `model.rs` holds the records they fill.
* **Sign-in during a scoped read.** ScopedRead's session stays lapsed, SignIn's
  call is one request; the composition would multiply the two without a property
  that needs both.
* **Delays.** Backoff and timeouts are choices, not clocks.
* **`--limit`**, which shortens what is shown; sorting and the `since` of the external
  tool crate; `jupiter_summary` and the account tools, which pass pages on.
* **`usage stats`, `compare`, `meters` and the lists of transactions**: sums, filters and
  tables of the rows of one page (commands.rs:825-1125).
* **The meter-read and comparison forms** of `usage.rs`, which no tool uses.
* **Argument parsing, tables, JSON, update checks, completions**: no state.
* **The MCP framework** (`pk_cli_mcp`), which is not in this repository.

## Plan

The order was: what several processes do to one session (ScopedRead with its
abstract specification, then SignIn), what a failing network does (Transport), what
is left on disk (Settings), what the user is told (Answers, Documents), what is paid
(Payment) and when it was due (Dates). All eight are written, checked and proved about.

What is left:

1. Sign-in in the middle of a scoped read: a session that is opened anew is on the
   login's first account, whatever the call had selected.
2. `jupiter_summary`, whose pages are read in turn as those of a snapshot are.
