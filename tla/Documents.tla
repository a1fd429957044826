----------------------------- MODULE Documents ------------------------------
(***************************************************************************)
(* Statements and their PDFs: what `bills list` and `documents list` show, *)
(* what `bills get <N>`, `documents download <date>` and `documents        *)
(* download --all` then fetch, and which file each is written to, while    *)
(* the Town issues bills and publishes PDFs (commands.rs, Portal::         *)
(* download_bill).                                                         *)
(*                                                                         *)
(* A bill is named by its position, which moves when one is issued, or by  *)
(* its date, which two bills can share.  A file is written in place, and   *)
(* each statement is a request of its own that can fail.  `-o` names one   *)
(* path, which is a file to some commands and a directory to others.       *)
(***************************************************************************)
EXTENDS Integers, Sequences, FiniteSets

CONSTANTS
  Dates,    \* the dates bills are issued on, numbers that grow
  MaxBills  \* how many bills are issued

ASSUME DocumentsAssumption == Dates \subseteq Nat /\ Dates # {} /\ MaxBills \in Nat

Bills == 1..MaxBills  \* in the order they are issued
NoBill == 0
Jobs  == {"none", "get", "one", "latest", "all"}

\* A date as a name: as ISO, or as the portal writes it.  A document's id is one, and
\* so is a file's name, bill-<date>.pdf, which `bills get` takes from the portal's form.
Names    == {"iso", "raw"} \X Dates
Bodies   == {"pdf", "page"}
Contents == [bill : Bills, holds : Bodies \cup {"part"}]
NoFile   == [bill |-> NoBill, holds |-> "part"]

\* The path of -o itself, standard output, and the names in the directory the command
\* runs in or in the one -o names.
OutPath == <<"out">>
Stdout  == <<"-">>
Files   == {OutPath, Stdout} \cup ({"here", "out"} \X Names)

VARIABLES
  form,    \* the portal: it writes its dates in a form date::parse knows, or an odd one
  issued,  \* the date of each bill so far
  web,     \* the bills with a Web Bill link
  place,   \* what is at the path of -o: nothing, a file or a directory
  files,   \* what this command wrote, by name: no command reads what another did
  picked,  \* what the user names: a position or a date, of a bill of an earlier list or not
  pc, job,
  dest,    \* its -o: none, a path, or `-`
  items,   \* the billing history this command read, newest first
  todo,    \* the rows of it that are yet to be saved
  body,    \* what the portal answered for the first of them, the newest
  saved,   \* the rows it reports saved
  outcome, \* "ok", "failed", or "none" while it runs
  moved    \* history: a bill was issued after that list and before this history was read

portal  == <<form, issued, web>>
command == <<job, dest, items, todo, body, saved, outcome>>
vars    == <<form, issued, web, place, files, picked, pc, job, dest, items, todo, body, saved, outcome, moved>>

Listing == [bill : Bills, date : Dates, link : BOOLEAN]

TypeOK ==
  /\ form \in {"known", "odd"}
  /\ issued \in Seq(Dates) /\ Len(issued) <= MaxBills
  /\ web \subseteq DOMAIN issued
  /\ place \in {"nothing", "file", "dir"}
  /\ files \in [Files -> Contents \cup {NoFile}]
  /\ picked \in [bill : Bills \cup {NoBill}, pos : 0..MaxBills, id : Names]
  /\ pc \in {"idle", "fetch", "choose", "download", "write", "done"}
  /\ job \in Jobs
  /\ dest \in {"none", "path", "stdout"}
  /\ items \in Seq(Listing) /\ Len(items) <= MaxBills
  /\ todo \subseteq DOMAIN items /\ saved \subseteq DOMAIN items
  /\ body \in Bodies \cup {"none"}
  /\ outcome \in {"none", "ok", "failed"}
  /\ moved \in BOOLEAN

NoPick == [bill |-> NoBill, pos |-> 0, id |-> <<"raw", CHOOSE d \in Dates : TRUE>>]

Init ==
  /\ form \in {"known", "odd"}
  /\ issued = <<>>
  /\ web = {}
  /\ place \in {"nothing", "file", "dir"}
  /\ files = [f \in Files |-> NoFile]
  /\ picked = NoPick
  /\ pc = "idle"
  /\ job = "none"
  /\ dest = "none"
  /\ items = <<>>
  /\ todo = {}
  /\ body = "none"
  /\ saved = {}
  /\ outcome = "none"
  /\ moved = FALSE

-----------------------------------------------------------------------------
(* The portal.                                                             *)

\* The billing history lists the newest bill first.
History == [i \in 1..Len(issued) |->
              LET b == Len(issued) + 1 - i IN [bill |-> b, date |-> issued[b], link |-> b \in web]]

Issue ==
  /\ Len(issued) < MaxBills
  /\ \E d \in {x \in Dates : \A i \in DOMAIN issued : x >= issued[i]} : issued' = Append(issued, d)
  /\ web' \in {web, web \cup {Len(issued')}}
  /\ moved' = (moved \/ pc \in {"idle", "fetch"})
  /\ UNCHANGED <<form, place, files, picked, pc, command>>

\* "Only some bills expose an eBill": one gets its link later.
Publish ==
  /\ \E b \in DOMAIN issued \ web : web' = web \cup {b}
  /\ UNCHANGED <<form, issued, place, files, picked, pc, command, moved>>

-----------------------------------------------------------------------------
(* The lists.                                                              *)

\* date::parse of a date as the portal writes it.
NoDate   == -1
Parse(d) == IF form = "known" THEN d ELSE NoDate

\* A row whose date does not parse is kept.
InRange(d, since, until) == Parse(d) # NoDate => Parse(d) \in since..until

\* Mutant of IsoDate: a date that does not parse is written all the same.
IsoOfParse(d) == <<"iso", Parse(d)>>

\* iso_date: the text as it came when it does not parse.
IsoDate(d) == <<IF Parse(d) # NoDate THEN "iso" ELSE "raw", d>>

\* Mutant of Position: the position is counted after the filter.
PositionShown(i, since, until) ==
  Cardinality({j \in 1..i : InRange(History[j].date, since, until)})

\* A bill keeps its position in the full history whatever --since and --until drop.
Position(i, since, until) == i

\* bills list and documents list, of which the user takes one row.
List ==
  /\ pc = "idle"
  /\ picked = NoPick
  /\ \E since, until \in Dates : \E i \in DOMAIN History :
       /\ InRange(History[i].date, since, until)
       /\ picked' = [bill |-> History[i].bill, pos |-> Position(i, since, until),
                      id |-> IsoDate(History[i].date)]
  /\ moved' = FALSE
  /\ UNCHANGED <<portal, place, files, pc, command>>

\* A position or a date of the user's own, which may be no bill's.
Guess ==
  /\ pc = "idle"
  /\ picked = NoPick
  /\ \/ \E n \in 1..MaxBills : picked' = [NoPick EXCEPT !.pos = n]
     \/ \E id \in Names : picked' = [NoPick EXCEPT !.id = id]
  /\ UNCHANGED <<portal, place, files, pc, command, moved>>

-----------------------------------------------------------------------------
(* bills get, documents download.                                          *)

Start(j) ==
  /\ pc = "idle"
  /\ job' = j
  /\ dest' \in {"none", "path", "stdout"}
  /\ pc' = "fetch"
  /\ UNCHANGED <<portal, place, files, picked, items, todo, body, saved, outcome, moved>>

Fail == outcome' = "failed" /\ pc' = "done"

\* portal.bills().
Fetch ==
  /\ pc = "fetch"
  /\ \/ items' = History /\ pc' = "choose" /\ UNCHANGED outcome
     \/ Fail /\ UNCHANGED items
  /\ UNCHANGED <<portal, place, files, picked, job, dest, todo, body, saved, moved>>

\* Mutant of Dated: the statement of a date is looked for from that date on.
DatedOrLater(id) == {i \in DOMAIN items : items[i].link /\ items[i].date >= id[2]}

\* find_statement: the downloadable bills of a date, of which the first is taken.
Dated(id) == {i \in DOMAIN items : items[i].link /\ IsoDate(items[i].date) = id}

WithLink == {i \in DOMAIN items : items[i].link}

\* The first row of some, if there is one.
First(rows) == {i \in rows : \A j \in rows : i <= j}

\* The rows the command is to save: the one at the position, the one of the date, the
\* newest that has a link, or every one that has.
Chosen ==
  CASE job = "get"    -> {picked.pos} \cap DOMAIN items
    [] job = "one"    -> First(Dated(picked.id))
    [] job = "latest" -> First(WithLink)
    [] job = "all"    -> WithLink

\* `--all -o D` makes D a directory when nothing is there.
MakesDir == job = "all" /\ dest = "path" /\ place = "nothing"

\* A bill that is not there is an error, and so is one with no link; --all of none is
\* an empty batch.
Choose ==
  /\ pc = "choose"
  /\ job = "all" => dest # "stdout"
  /\ todo' = Chosen
  /\ place' = IF MakesDir THEN "dir" ELSE place
  /\ IF todo' = {} THEN IF job = "all" THEN outcome' = "ok" /\ pc' = "done" ELSE Fail
     ELSE IF \E i \in todo' : ~items[i].link THEN Fail
     ELSE pc' = "download" /\ UNCHANGED outcome
  /\ UNCHANGED <<portal, files, picked, job, dest, items, body, saved, moved>>

\* `-o -` with --all is refused, and with --json; a directory may fail to be made.
Refuse ==
  /\ pc = "choose"
  /\ dest = "stdout" \/ MakesDir
  /\ Fail
  /\ UNCHANGED <<portal, place, files, picked, job, dest, items, todo, body, saved, moved>>

\* Mutant of FileOf: a batch is written to the path of its -o, as one statement is.
FileOfPath(b) == IF dest = "path" THEN OutPath ELSE <<"here", IsoDate(b.date)>>

\* resolve_doc_path, and the paths of bills_get and documents_download_all: -o is the
\* file to `bills get`, the directory to --all, and either to a download of one.
FileOf(b) ==
  LET name == IF job = "get" THEN <<"raw", b.date>> ELSE IsoDate(b.date)
      isFile == job = "get" \/ (job # "all" /\ place # "dir")
  IN CASE dest = "none"   -> <<"here", name>>
       [] dest = "stdout" -> Stdout
       [] dest = "path"   -> IF isFile THEN OutPath ELSE <<"out", name>>

\* fs::write can open the file: a directory is none, and a file has nothing in it.
Opens(f) == IF f = OutPath THEN place # "dir" ELSE f[1] = "out" => place = "dir"

\* download_bill: a body that is no PDF, as the login page is not, is refused.
Accepts(b) == b = "pdf"

\* One request, answered with a PDF, with a page instead, or not at all.  fs::write
\* opens the file, which cuts it to nothing, or cannot.  The newest bill goes first.
Download ==
  /\ pc = "download"
  /\ \E i \in First(todo) : LET f == FileOf(items[i]) IN
       /\ Opens(f)
       /\ body' \in {b \in Bodies : Accepts(b)}
       /\ files' = [files EXCEPT ![f] = [bill |-> items[i].bill, holds |-> "part"]]
       /\ place' = IF f = OutPath THEN "file" ELSE place
  /\ pc' = "write"
  /\ UNCHANGED <<portal, picked, job, dest, items, todo, saved, outcome, moved>>

DownloadFails ==
  /\ pc = "download"
  /\ Fail
  /\ UNCHANGED <<portal, place, files, picked, job, dest, items, todo, body, saved, moved>>

Write ==
  /\ pc = "write"
  /\ \E i \in First(todo) :
       /\ files' = [files EXCEPT ![FileOf(items[i])].holds = body]
       /\ saved' = saved \cup {i}
       /\ todo' = todo \ {i}
  /\ IF todo' = {} THEN outcome' = "ok" /\ pc' = "done"
                   ELSE pc' = "download" /\ UNCHANGED outcome
  /\ body' = "none"
  /\ UNCHANGED <<portal, place, picked, job, dest, items, moved>>

\* A part of the file is there, and nothing tells the next reader.
WriteFails ==
  /\ pc = "write"
  /\ Fail
  /\ body' = "none"
  /\ UNCHANGED <<portal, place, files, picked, job, dest, items, todo, saved, moved>>

Reset ==
  /\ pc' = "idle"
  /\ job' = "none"
  /\ dest' = "none"
  /\ files' = [f \in Files |-> NoFile]
  /\ items' = <<>>
  /\ todo' = {}
  /\ body' = "none"
  /\ saved' = {}
  /\ outcome' = "none"
  /\ picked' = NoPick
  /\ moved' = FALSE
  /\ UNCHANGED <<portal, place>>

Exit == pc = "done" /\ Reset

\* The command is interrupted; what it wrote is of no concern to the next one, but what
\* it left at the path of -o is.
Kill == pc \in {"fetch", "choose", "download", "write"} /\ Reset

Next ==
  \/ Issue \/ Publish \/ List \/ Guess
  \/ (\E j \in Jobs \ {"none"} : Start(j)) \/ Fetch \/ Choose \/ Refuse \/ Download \/ DownloadFails
  \/ Write \/ WriteFails
  \/ Exit \/ Kill

Spec == Init /\ [][Next]_vars

-----------------------------------------------------------------------------
\* `bills get N` of an N some list showed saves the bill listed there, however the list
\* was filtered, unless a bill was issued since (`bills` keeps each position through
\* its filters).
PositionsHold ==
  job = "get" /\ picked.bill # NoBill /\ ~moved => \A i \in saved : items[i].bill = picked.bill

\* `documents download D` of a listed D saves that statement or none, whatever was issued
\* since, unless another bill has its date: one that is newer, or that can be downloaded
\* where the one listed cannot yet (find_statement).
DatesHold ==
  job = "one" => \A i \in saved :
    items[i].bill = picked.bill \/
      /\ IsoDate(items[i].date) = picked.id
      /\ items[i].bill > picked.bill \/ \A j \in WithLink : items[j].bill # picked.bill

\* What a download reports saved is a PDF in the file it names: neither half a write nor
\* the page of a lapsed session is a success.  What `documents download --all` reports
\* is in its file, but where a later row of the batch has the same date and so the
\* same file, and is the first of the rows it chose, in their order: all of them when it
\* reports success, and those before the first that failed otherwise.
SavedAsReported ==
  pc = "done" =>
    /\ outcome = "ok" => \A i \in saved : files[FileOf(items[i])].holds = "pdf"
    /\ job = "all" =>
         /\ outcome = "ok" => saved = Chosen
         /\ saved \subseteq Chosen
         /\ \A i \in saved, j \in Chosen : j < i => j \in saved
         /\ \A i \in saved :
              \/ files[FileOf(items[i])].bill = items[i].bill
              \/ \E l \in Chosen : l > i /\ items[l].date = items[i].date
=============================================================================
