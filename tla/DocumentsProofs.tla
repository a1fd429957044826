--------------------------- MODULE DocumentsProofs ---------------------------
(* Theorems about Documents, for every set of dates and number of bills.     *)
EXTENDS Documents, TLAPS

\* The history has a row for each bill, the newest first.
LEMMA HistoryRows ==
  ASSUME TypeOK
  PROVE  /\ History \in Seq(Listing)
         /\ Len(History) = Len(issued)
         /\ DOMAIN History = 1..Len(issued)
         /\ \A i \in 1..Len(issued) :
              /\ History[i].bill = Len(issued) + 1 - i
              /\ History[i].date = issued[Len(issued) + 1 - i]
<1>1. Len(issued) \in Nat /\ Len(issued) <= MaxBills /\ MaxBills \in Nat
  BY DocumentsAssumption DEF TypeOK
<1>2. \A i \in 1..Len(issued) : Len(issued) + 1 - i \in 1..Len(issued)
  BY <1>1
<1>3. \A i \in 1..Len(issued) :
        [bill |-> Len(issued) + 1 - i, date |-> issued[Len(issued) + 1 - i],
         link |-> Len(issued) + 1 - i \in web] \in Listing
  BY <1>1, <1>2 DEF TypeOK, Listing, Bills
<1>4. History = [i \in 1..Len(issued) |->
                   [bill |-> Len(issued) + 1 - i, date |-> issued[Len(issued) + 1 - i],
                    link |-> Len(issued) + 1 - i \in web]]
  BY DEF History
<1>5. History \in [1..Len(issued) -> Listing]
  BY <1>3, <1>4
<1>6. History \in Seq(Listing) /\ Len(History) = Len(issued)
  BY <1>1, <1>5
<1> QED
  BY <1>4, <1>6

\* A date's name is one of the two it can have, and no two dates share it.
LEMMA IsoNames ==
  ASSUME NEW d \in Dates
  PROVE  IsoDate(d) \in Names /\ \A e \in Dates : IsoDate(d) = IsoDate(e) => d = e
  BY DEF IsoDate, Names

\* A row's file is one of the files there can be.
LEMMA FileOfRow ==
  ASSUME NEW b \in Listing, dest \in {"none", "path", "stdout"}
  PROVE  FileOf(b) \in Files
<1>1. b.date \in Dates
  BY DEF Listing
<1>2. IsoDate(b.date) \in Names /\ <<"raw", b.date>> \in Names
  BY <1>1, IsoNames DEF Names
<1> QED
  BY <1>2 DEF FileOf, Files

\* In a batch, a file stands for one date.
LEMMA BatchFiles ==
  ASSUME NEW b \in Listing, NEW c \in Listing, job = "all", dest \in {"none", "path"},
         FileOf(b) = FileOf(c)
  PROVE  b.date = c.date
<1>1. b.date \in Dates /\ c.date \in Dates
  BY DEF Listing
<1>2. IsoDate(b.date) = IsoDate(c.date)
  BY DEF FileOf
<1> QED
  BY <1>1, <1>2, IsoNames

\* A row's file stays the same while the path of -o does not turn into a directory.
LEMMA FilesStay ==
  ASSUME UNCHANGED <<form, job, dest>>, place' = "dir" <=> place = "dir"
  PROVE  \A b \in Listing : FileOf(b)' = FileOf(b)
  BY DEF FileOf, IsoDate, Parse

-----------------------------------------------------------------------------
\* What the command has read: each row is a bill's, the newest first.
Fetched ==
  pc \in {"choose", "download", "write", "done"} =>
    \A i \in DOMAIN items :
      /\ items[i].bill = Len(items) + 1 - i
      /\ items[i].bill \in DOMAIN issued
      /\ items[i].date = issued[items[i].bill]

\* What the user named is a bill of that date, and of that position until one is issued.
Picked ==
  picked.bill # NoBill =>
    /\ picked.bill \in DOMAIN issued
    /\ picked.id = IsoDate(issued[picked.bill])
    /\ pc \in {"idle", "fetch"} /\ ~moved => picked.bill = Len(issued) + 1 - picked.pos
    /\ pc \in {"choose", "download", "write", "done"} /\ items # <<>> /\ ~moved =>
         picked.bill = Len(items) + 1 - picked.pos

\* The rows chosen are those saved and, after them, those that are not yet.
Saving ==
  /\ pc = "idle" <=> job = "none"
  /\ pc \in {"idle", "fetch"} => items = <<>>
  /\ pc \in {"idle", "fetch", "choose"} => todo = {} /\ saved = {}
  /\ saved # {} \/ todo # {} \/ outcome = "ok" => todo \cup saved = Chosen
  /\ \A i \in saved, j \in todo : i < j
  /\ outcome = "ok" => pc = "done" /\ todo = {}
  /\ pc # "done" => outcome = "none"
  /\ pc = "write" => Accepts(body)
  /\ job = "all" /\ (saved # {} \/ todo # {}) => dest # "stdout"

\* The row being written.
Current(i) == pc = "write" /\ i \in First(todo)

\* What is in the files of the rows saved.
Kept ==
  /\ outcome # "failed" => \A i \in saved :
       \/ files[FileOf(items[i])].holds = "pdf"
       \/ \E k \in todo : Current(k) /\ FileOf(items[k]) = FileOf(items[i])
  /\ job = "all" => \A i \in saved :
       \/ files[FileOf(items[i])].bill = items[i].bill
       \/ \E l \in Chosen : l > i /\ items[l].date = items[i].date
  /\ \A k \in todo : Current(k) => files[FileOf(items[k])].bill = items[k].bill

\* The inductive invariant.
DInv == TypeOK /\ Fetched /\ Picked /\ Saving /\ Kept

\* It holds at the start.
LEMMA InitDInv == Init => DInv
<1> SUFFICES ASSUME Init PROVE DInv
  OBVIOUS
<1> USE DocumentsAssumption
<1>1. /\ issued = <<>> /\ items = <<>> /\ todo = {} /\ saved = {} /\ pc = "idle" /\ job = "none"
      /\ picked = NoPick /\ outcome = "none"
  BY DEF Init
<1>2. NoPick \in [bill : Bills \cup {NoBill}, pos : 0..MaxBills, id : Names] /\ NoPick.bill = NoBill
  BY DEF NoPick, Names
<1>3. TypeOK
  <2>1. /\ issued \in Seq(Dates) /\ Len(issued) <= MaxBills /\ web \subseteq DOMAIN issued
        /\ items \in Seq(Listing) /\ Len(items) <= MaxBills
        /\ todo \subseteq DOMAIN items /\ saved \subseteq DOMAIN items
    BY <1>1 DEF Init
  <2>2. files \in [Files -> Contents \cup {NoFile}]
    BY DEF Init
  <2> QED
    BY <1>1, <1>2, <2>1, <2>2 DEF Init, TypeOK, Jobs
<1>4. Fetched /\ Picked /\ Saving /\ Kept
  BY <1>1, <1>2 DEF Fetched, Picked, Saving, Kept
<1> QED
  BY <1>3, <1>4 DEF DInv

\* The portal's bills change what the command has read in nothing but its age.
LEMMA PortalKeeps ==
  ASSUME DInv, Issue \/ Publish
  PROVE  DInv'
<1> USE DocumentsAssumption DEF DInv
<1>0. Len(issued) \in Nat /\ issued \in Seq(Dates) /\ DOMAIN issued = 1..Len(issued)
  BY DEF TypeOK
<1>1. /\ UNCHANGED <<form, place, files, picked, pc, job, dest, items, todo, body, saved, outcome>>
      /\ Len(issued') <= MaxBills /\ issued' \in Seq(Dates)
      /\ \A b \in DOMAIN issued : b \in DOMAIN issued' /\ issued'[b] = issued[b]
      /\ web' \subseteq DOMAIN issued'
      /\ moved' \in BOOLEAN /\ (moved => moved')
      /\ pc \in {"idle", "fetch"} /\ ~moved' => Len(issued') = Len(issued)
  <2>1. CASE Issue
    <3>1. PICK d \in Dates : issued' = Append(issued, d)
      BY <2>1 DEF Issue
    <3>2. Len(issued') = Len(issued) + 1 /\ issued' \in Seq(Dates)
      BY <1>0, <3>1
    <3>3. DOMAIN issued' = 1..(Len(issued) + 1) /\ \A b \in 1..Len(issued) : issued'[b] = issued[b]
      BY <1>0, <3>1
    <3>4. web' \subseteq DOMAIN issued'
      BY <1>0, <2>1, <3>2, <3>3 DEF Issue, TypeOK
    <3>5. Len(issued) < MaxBills /\ moved' = (moved \/ pc \in {"idle", "fetch"})
      BY <2>1 DEF Issue
    <3>6. moved' \in BOOLEAN /\ (moved => moved') /\ (pc \in {"idle", "fetch"} => moved')
      BY <3>5
    <3>7. UNCHANGED <<form, place, files, picked, pc, job, dest, items, todo, body, saved, outcome>>
      BY <2>1 DEF Issue, command
    <3>8. \A b \in DOMAIN issued : b \in DOMAIN issued' /\ issued'[b] = issued[b]
      BY <1>0, <3>3
    <3>9. Len(issued') <= MaxBills
      BY <1>0, <3>2, <3>5
    <3> QED
      BY <3>2, <3>4, <3>6, <3>7, <3>8, <3>9
  <2>2. CASE Publish
    BY <1>0, <2>2 DEF Publish, TypeOK, command
  <2> QED
    BY <2>1, <2>2
<1>2. TypeOK'
  BY <1>1 DEF TypeOK
<1>3. Fetched'
  BY <1>1 DEF Fetched
<1>5. Picked'
  <2> SUFFICES ASSUME picked.bill # NoBill
               PROVE  /\ picked.bill \in DOMAIN issued'
                      /\ picked.id = IsoDate(issued'[picked.bill])
                      /\ pc \in {"idle", "fetch"} /\ ~moved' =>
                           picked.bill = Len(issued') + 1 - picked.pos
                      /\ pc \in {"choose", "download", "write", "done"} /\ items # <<>> /\ ~moved' =>
                           picked.bill = Len(items) + 1 - picked.pos
    BY <1>1 DEF Picked, IsoDate, Parse
  <2> QED
    BY <1>1 DEF Picked
<1>4. Saving' /\ Kept'
  <2>1. Chosen' = Chosen
    BY <1>1 DEF Chosen, First, Dated, WithLink, IsoDate, Parse
  <2>2. \A i : FileOf(items[i])' = FileOf(items[i])
    BY <1>1 DEF FileOf, IsoDate, Parse
  <2>3. \A i : Current(i)' <=> Current(i)
    BY <1>1 DEF Current, First
  <2>4. Saving'
    BY <1>1, <2>1 DEF Saving, Accepts
  <2> QED
    BY <1>1, <2>1, <2>2, <2>3, <2>4 DEF Kept
<1> QED
  BY <1>2, <1>3, <1>4, <1>5

\* A list names a bill by its place in the history, and by its date.
LEMMA ListKeeps ==
  ASSUME DInv, List \/ Guess
  PROVE  DInv'
<1> USE DEF DInv
<1>1. /\ pc = "idle" /\ UNCHANGED <<portal, place, files, pc, command>>
      /\ saved = {} /\ todo = {} /\ outcome = "none" /\ job = "none"
  BY DEF List, Guess, Saving
<1>2. /\ picked' \in [bill : Bills \cup {NoBill}, pos : 0..MaxBills, id : Names]
      /\ moved' \in BOOLEAN
      /\ picked'.bill # NoBill =>
           /\ picked'.bill \in DOMAIN issued
           /\ picked'.id = IsoDate(issued[picked'.bill])
           /\ picked'.bill = Len(issued) + 1 - picked'.pos
  <2>1. CASE List
    <3>1. PICK i \in DOMAIN History :
            picked' = [bill |-> History[i].bill, pos |-> i, id |-> IsoDate(History[i].date)]
      BY <2>1 DEF List, Position
    <3>2. /\ Len(issued) \in Nat /\ Len(issued) <= MaxBills /\ i \in 1..Len(issued)
          /\ DOMAIN issued = 1..Len(issued)
          /\ History[i].bill = Len(issued) + 1 - i
          /\ History[i].date = issued[Len(issued) + 1 - i]
          /\ issued \in Seq(Dates) /\ MaxBills \in Nat
      BY <3>1, HistoryRows, DocumentsAssumption DEF TypeOK
    <3>3. Len(issued) + 1 - i \in 1..Len(issued) /\ i \in 0..MaxBills
          /\ 1..Len(issued) \subseteq Bills
      BY <3>2 DEF Bills
    <3>4. issued[Len(issued) + 1 - i] \in Dates
      BY <3>2, <3>3
    <3>5. IsoDate(History[i].date) \in Names
      BY <3>2, <3>4, IsoNames
    <3>6. moved' = FALSE
      BY <2>1 DEF List
    <3>7. Len(issued) + 1 - (Len(issued) + 1 - i) = i
      BY <3>2
    <3>8. picked'.bill = Len(issued) + 1 - i /\ picked'.pos = i
          /\ picked'.id = IsoDate(issued[Len(issued) + 1 - i])
      BY <3>1, <3>2
    <3> QED
      BY <3>1, <3>2, <3>3, <3>5, <3>6, <3>8
  <2>2. CASE Guess
    <3>1. NoPick.bill = NoBill /\ NoPick.pos \in 0..MaxBills /\ NoPick.id \in Names
      BY DocumentsAssumption DEF NoPick, Names
    <3>2. NoPick = [bill |-> NoPick.bill, pos |-> NoPick.pos, id |-> NoPick.id]
      BY DEF NoPick
    <3>3. CASE \E n \in 1..MaxBills : picked' = [NoPick EXCEPT !.pos = n]
      <4>1. PICK n \in 1..MaxBills : picked' = [NoPick EXCEPT !.pos = n]
        BY <3>3
      <4>2. picked' = [bill |-> NoBill, pos |-> n, id |-> NoPick.id] /\ n \in 0..MaxBills
        BY <3>1, <3>2, <4>1, DocumentsAssumption
      <4> QED
        BY <2>2, <3>1, <4>2 DEF Guess, TypeOK
    <3>4. CASE \E id \in Names : picked' = [NoPick EXCEPT !.id = id]
      <4>1. PICK id \in Names : picked' = [NoPick EXCEPT !.id = id]
        BY <3>4
      <4>2. picked' = [bill |-> NoBill, pos |-> NoPick.pos, id |-> id]
        BY <3>1, <3>2, <4>1
      <4> QED
        BY <2>2, <3>1, <4>2 DEF Guess, TypeOK
    <3> QED
      BY <2>2, <3>3, <3>4 DEF Guess
  <2> QED
    BY <2>1, <2>2
<1>3. TypeOK'
  BY <1>1, <1>2 DEF TypeOK, portal, command
<1>4. Fetched' /\ Saving' /\ Kept'
  BY <1>1 DEF portal, command, Fetched, Saving, Kept, Accepts
<1>5. Picked'
  BY <1>1, <1>2 DEF Picked, portal, command, IsoDate, Parse
<1> QED
  BY <1>3, <1>4, <1>5

\* A command starts with nothing read.
LEMMA StartKeeps ==
  ASSUME DInv, NEW j \in Jobs \ {"none"}, Start(j)
  PROVE  DInv'
<1> USE DEF DInv
<1>1. /\ pc = "idle" /\ pc' = "fetch" /\ job' = j
      /\ dest' \in {"none", "path", "stdout"}
      /\ UNCHANGED <<portal, place, files, picked, items, todo, body, saved, outcome, moved>>
      /\ saved = {} /\ todo = {} /\ outcome = "none" /\ items = <<>>
  BY DEF Start, Saving
<1>2. TypeOK'
  BY <1>1 DEF TypeOK, portal
<1>3. Fetched' /\ Saving' /\ Kept'
  BY <1>1 DEF Fetched, Saving, Kept, portal, Jobs
<1>4. Picked'
  BY <1>1 DEF Picked, portal, IsoDate, Parse
<1> QED
  BY <1>2, <1>3, <1>4

\* What it reads is the history of that moment.
LEMMA FetchKeeps ==
  ASSUME DInv, Fetch
  PROVE  DInv'
<1> USE DEF DInv
<1>1. /\ pc = "fetch" /\ pc' \in {"choose", "done"}
      /\ UNCHANGED <<form, issued, web, place, files, picked, job, dest, todo, body, saved, moved>>
      /\ saved = {} /\ todo = {} /\ job # "none" /\ items = <<>> /\ outcome = "none"
      /\ \/ items' = History /\ pc' = "choose" /\ outcome' = "none"
         \/ items' = <<>> /\ pc' = "done" /\ outcome' = "failed"
  BY DEF Fetch, Saving, Fail, portal
<1>2. /\ History \in Seq(Listing) /\ Len(History) = Len(issued) /\ Len(issued) \in Nat
      /\ Len(issued) <= MaxBills /\ DOMAIN History = 1..Len(issued)
      /\ DOMAIN issued = 1..Len(issued)
      /\ \A i \in 1..Len(issued) :
           /\ History[i].bill = Len(issued) + 1 - i
           /\ History[i].date = issued[Len(issued) + 1 - i]
  BY HistoryRows DEF TypeOK
<1>3. items' \in Seq(Listing) /\ Len(items') <= MaxBills
  <2>1. CASE items' = History
    BY <1>2, <2>1
  <2>2. CASE items' = <<>>
    BY <2>2, DocumentsAssumption
  <2> QED
    BY <1>1, <2>1, <2>2
<1>4. TypeOK'
  BY <1>1, <1>3 DEF TypeOK
<1>5. \A i \in DOMAIN items' :
        /\ items'[i].bill = Len(items') + 1 - i
        /\ items'[i].bill \in DOMAIN issued
        /\ items'[i].date = issued[items'[i].bill]
  <2>1. CASE items' = History
    BY <1>2, <2>1
  <2>2. CASE items' = <<>>
    BY <2>2
  <2> QED
    BY <1>1, <2>1, <2>2
<1>6. Fetched'
  BY <1>1, <1>5 DEF Fetched
<1>7. Picked'
  BY <1>1, <1>2 DEF Picked, IsoDate, Parse
<1>8. Saving' /\ Kept'
  BY <1>1 DEF Saving, Kept
<1> QED
  BY <1>4, <1>6, <1>7, <1>8

\* The rows chosen are rows of the history read, one of them unless all are asked for.
LEMMA ChosenRows ==
  ASSUME TypeOK, job \in Jobs \ {"none"}
  PROVE  /\ Chosen \subseteq DOMAIN items
         /\ job # "all" => \A i \in Chosen, k \in Chosen : i = k
<1>1. DOMAIN items \subseteq Nat
  BY DEF TypeOK
<1>2. \A S \in SUBSET DOMAIN items :
        First(S) \subseteq DOMAIN items /\ \A i \in First(S), k \in First(S) : i = k
  BY <1>1 DEF First
<1>3. Dated(picked.id) \in SUBSET DOMAIN items /\ WithLink \in SUBSET DOMAIN items
  BY DEF Dated, WithLink
<1> QED
  BY <1>2, <1>3 DEF Chosen, Jobs

\* The choice, and the refusal of an output that cannot be.
LEMMA ChooseKeeps ==
  ASSUME DInv, Choose \/ Refuse
  PROVE  DInv'
<1> USE DEF DInv
<1>1. /\ pc = "choose" /\ pc' \in {"download", "done"}
      /\ UNCHANGED <<form, issued, web, files, picked, job, dest, items, body, saved, moved>>
      /\ saved = {} /\ todo = {} /\ job \in Jobs \ {"none"} /\ outcome = "none"
      /\ place' \in {"nothing", "file", "dir"}
  BY DEF Choose, Refuse, Saving, Fail, portal, TypeOK
<1>2. Chosen' = Chosen
  BY <1>1 DEF Chosen, First, Dated, WithLink, IsoDate, Parse
<1>3. \/ todo' = {} /\ outcome' \in {"none", "failed"} /\ pc' = "done" /\ outcome' = "failed"
      \/ /\ todo' = Chosen
         /\ job = "all" => dest # "stdout"
         /\ \/ outcome' = "failed" /\ pc' = "done"
            \/ outcome' = "ok" /\ pc' = "done" /\ todo' = {}
            \/ outcome' = "none" /\ pc' = "download"
  <2>1. CASE Choose
    BY <1>1, <2>1 DEF Choose, Fail
  <2>2. CASE Refuse
    BY <1>1, <2>2 DEF Refuse, Fail
  <2> QED
    BY <2>1, <2>2
<1>4. TypeOK'
  BY <1>1, <1>3, ChosenRows DEF TypeOK
<1>5. Fetched' /\ Picked'
  BY <1>1 DEF Fetched, Picked, IsoDate, Parse
<1>6. Saving'
  BY <1>1, <1>2, <1>3 DEF Saving
<1>7. Kept'
  BY <1>1, <1>3 DEF Kept, Current
<1> QED
  BY <1>4, <1>5, <1>6, <1>7

\* A file is opened for the first row that is left: it is a later one than each that is
\* saved, so that in a batch it takes the file of none but one of its own date.
LEMMA DownloadKeeps ==
  ASSUME DInv, Download
  PROVE  DInv'
<1> USE DEF DInv
<1>1. PICK i \in First(todo) :
        /\ body' \in {b \in Bodies : Accepts(b)}
        /\ files' = [files EXCEPT ![FileOf(items[i])] = [bill |-> items[i].bill, holds |-> "part"]]
        /\ place' = IF FileOf(items[i]) = OutPath THEN "file" ELSE place
        /\ Opens(FileOf(items[i]))
  BY DEF Download
<1>2. /\ pc = "download" /\ pc' = "write"
      /\ UNCHANGED <<form, issued, web, picked, job, dest, items, todo, saved, outcome, moved>>
  BY DEF Download, portal
<1>3. i \in todo /\ (\A k \in First(todo) : k = i) /\ i \in DOMAIN items
  BY <1>1 DEF First, TypeOK
<1>4. \A k \in DOMAIN items : items[k] \in Listing
  BY DEF TypeOK
<1>5. \A k \in DOMAIN items : FileOf(items[k]) \in Files
  BY <1>4, FileOfRow DEF TypeOK
<1>6. \A k \in DOMAIN items : FileOf(items[k])' = FileOf(items[k])
  <2>1. place' = "dir" <=> place = "dir"
    BY <1>1 DEF Opens
  <2> QED
    BY <1>2, <1>4, <2>1, FilesStay
<1>7. /\ files'[FileOf(items[i])] = [bill |-> items[i].bill, holds |-> "part"]
      /\ \A f \in Files : f # FileOf(items[i]) => files'[f] = files[f]
  BY <1>1, <1>3, <1>5 DEF TypeOK
<1>8. Chosen' = Chosen
  BY <1>2 DEF Chosen, First, Dated, WithLink, IsoDate, Parse
<1>9. TypeOK'
  <2>1. [bill |-> items[i].bill, holds |-> "part"] \in Contents
    BY <1>3, <1>4 DEF Listing, Contents
  <2>2. files' \in [Files -> Contents \cup {NoFile}]
    BY <1>1, <2>1 DEF TypeOK
  <2> QED
    BY <1>1, <1>2, <2>2 DEF TypeOK
<1>10. Fetched' /\ Picked'
  BY <1>2 DEF Fetched, Picked, IsoDate, Parse
<1>11. Saving'
  BY <1>1, <1>2, <1>8 DEF Saving, Accepts
<1>12. Current(i)'
  BY <1>1, <1>2 DEF Current, First
<1>13. \A k \in todo : Current(k)' => k = i
  BY <1>2, <1>3 DEF Current, First
<1>14. saved \subseteq DOMAIN items /\ outcome = "none" /\ outcome' = "none"
  BY <1>2 DEF TypeOK, Saving
<1>15. \A l \in saved :
         \/ files'[FileOf(items[l])].holds = "pdf"
         \/ FileOf(items[i]) = FileOf(items[l])
  BY <1>2, <1>5, <1>7, <1>14 DEF Kept, Current
<1>16. job = "all" => \A l \in saved :
         \/ files'[FileOf(items[l])].bill = items[l].bill
         \/ \E k \in Chosen : k > l /\ items[k].date = items[l].date
  <2> SUFFICES ASSUME job = "all", NEW l \in saved
               PROVE  \/ files'[FileOf(items[l])].bill = items[l].bill
                      \/ \E k \in Chosen : k > l /\ items[k].date = items[l].date
    OBVIOUS
  <2>1. CASE FileOf(items[l]) = FileOf(items[i])
    <3>1. dest \in {"none", "path"}
      BY <1>3 DEF TypeOK, Saving
    <3>2. items[l].date = items[i].date
      BY <1>3, <1>4, <1>14, <2>1, <3>1, BatchFiles
    <3>3. i \in Chosen
      BY <1>3 DEF Saving
    <3>4. l < i
      BY <1>3 DEF Saving
    <3>5. l \in Nat /\ i \in Nat
      BY <1>3, <1>14 DEF TypeOK
    <3> QED
      BY <3>2, <3>3, <3>4, <3>5
  <2>2. CASE FileOf(items[l]) # FileOf(items[i])
    BY <1>5, <1>7, <1>14, <2>2 DEF Kept
  <2> QED
    BY <2>1, <2>2
<1>17. Kept'
  <2>1. outcome' # "failed" => \A l \in saved' :
          \/ files'[FileOf(items[l])'].holds = "pdf"
          \/ \E k \in todo' : Current(k)' /\ FileOf(items[k])' = FileOf(items[l])'
    BY <1>2, <1>3, <1>6, <1>12, <1>14, <1>15
  <2>2. job' = "all" => \A l \in saved' :
          \/ files'[FileOf(items[l])'].bill = items'[l].bill
          \/ \E k \in Chosen' : k > l /\ items'[k].date = items'[l].date
    BY <1>2, <1>6, <1>8, <1>14, <1>16
  <2>3. \A k \in todo' : Current(k)' => files'[FileOf(items[k])'].bill = items'[k].bill
    BY <1>2, <1>3, <1>6, <1>7, <1>13
  <2> QED
    BY <2>1, <2>2, <2>3 DEF Kept
<1> QED
  BY <1>9, <1>10, <1>11, <1>17

\* The row written is saved, and its file holds what the portal answered.
LEMMA WriteKeeps ==
  ASSUME DInv, Write
  PROVE  DInv'
<1> USE DEF DInv
<1>1. PICK i \in First(todo) :
        /\ files' = [files EXCEPT ![FileOf(items[i])].holds = body]
        /\ saved' = saved \cup {i}
        /\ todo' = todo \ {i}
  BY DEF Write
<1>2. /\ pc = "write" /\ pc' \in {"download", "done"}
      /\ UNCHANGED <<form, issued, web, place, picked, job, dest, items, moved>>
      /\ body' = "none" /\ Accepts(body)
      /\ \/ outcome' = "ok" /\ pc' = "done" /\ todo' = {}
         \/ outcome' = "none" /\ pc' = "download"
      /\ outcome = "none"
  BY DEF Write, portal, Saving
<1>3. /\ i \in todo /\ i \in DOMAIN items /\ i \in Nat
      /\ \A k \in todo : i <= k
      /\ \A k \in First(todo) : k = i
      /\ todo \subseteq Nat /\ saved \subseteq Nat /\ saved \subseteq DOMAIN items
      /\ todo \subseteq DOMAIN items
  BY <1>1 DEF First, TypeOK
<1>4. \A k \in DOMAIN items : items[k] \in Listing
  BY DEF TypeOK
<1>5. \A k \in DOMAIN items : FileOf(items[k]) \in Files
  BY <1>4, FileOfRow DEF TypeOK
<1>6. \A k \in DOMAIN items : FileOf(items[k])' = FileOf(items[k])
  BY <1>2, <1>4, FilesStay
<1>7. body = "pdf"
  BY <1>2 DEF Accepts
<1>8. Chosen' = Chosen
  BY <1>2 DEF Chosen, First, Dated, WithLink, IsoDate, Parse
<1>9. files' \in [Files -> Contents \cup {NoFile}] /\ \A f \in Files :
        /\ files'[f].bill = files[f].bill
        /\ files[f].holds = "pdf" => files'[f].holds = "pdf"
        /\ f = FileOf(items[i]) => files'[f].holds = "pdf"
  <2> DEFINE g == FileOf(items[i])
  <2>1. g \in Files
    BY <1>3, <1>5
  <2>2. files \in [Files -> Contents \cup {NoFile}] /\ files[g] \in Contents \cup {NoFile}
    BY <2>1 DEF TypeOK
  <2>3. files' = [files EXCEPT ![g] = [files[g] EXCEPT !.holds = "pdf"]]
    BY <1>1, <1>7
  <2>4. files[g] \in [bill : Bills \cup {NoBill}, holds : Bodies \cup {"part"}]
    BY <2>2 DEF Contents, NoFile
  <2>5. /\ [files[g] EXCEPT !.holds = "pdf"].bill = files[g].bill
        /\ [files[g] EXCEPT !.holds = "pdf"].holds = "pdf"
    BY <2>4
  <2>6. files[g].bill \in Bills
    <3>1. files[g].bill = items[i].bill
      BY <1>1, <1>2, <1>3 DEF Kept, Current
    <3>2. items[i] \in Listing
      BY <1>3, <1>4
    <3> QED
      BY <3>1, <3>2 DEF Listing
  <2>7. [files[g] EXCEPT !.holds = "pdf"] \in Contents
    BY <2>4, <2>6 DEF Contents, Bodies
  <2> HIDE DEF g
  <2>8. files' \in [Files -> Contents \cup {NoFile}]
    BY <2>2, <2>3, <2>7
  <2>9. \A f \in Files :
          /\ files'[f].bill = files[f].bill
          /\ files[f].holds = "pdf" => files'[f].holds = "pdf"
          /\ f = g => files'[f].holds = "pdf"
    BY <2>1, <2>2, <2>3, <2>5
  <2> QED
    BY <2>8, <2>9 DEF g
<1>10. TypeOK'
  BY <1>1, <1>2, <1>3, <1>9 DEF TypeOK
<1>11. Fetched' /\ Picked'
  BY <1>2 DEF Fetched, Picked, IsoDate, Parse
<1>12. Saving'
  <2>1. todo \cup saved = Chosen /\ todo' \cup saved' = Chosen
    BY <1>1, <1>3 DEF Saving
  <2>2. \A l \in saved', k \in todo' : l < k
    BY <1>1, <1>3 DEF Saving
  <2> QED
    BY <1>1, <1>2, <1>3, <1>8, <2>1, <2>2 DEF Saving
<1>13. \A l \in saved' : files'[FileOf(items[l])].holds = "pdf"
  <2> SUFFICES ASSUME NEW l \in saved' PROVE files'[FileOf(items[l])].holds = "pdf"
    OBVIOUS
  <2>1. CASE l = i
    BY <1>3, <1>5, <1>9, <2>1
  <2>2. CASE l \in saved
    <3>1. FileOf(items[l]) \in Files
      BY <1>3, <1>5, <2>2
    <3>2. files[FileOf(items[l])].holds = "pdf" \/ FileOf(items[l]) = FileOf(items[i])
      BY <1>2, <1>3, <2>2 DEF Kept, Current
    <3> QED
      BY <1>9, <3>1, <3>2
  <2> QED
    BY <1>1, <2>1, <2>2
<1>14. job = "all" => \A l \in saved' :
         \/ files'[FileOf(items[l])].bill = items[l].bill
         \/ \E k \in Chosen : k > l /\ items[k].date = items[l].date
  <2> SUFFICES ASSUME job = "all", NEW l \in saved'
               PROVE  \/ files'[FileOf(items[l])].bill = items[l].bill
                      \/ \E k \in Chosen : k > l /\ items[k].date = items[l].date
    OBVIOUS
  <2>1. CASE l = i
    <3>1. files[FileOf(items[i])].bill = items[i].bill
      BY <1>1, <1>2, <1>3 DEF Kept, Current
    <3> QED
      BY <1>3, <1>5, <1>9, <2>1, <3>1
  <2>2. CASE l \in saved
    BY <1>3, <1>5, <1>9, <2>2 DEF Kept
  <2> QED
    BY <1>1, <2>1, <2>2
<1>15. Kept'
  <2>1. \A l \in saved' : l \in DOMAIN items
    BY <1>1, <1>3
  <2>2. \A l \in saved' : files'[FileOf(items[l])'].holds = "pdf"
    BY <1>6, <1>13, <2>1
  <2>3. job' = "all" => \A l \in saved' :
          \/ files'[FileOf(items[l])'].bill = items'[l].bill
          \/ \E k \in Chosen' : k > l /\ items'[k].date = items'[l].date
    BY <1>2, <1>6, <1>8, <1>14, <2>1
  <2>4. \A k : ~Current(k)'
    BY <1>2 DEF Current
  <2> QED
    BY <2>2, <2>3, <2>4 DEF Kept
<1> QED
  BY <1>10, <1>11, <1>12, <1>15

\* A failure leaves the files as they are, and reports one.
LEMMA FailKeeps ==
  ASSUME DInv, DownloadFails \/ WriteFails
  PROVE  DInv'
<1> USE DEF DInv
<1>1. /\ pc \in {"download", "write"} /\ pc' = "done" /\ outcome' = "failed"
      /\ UNCHANGED <<form, issued, web, place, files, picked, job, dest, items, todo, saved, moved>>
      /\ body' \in Bodies \cup {"none"}
  BY DEF DownloadFails, WriteFails, Fail, portal, TypeOK
<1>2. Chosen' = Chosen
  BY <1>1 DEF Chosen, First, Dated, WithLink, IsoDate, Parse
<1>3. \A k : FileOf(items[k])' = FileOf(items[k])
  BY <1>1 DEF FileOf, IsoDate, Parse
<1>4. TypeOK'
  BY <1>1 DEF TypeOK
<1>5. Fetched' /\ Picked'
  BY <1>1 DEF Fetched, Picked, IsoDate, Parse
<1>6. Saving'
  BY <1>1, <1>2 DEF Saving
<1>7. Kept'
  BY <1>1, <1>2, <1>3 DEF Kept, Current
<1> QED
  BY <1>4, <1>5, <1>6, <1>7

\* A command that ends leaves nothing to the next but what is at the path of its -o.
LEMMA ResetKeeps ==
  ASSUME DInv, Exit \/ Kill
  PROVE  DInv'
<1> USE DEF DInv
<1>1. /\ pc' = "idle" /\ job' = "none" /\ dest' = "none" /\ files' = [f \in Files |-> NoFile]
      /\ items' = <<>> /\ todo' = {} /\ body' = "none" /\ saved' = {} /\ outcome' = "none"
      /\ picked' = NoPick /\ moved' = FALSE
      /\ UNCHANGED <<form, issued, web, place>>
  BY DEF Exit, Kill, Reset, portal
<1>2. NoPick \in [bill : Bills \cup {NoBill}, pos : 0..MaxBills, id : Names] /\ NoPick.bill = NoBill
  BY DocumentsAssumption DEF NoPick, Names
<1>3. TypeOK'
  <2>1. items' \in Seq(Listing) /\ Len(items') <= MaxBills
    BY <1>1, DocumentsAssumption
  <2>2. files' \in [Files -> Contents \cup {NoFile}]
    BY <1>1
  <2> QED
    BY <1>1, <1>2, <2>1, <2>2 DEF TypeOK, Jobs
<1>4. Fetched' /\ Picked' /\ Saving' /\ Kept'
  BY <1>1, <1>2 DEF Fetched, Picked, Saving, Kept
<1> QED
  BY <1>3, <1>4

\* Every step keeps the invariant.
LEMMA NextDInv == DInv /\ [Next]_vars => DInv'
<1> SUFFICES ASSUME DInv, [Next]_vars PROVE DInv'
  OBVIOUS
<1>1. CASE Issue \/ Publish
  BY <1>1, PortalKeeps
<1>2. CASE List \/ Guess
  BY <1>2, ListKeeps
<1>3. CASE \E j \in Jobs \ {"none"} : Start(j)
  BY <1>3, StartKeeps
<1>4. CASE Fetch
  BY <1>4, FetchKeeps
<1>5. CASE Choose \/ Refuse
  BY <1>5, ChooseKeeps
<1>6. CASE Download
  BY <1>6, DownloadKeeps
<1>7. CASE Write
  BY <1>7, WriteKeeps
<1>8. CASE DownloadFails \/ WriteFails
  BY <1>8, FailKeeps
<1>9. CASE Exit \/ Kill
  BY <1>9, ResetKeeps
<1>10. CASE UNCHANGED vars
  <2>1. UNCHANGED <<form, issued, web, place, files, picked, pc, job, dest, items, todo, body, saved,
                    outcome, moved>>
    BY <1>10 DEF vars
  <2>2. TypeOK'
    BY <2>1 DEF DInv, TypeOK
  <2>3. Fetched' /\ Picked'
    BY <2>1 DEF DInv, Fetched, Picked, IsoDate, Parse
  <2>4. Chosen' = Chosen
    BY <2>1 DEF Chosen, First, Dated, WithLink, IsoDate, Parse
  <2>5. \A k : FileOf(items[k])' = FileOf(items[k])
    BY <2>1 DEF FileOf, IsoDate, Parse
  <2>6. Saving' /\ Kept'
    BY <2>1, <2>4, <2>5 DEF DInv, Saving, Kept, Current, First, Accepts
  <2> QED
    BY <2>2, <2>3, <2>6 DEF DInv
<1> QED
  BY <1>1, <1>2, <1>3, <1>4, <1>5, <1>6, <1>7, <1>8, <1>9, <1>10 DEF Next

LEMMA AlwaysDInv == Spec => []DInv
  BY InitDInv, NextDInv, PTL DEF Spec

-----------------------------------------------------------------------------
\* The variables keep their types: no sequence of commands, failures and new bills leaves
\* a row that is none of the history read, or a file that is no statement's.
THEOREM Typed == Spec => []TypeOK
<1>1. DInv => TypeOK
  BY DEF DInv
<1> QED
  BY <1>1, AlwaysDInv, PTL

\* The position a list shows names that bill until a bill is issued (Position, Chosen).
THEOREM Positions == Spec => []PositionsHold
<1>1. DInv => PositionsHold
  <2> SUFFICES ASSUME DInv, job = "get", picked.bill # NoBill, ~moved, NEW i \in saved
               PROVE  items[i].bill = picked.bill
    BY DEF PositionsHold
  <2> USE DEF DInv
  <2>1. i \in Chosen /\ pc \in {"choose", "download", "write", "done"}
    BY DEF Saving, TypeOK
  <2>2. i = picked.pos /\ i \in DOMAIN items
    BY <2>1 DEF Chosen
  <2>3. items[i].bill = Len(items) + 1 - i
    BY <2>1, <2>2 DEF Fetched
  <2>4. items # <<>>
    BY <2>2
  <2> QED
    BY <2>1, <2>2, <2>3, <2>4 DEF Picked
<1> QED
  BY <1>1, AlwaysDInv, PTL

\* A statement saved by its date is the one listed, or one of that date that is newer or
\* that alone can be downloaded (find_statement).
THEOREM ByDate == Spec => []DatesHold
<1>1. DInv => DatesHold
  <2> SUFFICES ASSUME DInv, job = "one", NEW i \in saved, items[i].bill # picked.bill
               PROVE  /\ IsoDate(items[i].date) = picked.id
                      /\ items[i].bill > picked.bill \/ \A j \in WithLink : items[j].bill # picked.bill
    BY DEF DatesHold
  <2> USE DEF DInv
  <2>1. i \in First(Dated(picked.id)) /\ pc \in {"choose", "download", "write", "done"}
    BY DEF Saving, Chosen, TypeOK
  <2>2. i \in DOMAIN items /\ IsoDate(items[i].date) = picked.id
    BY <2>1 DEF First, Dated
  <2>3. ASSUME NEW j \in WithLink, items[j].bill = picked.bill
        PROVE  items[i].bill > picked.bill
    <3>1. j \in DOMAIN items /\ items[j].link
      BY <2>3 DEF WithLink
    <3>2. picked.bill # NoBill /\ picked.id = IsoDate(issued[picked.bill])
      <4>1. items[j] \in Listing
        BY <3>1 DEF TypeOK
      <4>2. picked.bill \in Bills
        BY <2>3, <4>1 DEF Listing
      <4>3. picked.bill # NoBill
        BY <4>2, DocumentsAssumption DEF Bills, NoBill
      <4> QED
        BY <4>3 DEF Picked
    <3>3. items[j].date = issued[picked.bill]
      BY <2>1, <2>3, <3>1 DEF Fetched
    <3>4. j \in Dated(picked.id)
      BY <3>1, <3>2, <3>3 DEF Dated
    <3>5. i <= j /\ i # j
      BY <2>1, <2>3, <3>4 DEF First
    <3>6. items[i].bill = Len(items) + 1 - i /\ items[j].bill = Len(items) + 1 - j
      BY <2>1, <2>2, <3>1 DEF Fetched
    <3>7. i \in Nat /\ j \in Nat /\ Len(items) \in Nat
      BY <2>2, <3>1 DEF TypeOK
    <3> QED
      BY <2>3, <3>5, <3>6, <3>7
  <2> QED
    BY <2>2, <2>3
<1> QED
  BY <1>1, AlwaysDInv, PTL

\* A statement a command reports saved is a PDF in its file (download_bill, fs::write),
\* and those a batch reports are the first of its rows (documents_download_all).
THEOREM Reported == Spec => []SavedAsReported
<1>1. ASSUME DInv, pc = "done", outcome = "ok", NEW i \in saved
      PROVE  files[FileOf(items[i])].holds = "pdf"
  BY <1>1 DEF DInv, Kept, Current
<1>2. ASSUME DInv, pc = "done", job = "all"
      PROVE  /\ outcome = "ok" => saved = Chosen
             /\ saved \subseteq Chosen
             /\ \A i \in saved, j \in Chosen : j < i => j \in saved
             /\ \A i \in saved :
                  \/ files[FileOf(items[i])].bill = items[i].bill
                  \/ \E l \in Chosen : l > i /\ items[l].date = items[i].date
  <2> USE <1>2 DEF DInv
  <2>1. saved \subseteq Nat /\ todo \subseteq Nat
    BY DEF TypeOK
  <2>2. outcome = "ok" => saved = Chosen
    BY DEF Saving
  <2>3. saved \subseteq Chosen
    BY DEF Saving
  <2>4. \A i \in saved, j \in Chosen : j < i => j \in saved
    <3> SUFFICES ASSUME NEW i \in saved, NEW j \in Chosen, j < i PROVE j \in saved
      OBVIOUS
    <3>1. todo \cup saved = Chosen
      BY DEF Saving
    <3>2. j \in todo => i < j
      BY DEF Saving
    <3>3. i \in Nat /\ j \in Nat
      BY <2>1, <3>1
    <3>4. j \notin todo
      BY <3>2, <3>3
    <3> QED
      BY <3>1, <3>4
  <2> QED
    BY <2>2, <2>3, <2>4 DEF Kept
<1>3. DInv => SavedAsReported
  BY <1>1, <1>2 DEF SavedAsReported
<1> QED
  BY <1>3, AlwaysDInv, PTL
==============================================================================
