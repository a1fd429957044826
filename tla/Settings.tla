------------------------------ MODULE Settings ------------------------------
(***************************************************************************)
(* The files and keychain items that outlive a command, and the commands   *)
(* that write them: the `config` commands, `auth login [--save]` and       *)
(* `auth logout [--forget]`.  Several run at once, any step can fail, and  *)
(* a process can be killed between two steps.                              *)
(*                                                                         *)
(* config.toml is written in place (Config::save); session.json through a  *)
(* temporary file and a rename (Session::save_to).  A session is           *)
(* abstracted to whether the file holds all of it.                         *)
(***************************************************************************)
EXTENDS Naturals

CONSTANTS
  Procs,     \* the commands running at once
  Username,  \* the login
  Locals,    \* what ./tojfl.toml can hold where the commands run: a subset of
             \* Config \cup {Missing}
  Missing, Empty, Unset

Keys == {"username", "base_url"}  \* two of the settings

\* The values of each; "local" is one that only ./tojfl.toml names.
Values == [username |-> {Unset, Username},
           base_url |-> {Unset, "chosen", "local"}]
Config == {c \in [Keys -> UNION {Values[k] : k \in Keys}] : \A k \in Keys : c[k] \in Values[k]}
Default == [k \in Keys |-> Unset]

Items == {"session", "token", "password"}
Jobs  == {"none", "init", "set", "login", "save", "logout", "forget"}
Steps == {"idle", "signin", "temp", "fill", "rename", "keychain", "truncate", "write",
          "portal", "exists", "unlink", "token", "password", "done"}

ASSUME SettingsAssumption ==
  /\ Locals \subseteq Config \cup {Missing}
  /\ Missing \notin Config
  /\ Empty \notin Config \cup {Missing}
  /\ Unset \notin {Username, "chosen", "local"}

VARIABLES
  osfile,     \* config.toml on the OS config path
  localfile,  \* ./tojfl.toml
  session,    \* session.json: "none", "half" or "whole"
  temp,       \* the temporary file of each process, likewise
  left,       \* whether a process that is gone left its temporary file behind
  keychain,   \* the keychain items there are: "token", "password"
  pc, job,
  value,      \* what a `config set base_url` sets, Unset for an unset
  mine,       \* the config each process loaded, command-line flags applied
  from,       \* where it came from: "flags" when the command line replaced part of it
  failed,     \* the steps of each process that failed, by the item they are about;
              \* "temp" is the removal of its temporary file
  whole,      \* history: the last config.toml written to its end
  meddled     \* history: what others changed since each process started

files == <<osfile, localfile, session, temp, left, keychain>>
own   == <<job, value, mine, from>>
vars  == <<osfile, localfile, session, temp, left, keychain, pc, job, value, mine,
           from, failed, whole, meddled>>

Parts == {"none", "half", "whole"}

TypeOK ==
  /\ osfile \in Config \cup {Missing, Empty}
  /\ localfile \in Locals
  /\ session \in Parts
  /\ temp \in [Procs -> Parts]
  /\ left \in BOOLEAN
  /\ keychain \subseteq {"token", "password"}
  /\ pc \in [Procs -> Steps]
  /\ job \in [Procs -> Jobs]
  /\ value \in [Procs -> Values["base_url"]]
  /\ mine \in [Procs -> Config]
  /\ from \in [Procs -> {"none", "flags", "local", "whole", "empty"}]
  /\ failed \in [Procs -> SUBSET (Items \cup {"config", "signin", "temp"})]
  /\ whole \in Config
  /\ meddled \in [Procs -> SUBSET (Items \cup {"config"})]

Init ==
  /\ osfile = Missing
  /\ localfile \in Locals
  /\ session = "none"
  /\ temp = [p \in Procs |-> "none"]
  /\ left = FALSE
  /\ keychain \in SUBSET {"token"}
  /\ pc = [p \in Procs |-> "idle"]
  /\ job = [p \in Procs |-> "none"]
  /\ value = [p \in Procs |-> Unset]
  /\ mine = [p \in Procs |-> Default]
  /\ from = [p \in Procs |-> "none"]
  /\ failed = [p \in Procs |-> {}]
  /\ whole = Default
  /\ meddled = [p \in Procs |-> {}]

-----------------------------------------------------------------------------
Go(p, at) == pc' = [pc EXCEPT ![p] = at]

\* The step of p about item i failed, and p goes on to `at`.
Fails(p, i, at) == failed' = [failed EXCEPT ![p] = @ \cup {i}] /\ Go(p, at)

\* What the properties below say of a finished job, and so the history keeps.
Watched(j) ==
  CASE j \in {"init", "set"} -> {"config"}
    [] j = "save"            -> {"session", "password", "config"}
    [] j = "forget"          -> Items
    [] OTHER                 -> {}

\* p changed item i under the others.
Changes(p, i) ==
  meddled' = [q \in Procs |-> IF q # p THEN meddled[q] \cup ({i} \cap Watched(job[q]))
                                       ELSE meddled[q]]

\* Mutant of Loaded: the settings on disk are not read back.
NotLoaded == Default

\* Config::load: ./tojfl.toml, else the OS path, else nothing set.  A file cut to
\* nothing parses as nothing set.
Loaded ==
  IF localfile # Missing THEN localfile
  ELSE IF osfile \in Config THEN osfile ELSE Default

Source ==
  IF localfile # Missing THEN "local" ELSE IF osfile = Empty THEN "empty" ELSE "whole"

-----------------------------------------------------------------------------
(* config init, config set and config unset.                               *)

StartSet(p) ==
  /\ pc[p] = "idle"
  /\ \/ job' = [job EXCEPT ![p] = "init"] /\ UNCHANGED value
     \/ /\ job' = [job EXCEPT ![p] = "set"]
        /\ \E v \in {Unset, "chosen"} : value' = [value EXCEPT ![p] = v]
  /\ mine' = [mine EXCEPT ![p] = Loaded]
  /\ from' = [from EXCEPT ![p] = Source]
  /\ Go(p, "truncate")
  /\ UNCHANGED <<files, failed, whole, meddled>>

\* fs::write opens the file, which cuts it to nothing.
Truncate(p) ==
  /\ pc[p] = "truncate"
  /\ \/ /\ osfile' = Empty
        /\ Changes(p, "config")
        /\ Go(p, "write")
        /\ UNCHANGED failed
     \/ Fails(p, "config", "done") /\ UNCHANGED <<osfile, meddled>>
  /\ UNCHANGED <<localfile, session, temp, left, keychain, own, whole>>

\* Mutant of Saved: `config set` writes its value to another key.
SavedElsewhere(p) == [mine[p] EXCEPT !["username"] = value[p]]

\* What p saves: the config it loaded, with the key it is about changed.
Saved(p) ==
  CASE job[p] = "init" -> mine[p]
    [] job[p] = "set"  -> [mine[p] EXCEPT !["base_url"] = value[p]]
    [] OTHER           -> [mine[p] EXCEPT !["username"] = Username]

Write(p) ==
  /\ pc[p] = "write"
  /\ \/ /\ osfile' = Saved(p)
        /\ whole' = Saved(p)
        /\ Changes(p, "config")
        /\ Go(p, "done")
        /\ UNCHANGED failed
     \/ Fails(p, "config", "done") /\ UNCHANGED <<osfile, whole, meddled>>
  /\ UNCHANGED <<localfile, session, temp, left, keychain, own>>

-----------------------------------------------------------------------------
(* auth login.                                                             *)

\* run loads the config and applies the flags before the user types a password.
StartLogin(p) ==
  /\ pc[p] = "idle"
  /\ \E j \in {"login", "save"} : job' = [job EXCEPT ![p] = j]
  /\ \/ mine' = [mine EXCEPT ![p] = Loaded] /\ from' = [from EXCEPT ![p] = Source]
     \/ /\ mine' = [mine EXCEPT ![p] = [Loaded EXCEPT !["base_url"] = "chosen"]]
        /\ from' = [from EXCEPT ![p] = "flags"]
  /\ Go(p, "signin")
  /\ UNCHANGED <<files, value, failed, whole, meddled>>

SignIn(p) ==
  /\ pc[p] = "signin"
  /\ (Go(p, "temp") /\ UNCHANGED failed) \/ Fails(p, "signin", "done")
  /\ UNCHANGED <<files, own, whole, meddled>>

\* Mutant of WriteSession: session.json is written in place.
WriteInPlace(p, part) == session' = part /\ temp' = [temp EXCEPT ![p] = part]

\* write_private writes the process's own temporary file.
WriteSession(p, part) == temp' = [temp EXCEPT ![p] = part] /\ UNCHANGED session

\* Mutant of Removed: the temporary file of a failed save stays.
NotRemoved(p) == temp

\* The temporary file is removed when the save fails.
Removed(p) == [temp EXCEPT ![p] = "none"]

\* Whether the removal fails goes unreported: save_to returns the first error.
SaveFails(p) ==
  /\ \/ temp' = Removed(p) /\ failed' = [failed EXCEPT ![p] = @ \cup {"session"}]
     \/ /\ temp[p] # "none"
        /\ failed' = [failed EXCEPT ![p] = @ \cup {"session", "temp"}]
        /\ UNCHANGED temp
  /\ Go(p, "done")
  /\ UNCHANGED session

OpenTemp(p) ==
  /\ pc[p] = "temp"
  /\ (WriteSession(p, "half") /\ Go(p, "fill") /\ UNCHANGED failed) \/ SaveFails(p)
  /\ UNCHANGED <<osfile, localfile, left, keychain, own, whole, meddled>>

FillTemp(p) ==
  /\ pc[p] = "fill"
  /\ (WriteSession(p, "whole") /\ Go(p, "rename") /\ UNCHANGED failed) \/ SaveFails(p)
  /\ UNCHANGED <<osfile, localfile, left, keychain, own, whole, meddled>>

Rename(p) ==
  /\ pc[p] = "rename"
  /\ \/ /\ session' = temp[p]
        /\ temp' = [temp EXCEPT ![p] = "none"]
        /\ Changes(p, "session")
        /\ Go(p, IF job[p] = "save" THEN "keychain" ELSE "done")
        /\ UNCHANGED failed
     \/ SaveFails(p) /\ UNCHANGED meddled
  /\ UNCHANGED <<osfile, localfile, left, keychain, own, whole>>

\* Mutant of Reports: a keychain failure goes unreported.
ReportsNothing(p, i) == Go(p, "truncate") /\ UNCHANGED failed

\* `context("saving password to keychain")?`.
Reports(p, i) == Fails(p, i, "done")

SetPassword(p) ==
  /\ pc[p] = "keychain"
  /\ \/ /\ keychain' = keychain \cup {"password"}
        /\ Changes(p, "password")
        /\ Go(p, "truncate")
        /\ UNCHANGED failed
     \/ Reports(p, "password") /\ UNCHANGED <<keychain, meddled>>
  /\ UNCHANGED <<osfile, localfile, session, temp, left, own, whole>>

-----------------------------------------------------------------------------
(* auth logout.                                                            *)

StartLogout(p) ==
  /\ pc[p] = "idle"
  /\ \E j \in {"logout", "forget"} : job' = [job EXCEPT ![p] = j]
  /\ Go(p, "portal")
  /\ UNCHANGED <<files, value, mine, from, failed, whole, meddled>>

\* Mutant of AfterSession: a session that could not be cleared ends a --forget.
StopAtFailure(p, cleared) == IF job[p] = "forget" /\ cleared THEN "token" ELSE "done"

\* --forget goes on to the keychain whatever became of the session.
AfterSession(p, cleared) == IF job[p] = "forget" THEN "token" ELSE "done"

\* ctx.portal(), which loads the session and can fail.
MakePortal(p) ==
  /\ pc[p] = "portal"
  /\ \/ Go(p, "exists") /\ UNCHANGED failed
     \/ Fails(p, "session", AfterSession(p, FALSE))
  /\ UNCHANGED <<files, own, whole, meddled>>

\* Session::clear looks whether the file exists, and then removes it.
SessionExists(p) ==
  /\ pc[p] = "exists"
  /\ Go(p, IF session = "none" THEN AfterSession(p, TRUE) ELSE "unlink")
  /\ UNCHANGED <<files, own, failed, whole, meddled>>

Unlink(p) ==
  /\ pc[p] = "unlink"
  /\ \/ /\ session # "none"
        /\ session' = "none"
        /\ Changes(p, "session")
        /\ Go(p, AfterSession(p, TRUE))
        /\ UNCHANGED failed
     \/ Fails(p, "session", AfterSession(p, FALSE)) /\ UNCHANGED <<session, meddled>>
  /\ UNCHANGED <<osfile, localfile, temp, left, keychain, own, whole>>

\* The two deletions of --forget; an item that is not there is no failure.
Forget(p, item, next) ==
  /\ pc[p] = item
  /\ \/ /\ keychain' = keychain \ {item}
        /\ Changes(p, item)
        /\ Go(p, next)
        /\ UNCHANGED failed
     \/ Fails(p, item, next) /\ UNCHANGED <<keychain, meddled>>
  /\ UNCHANGED <<osfile, localfile, session, temp, left, own, whole>>

ForgetToken(p)    == Forget(p, "token", "password")
ForgetPassword(p) == Forget(p, "password", "done")

\* config set-password and config clear-password.
EditPassword(p) ==
  /\ pc[p] = "idle"
  /\ keychain' \in {keychain \cup {"password"}, keychain \ {"password"}}
  /\ Changes(p, "password")
  /\ UNCHANGED <<osfile, localfile, session, temp, left, own, pc, failed, whole>>

-----------------------------------------------------------------------------
\* p is gone.  What it wrote stays, a temporary file too: its name holds p's process
\* id, and no later process removes it.
Ends(p) ==
  /\ Go(p, "idle")
  /\ left' = (left \/ temp[p] # "none")
  /\ temp' = [temp EXCEPT ![p] = "none"]
  /\ job' = [job EXCEPT ![p] = "none"]
  /\ value' = [value EXCEPT ![p] = Unset]
  /\ mine' = [mine EXCEPT ![p] = Default]
  /\ from' = [from EXCEPT ![p] = "none"]
  /\ failed' = [failed EXCEPT ![p] = {}]
  /\ meddled' = [meddled EXCEPT ![p] = {}]
  /\ UNCHANGED <<osfile, localfile, session, keychain, whole>>

Exit(p) == pc[p] = "done" /\ Ends(p)
Kill(p) == pc[p] \notin {"idle", "done"} /\ Ends(p)

Next ==
  \E p \in Procs :
    \/ StartSet(p) \/ Truncate(p) \/ Write(p)
    \/ StartLogin(p) \/ SignIn(p) \/ OpenTemp(p) \/ FillTemp(p) \/ Rename(p) \/ SetPassword(p)
    \/ StartLogout(p) \/ MakePortal(p) \/ SessionExists(p) \/ Unlink(p)
    \/ ForgetToken(p) \/ ForgetPassword(p) \/ EditPassword(p)
    \/ Exit(p) \/ Kill(p)

Spec == Init /\ [][Next]_vars

-----------------------------------------------------------------------------
\* Whoever loads session.json finds all of a session or none, whatever else is
\* being saved, failing or killed (Session::save_to).
SessionIsWhole == session # "half"

\* A copy of the cookies is left beside session.json only by a process killed in its
\* save, or by one that could not remove its file: never by a save that failed, however
\* far it came and whoever else saves (save_to).
TempsAreRemoved ==
  [][left' # left => \E p \in Procs :
       pc'[p] # pc[p] /\ (pc[p] \in {"fill", "rename"} \/ "temp" \in failed[p])]_vars

\* A finished `auth logout --forget` has left none of the session, the token and the
\* password behind, but what it could not remove or what another command put there:
\* no failure keeps it from the rest (finish_forget).
ForgetTriesEverything ==
  \A p \in Procs : pc[p] = "done" /\ job[p] = "forget" =>
    \A i \in Items :
      (i \in keychain \/ (i = "session" /\ session # "none")) => i \in failed[p] \cup meddled[p]

\* A login with --save that reports no failure has left the password and the username
\* where the next silent sign-in finds them, unless another command changed them.
ReportedLoginIsSaved ==
  \A p \in Procs : pc[p] = "done" /\ job[p] = "save" /\ failed[p] = {} =>
    /\ "password" \in keychain \cup meddled[p]
    /\ "config" \notin meddled[p] => osfile # Empty /\ osfile["username"] = Username
    /\ session = "whole" \/ "session" \in meddled[p]

\* A command saves the setting it was asked to and keeps every other, when no other
\* command wrote the file meanwhile and no ./tojfl.toml or flag took its place.
SavesKeepOtherSettings ==
  [][\A p \in Procs :
       /\ pc[p] = "write" /\ osfile' # osfile /\ pc'[p] = "done"
       /\ "config" \notin meddled[p] /\ from[p] = "whole"
       => /\ job[p] \in {"init", "set"} => osfile'["username"] = whole["username"]
          /\ job[p] \in {"init", "save"} => osfile'["base_url"] = whole["base_url"]]_vars
=============================================================================
