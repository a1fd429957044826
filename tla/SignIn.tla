------------------------------- MODULE SignIn -------------------------------
(***************************************************************************)
(* Who signs in to the portal, with which credential, and when.            *)
(*                                                                         *)
(* MCP servers and commands share session.json, the config file and the    *)
(* keychain, and each keeps a copy of what it read.  A tool call of a      *)
(* server (LivePortal::read, mcp.rs) and a command that refreshes a lapsed *)
(* session (ensure_authenticated, lib.rs) take the same steps with         *)
(* different gates; the user signs in and out and edits the rest at any    *)
(* moment.  A server's calls are one process: its mutex lets one through   *)
(* at a time (module ScopedRead).                                          *)
(*                                                                         *)
(* The processes talk to one base URL; a session for another, which        *)
(* Portal::new does not take, is Foreign.                                  *)
(***************************************************************************)
EXTENDS Naturals

CONSTANTS
  Users, Passwords,
  Servers,        \* MCP servers, which remember a refused password
  Commands,       \* commands, which refresh through the SDK
  Environments,   \* what $TOJFL_USERNAME and $TOJFL_PASSWORD may be for each process
  Configs,        \* the configs the user may write
  Sids,           \* the sessions in use at once (a bound)
  MaxChanges,     \* how many changes the user and the portal add to, and past which no
                  \* call begins (a bound: two logins can take the file from each other
                  \* for ever)
  Faults,         \* what can go wrong, a subset of FaultKinds
  NoUser, NoPassword, NoFile,
  Foreign,        \* a session file for another base URL, or without cookies
  Junk            \* cookies the portal never honours

\* "outage":    a request gets no answer
\* "errorpage": the sign-in is answered with a page that has no login form
\* "disk":      session.json cannot be written
FaultKinds == {"outage", "errorpage", "disk"}

Procs == Servers \cup Commands

Config == [user : Users \cup {NoUser}, auto : BOOLEAN, password : Passwords \cup {NoPassword}]
NoConfig == [user |-> NoUser, auto |-> TRUE, password |-> NoPassword]

ASSUME SignInAssumption ==
  /\ Faults \subseteq FaultKinds
  /\ MaxChanges \in Nat
  /\ NoUser \notin Users
  /\ NoPassword \notin Passwords
  /\ Environments \subseteq
       [Procs -> [user : Users \cup {NoUser}, password : Passwords \cup {NoPassword}]]
  /\ Configs \subseteq Config
  /\ Junk \notin Sids
  /\ Servers \cap Commands = {}
  /\ {NoFile, Foreign} \cap [sid : Sids \cup {Junk}, user : Users] = {}
  /\ NoFile # Foreign

VARIABLES
  accepts,   \* the password the portal takes for each user
  owner,     \* the user each session was opened for
  alive,     \* the sessions the portal honours
  file,      \* session.json
  stored,    \* the password in the keychain
  cfg,       \* the config file: username, auto_login and password
  env,       \* the environment of each process, as it was started
  refused,   \* Refused of each server: the last credential it saw refused
  pc,
  mine,      \* the config each process read, its $TOJFL_USERNAME applied
  had,       \* the processes that found a saved session
  jar,       \* the cookies each process holds
  who,       \* Portal.username of each process
  pass,      \* the password each process resolved
  answer,    \* the login that answered, NoUser for an error
  changes,   \* how often credentials changed: acts of the user and the portal,
             \* and saves of a login that session.json did not name
  refusals   \* history: how many refusals each server saw

disk   == <<file, stored, cfg>>
portal == <<accepts, owner, alive>>
local  == <<mine, had, jar, who, pass, answer>>
vars   == <<accepts, owner, alive, file, stored, cfg, env, refused, pc, mine, had, jar, who,
            pass, answer, changes, refusals>>

Saved  == [sid : Sids \cup {Junk}, user : Users]
Cred   == Users \X Passwords
Steps  == {"idle", "open", "try", "resolve", "post", "save", "retry", "done"}

TypeOK ==
  /\ accepts \in [Users -> Passwords]
  /\ owner \in [Sids -> Users \cup {NoUser}]
  /\ alive \subseteq {s \in Sids : owner[s] # NoUser}
  /\ file \in Saved \cup {NoFile, Foreign}
  /\ stored \in Passwords \cup {NoPassword}
  /\ cfg \in Config
  /\ env \in Environments
  /\ refused \in [Servers -> Cred \cup {<<>>}]
  /\ pc \in [Procs -> Steps]
  /\ mine \in [Procs -> Config]
  /\ had \subseteq Procs
  /\ jar \in [Procs -> Sids \cup {Junk}]
  /\ who \in [Procs -> Users \cup {NoUser}]
  /\ pass \in [Procs -> Passwords \cup {NoPassword}]
  /\ answer \in [Procs -> Users \cup {NoUser}]
  /\ changes \in Nat
  /\ refusals \in [Servers -> Nat]

Init ==
  /\ \E p \in Passwords : accepts = [u \in Users |-> p]
  /\ owner = [s \in Sids |-> NoUser]
  /\ alive = {}
  /\ file = NoFile
  /\ cfg \in {c \in Configs : c.auto}
  /\ IF cfg.user = NoUser \/ cfg.password # NoPassword
       THEN stored = NoPassword ELSE stored \in Passwords
  /\ env \in Environments
  /\ refused = [s \in Servers |-> <<>>]
  /\ pc = [p \in Procs |-> "idle"]
  /\ mine = [p \in Procs |-> NoConfig]
  /\ had = {}
  /\ jar = [p \in Procs |-> Junk]
  /\ who = [p \in Procs |-> NoUser]
  /\ pass = [p \in Procs |-> NoPassword]
  /\ answer = [p \in Procs |-> NoUser]
  /\ changes = 0
  /\ refusals = [s \in Servers |-> 0]

-----------------------------------------------------------------------------
Go(p, at) == pc' = [pc EXCEPT ![p] = at]

Fails(p) == Go(p, "done") /\ answer' = [answer EXCEPT ![p] = NoUser]

Outage(p) == "outage" \in Faults /\ Fails(p)

\* The config, read afresh by every call (LivePortal::config, Config::load).
Loaded(p) ==
  IF env[p].user = NoUser THEN cfg ELSE [cfg EXCEPT !.user = env[p].user]

Begin(p) ==
  /\ pc[p] = "idle"
  /\ changes <= MaxChanges
  /\ mine' = [mine EXCEPT ![p] = Loaded(p)]
  /\ Go(p, "open")
  /\ UNCHANGED <<portal, disk, refused, had, jar, who, pass, answer, changes, env, refusals>>

\* Mutant of IsAnotherLogin: the saved cookies are used whoever they are for.
NeverAnotherLogin(p) == FALSE

\* The saved session was made for another login than the one configured.
IsAnotherLogin(p) ==
  file \in Saved /\ mine[p].user \notin {NoUser, file.user}

\* Portal::new, and in a server without_session instead when the saved session
\* is another login's.
Open(p) ==
  /\ pc[p] = "open"
  /\ had' = IF file \in Saved THEN had \cup {p} ELSE had
  /\ LET taken == file \in Saved /\ ~(p \in Servers /\ IsAnotherLogin(p)) IN
     /\ jar' = [jar EXCEPT ![p] = IF taken THEN file.sid ELSE Junk]
     /\ who' = [who EXCEPT ![p] = IF taken /\ mine[p].user = NoUser
                                    THEN file.user ELSE mine[p].user]
  /\ Go(p, "try")
  /\ UNCHANGED <<portal, disk, refused, mine, pass, answer, changes, env, refusals>>

\* Mutants of MaySignIn: without the saved session, and without auto_login.
MaySignInAlways(p) == mine[p].auto
MaySignInSilently(p) == p \in had \/ (p \in Servers /\ env[p].password # NoPassword)

\* may_sign_in and should_refresh.
MaySignIn(p) ==
  mine[p].auto /\ (p \in had \/ (p \in Servers /\ env[p].password # NoPassword))

\* The session answers as the login it was opened for.
Answered(p) ==
  /\ jar[p] \in alive
  /\ answer' = [answer EXCEPT ![p] = owner[jar[p]]]
  /\ Go(p, "done")

\* The call with the cookies at hand.
Try(p) ==
  /\ pc[p] = "try"
  /\ \/ Answered(p)
     \/ jar[p] \notin alive /\ MaySignIn(p) /\ Go(p, "resolve") /\ UNCHANGED answer
     \/ jar[p] \notin alive /\ ~MaySignIn(p) /\ Fails(p)
     \/ Outage(p)
  /\ UNCHANGED <<portal, disk, refused, mine, had, jar, who, pass, changes, env, refusals>>

\* The username a sign-in uses: a command's does not come from the session.
LoginUser(p) == IF p \in Servers THEN who[p] ELSE mine[p].user

\* The variable before the keychain, and the keychain before the config at hand.
PasswordWith(p, config) ==
  IF env[p].password # NoPassword THEN env[p].password
  ELSE IF stored # NoPassword THEN stored ELSE config.password

FoundPassword(p) == PasswordWith(p, mine[p])

\* Mutant of Remembered: the server forgets what was refused.
NotRemembered(p) == FALSE

\* The server's memory says that the portal refused this credential.
Remembered(p) == p \in Servers /\ refused[p] = <<LoginUser(p), FoundPassword(p)>>

\* username(), resolve_password, and the check of Refused::sign_in.
Resolve(p) ==
  /\ pc[p] = "resolve"
  /\ pass' = [pass EXCEPT ![p] = FoundPassword(p)]
  /\ IF \/ LoginUser(p) = NoUser
        \/ FoundPassword(p) = NoPassword
        \/ Remembered(p)
       THEN Fails(p)
       ELSE Go(p, "post") /\ UNCHANGED answer
  /\ UNCHANGED <<portal, disk, refused, mine, had, jar, who, changes, env, refusals>>

\* The portal opens session s for user u, one that nobody but the process that
\* signs in (none of `others`) still holds the cookies of.
Opens(s, u, others) ==
  /\ s \notin alive
  /\ ~(file \in Saved /\ file.sid = s)
  /\ \A q \in others : jar[q] # s
  /\ owner' = [owner EXCEPT ![s] = u]
  /\ alive' = alive \cup {s}
  /\ UNCHANGED accepts

\* auth::login.  The portal takes the password, or shows the form again; or
\* there is no answer, which a server does not remember, though the portal may have
\* opened a session or refused the password unseen; or an error page, which passes
\* for success because it shows no form.
Post(p) ==
  LET u == LoginUser(p)
      right == accepts[u] = pass[p] IN
  /\ pc[p] = "post"
  /\ \/ /\ right
        /\ \E s \in Sids : Opens(s, u, Procs \ {p}) /\ jar' = [jar EXCEPT ![p] = s]
        /\ Go(p, "save")
        /\ UNCHANGED <<refused, answer, refusals>>
     \/ /\ ~right
        /\ Fails(p)
        /\ IF p \in Servers
             THEN /\ refused' = [refused EXCEPT ![p] = <<u, pass[p]>>]
                  /\ refusals' = [refusals EXCEPT ![p] = @ + 1]
             ELSE UNCHANGED <<refused, refusals>>
        /\ UNCHANGED <<portal, jar>>
     \/ /\ "errorpage" \in Faults
        /\ jar' = [jar EXCEPT ![p] = Junk]
        /\ Go(p, "save")
        /\ UNCHANGED <<portal, refused, answer, refusals>>
     \/ /\ Outage(p)
        /\ UNCHANGED portal \/ (right /\ \E s \in Sids : Opens(s, u, Procs))
        /\ UNCHANGED <<jar, refused, refusals>>
  /\ UNCHANGED <<disk, mine, had, who, pass, changes, env>>

\* Mutant of SavedSession: under the configured username, which may be missing.
SavedAsConfigured(p) == [sid |-> jar[p], user |-> mine[p].user]

\* What login saves.
SavedSession(p) == [sid |-> jar[p], user |-> LoginUser(p)]

\* The session being saved is of a login that session.json did not name.
Renames(p) == file \in Saved => file.user # LoginUser(p)

\* Session::save, and the end of Refused::sign_in.  A server whose save fails
\* gives up, its memory as it was; a command goes on.
Save(p) ==
  /\ pc[p] = "save"
  /\ \/ /\ file' = SavedSession(p)
        /\ refused' = IF p \in Servers THEN [refused EXCEPT ![p] = <<>>] ELSE refused
        /\ Go(p, "retry")
        /\ UNCHANGED answer
     \/ /\ "disk" \in Faults
        /\ IF p \in Servers THEN Fails(p) ELSE Go(p, "retry") /\ UNCHANGED answer
        /\ UNCHANGED <<file, refused>>
  /\ who' = [who EXCEPT ![p] = LoginUser(p)]
  /\ changes' = IF file' # file /\ Renames(p) THEN changes + 1 ELSE changes
  /\ UNCHANGED <<portal, stored, cfg, mine, had, jar, pass, env, refusals>>

\* The call again, once.
Retry(p) ==
  /\ pc[p] = "retry"
  /\ Answered(p) \/ (jar[p] \notin alive /\ Fails(p)) \/ Outage(p)
  /\ UNCHANGED <<portal, disk, refused, mine, had, jar, who, pass, changes, env, refusals>>

\* The answer is given; a server forgets all but `refused`.
Finish(p) ==
  /\ pc[p] = "done"
  /\ Go(p, "idle")
  /\ mine' = [mine EXCEPT ![p] = NoConfig]
  /\ had' = had \ {p}
  /\ jar' = [jar EXCEPT ![p] = Junk]
  /\ who' = [who EXCEPT ![p] = NoUser]
  /\ pass' = [pass EXCEPT ![p] = NoPassword]
  /\ answer' = [answer EXCEPT ![p] = NoUser]
  /\ UNCHANGED <<portal, disk, refused, changes, env, refusals>>

-----------------------------------------------------------------------------
(* The user, and the portal on its own.                                    *)

Change ==
  /\ changes < MaxChanges
  /\ changes' = changes + 1
  /\ UNCHANGED <<refused, pc, local, env, refusals>>

\* `tojfl auth login [--save]` with the right password.  It starts from the saved
\* cookies, and a live session gets no login form to fill in.
LoginHere ==
  /\ ~(file \in Saved /\ file.sid \in alive)
  /\ \E u \in Users, s \in Sids :
       /\ Opens(s, u, Procs)
       /\ file' = [sid |-> s, user |-> u]
       /\ \/ UNCHANGED <<stored, cfg>>
          \/ stored' = accepts[u] /\ cfg' = [cfg EXCEPT !.user = u]

\* `tojfl auth login --base-url` with another portal's.
LoginElsewhere == file' = Foreign /\ UNCHANGED <<portal, stored, cfg>>

UserLogin == (LoginHere \/ LoginElsewhere) /\ Change

\* `tojfl auth logout [--forget]`.
UserLogout ==
  /\ file # NoFile
  /\ file' = NoFile
  /\ stored' \in {stored, NoPassword}
  /\ Change
  /\ UNCHANGED <<portal, cfg>>

\* The settings of a Claude Desktop extension, or `tojfl config set`.
EditSettings ==
  /\ \/ stored' \in Passwords \cup {NoPassword} /\ UNCHANGED cfg
     \/ cfg' \in Configs /\ UNCHANGED stored
  /\ Change
  /\ UNCHANGED <<portal, file>>

\* The user changes the password on the portal.
ResetPassword ==
  /\ \E u \in Users, q \in Passwords : accepts' = [accepts EXCEPT ![u] = q]
  /\ Change
  /\ UNCHANGED <<owner, alive, disk>>

\* The portal's session timeout.
Lapse ==
  /\ \E s \in alive : alive' = alive \ {s}
  /\ UNCHANGED <<accepts, owner, disk, refused, pc, local, changes, env, refusals>>

ProcStep(p) ==
  \/ Begin(p) \/ Open(p) \/ Try(p) \/ Resolve(p) \/ Post(p) \/ Save(p)
  \/ Retry(p) \/ Finish(p)

Next ==
  \/ \E p \in Procs : ProcStep(p)
  \/ UserLogin \/ UserLogout \/ EditSettings \/ ResetPassword \/ Lapse

Spec == Init /\ [][Next]_vars

-----------------------------------------------------------------------------
(* What a process holds while it signs in.                                 *)

\* A session is the login's it was opened for; Junk is nobody's.
Belongs(sid, u) == sid = Junk \/ owner[sid] = u

\* session.json names the login its cookies belong to.
FileOwned == file \in Saved => Belongs(file.sid, file.user)

\* A server that has a username configured holds that login's cookies or none.
ServerOwned(s) ==
  /\ pc[s] \notin {"idle", "open"} /\ mine[s].user # NoUser =>
       who[s] = mine[s].user /\ Belongs(jar[s], mine[s].user)
  /\ pc[s] # "done" => answer[s] = NoUser

\* A process that signs in may do so, and saves what it got for the login it asked.
SigningIn(p) ==
  /\ pc[p] \in {"resolve", "post", "save"} => MaySignIn(p)
  /\ pc[p] = "post" => LoginUser(p) # NoUser /\ pass[p] # NoPassword
  /\ pc[p] = "save" => LoginUser(p) # NoUser /\ Belongs(jar[p], LoginUser(p))

\* A server answers a call with the data of the login the config named when the
\* call began, never with those of another login whose cookies are still good.
AnswersAsConfigured ==
  \A s \in Servers :
    answer[s] # NoUser /\ mine[s].user # NoUser => answer[s] = mine[s].user

\* The inductive invariant behind the properties of this module.
SInv ==
  /\ TypeOK
  /\ FileOwned
  /\ \A s \in Servers : ServerOwned(s)
  /\ \A p \in Procs : SigningIn(p)
  /\ AnswersAsConfigured

\* After `tojfl auth logout` no process that starts later signs in again: the
\* session file comes back by the user's own login, by a process that had opened the
\* file before it went, or by a server with $TOJFL_PASSWORD (may_sign_in,
\* should_refresh).
LogoutHolds ==
  [][file = NoFile /\ file' # NoFile
       => \/ UserLogin
          \/ \E p \in Procs :
               /\ Save(p)
               /\ p \in had \/ (p \in Servers /\ env[p].password # NoPassword)]_vars

\* With auto_login off, and no call under way that read it on, the portal opens
\* no session and refuses no password but by the user's own login.
AutoLoginOffHolds ==
  [][/\ ~cfg.auto
     /\ \A p \in Procs : pc[p] \in {"idle", "done"} \/ ~mine[p].auto
     => UNCHANGED <<owner, refusals>> \/ UserLogin]_vars

\* A server sees a password refused again only after the user or the portal changed
\* something, or a process saved the session of a login the file did not name: left
\* alone with a stale credential it cannot lock the login (Refused::sign_in).
RefusalsNeedAChange ==
  \A s \in Servers : refusals[s] <= changes + 1

-----------------------------------------------------------------------------
(* Statements of the documentation that the code does not keep.            *)

\* "after `tojfl auth logout` you stay logged out" (README.md).
LogoutStays == [][file = NoFile /\ file' # NoFile => UserLogin]_vars
=============================================================================
