---------------------------- MODULE SignInProofs ----------------------------
(* Theorems about SignIn, for every value of its constants.                *)
EXTENDS SignIn, TLAPS

\* The two kinds of process are apart, and the model values are no data.
LEMMA Apart ==
  /\ \A s \in Servers : s \in Procs /\ s \notin Commands
  /\ NoFile \notin Saved /\ Foreign \notin Saved /\ NoFile # Foreign
  /\ Junk \notin Sids /\ NoUser \notin Users
  /\ NoPassword \notin Passwords /\ MaxChanges \in Nat
  BY SignInAssumption DEF Procs, Saved

\* The fields of the records.
LEMMA Fields ==
  /\ \A f \in Saved : f.sid \in Sids \cup {Junk} /\ f.user \in Users
  /\ \A c \in Config : /\ c.user \in Users \cup {NoUser} /\ c.auto \in BOOLEAN
                          /\ c.password \in Passwords \cup {NoPassword}
                          /\ \A u \in Users : [c EXCEPT !.user = u] \in Config
  /\ NoConfig \in Config
  BY DEF Saved, Config, NoConfig

\* What a process reads is a config, and a password may be missing.
LEMMA Reads ==
  ASSUME TypeOK, NEW p \in Procs
  PROVE  /\ Loaded(p) \in Config
         /\ \A c \in Config : PasswordWith(p, c) \in Passwords \cup {NoPassword}
         /\ env[p].user \in Users \cup {NoUser}
<1>1. /\ env[p].user \in Users \cup {NoUser}
      /\ env[p].password \in Passwords \cup {NoPassword}
  BY SignInAssumption DEF TypeOK
<1>2. Loaded(p) \in Config
  BY <1>1, Fields DEF TypeOK, Loaded
<1>3. \A c \in Config : PasswordWith(p, c) \in Passwords \cup {NoPassword}
  BY <1>1, Fields DEF TypeOK, PasswordWith
<1> QED
  BY <1>1, <1>2, <1>3

\* The invariant holds at the start.
LEMMA InitSInv == Init => SInv
<1> SUFFICES ASSUME Init PROVE SInv
  OBVIOUS
<1>1. stored \in Passwords \cup {NoPassword} /\ cfg \in Config
  BY SignInAssumption DEF Init
<1>2. TypeOK
  BY <1>1, SignInAssumption, Apart, Fields DEF Init, TypeOK, Cred, Steps, Procs
<1>3. FileOwned /\ AnswersAsConfigured
  BY Apart DEF Init, FileOwned, AnswersAsConfigured
<1>4. /\ \A s \in Servers : ServerOwned(s)
      /\ \A p \in Procs : SigningIn(p)
  BY Apart DEF Init, ServerOwned, SigningIn
<1> QED
  BY <1>2, <1>3, <1>4 DEF SInv

\* Reading the config keeps the invariant.
LEMMA BeginKeeps ==
  ASSUME SInv, NEW p \in Procs, Begin(p)
  PROVE  SInv'
<1> USE Apart, Fields DEF SInv, Begin, Go, portal, disk
<1>1. TypeOK'
  BY Reads DEF TypeOK, Steps
<1>2. FileOwned'
  BY DEF TypeOK, FileOwned, Belongs, SigningIn
<1>3. ASSUME NEW s \in Servers PROVE ServerOwned(s)'
  BY DEF TypeOK, ServerOwned, FileOwned, SigningIn, LoginUser, Belongs, Steps
<1>4. ASSUME NEW q \in Procs PROVE SigningIn(q)'
  BY DEF TypeOK, SigningIn, MaySignIn, LoginUser, Belongs, Steps
<1>5. AnswersAsConfigured'
  BY DEF TypeOK, AnswersAsConfigured, ServerOwned, Belongs
<1> QED
  BY <1>1, <1>2, <1>3, <1>4, <1>5

\* The saved cookies a server takes are the configured login's, when there is one.
LEMMA OpenKeeps ==
  ASSUME SInv, NEW p \in Procs, Open(p)
  PROVE  SInv'
<1> USE Apart, Fields DEF SInv, Open, IsAnotherLogin, Go, portal, disk
<1>1. TypeOK'
  BY Reads DEF TypeOK, Steps
<1>2. FileOwned'
  BY DEF TypeOK, FileOwned, Belongs, SigningIn
<1>3. ASSUME NEW s \in Servers PROVE ServerOwned(s)'
  BY DEF TypeOK, ServerOwned, FileOwned, SigningIn, LoginUser, Belongs, Steps
<1>4. ASSUME NEW q \in Procs PROVE SigningIn(q)'
  BY DEF TypeOK, SigningIn, MaySignIn, LoginUser, Belongs, Steps
<1>5. AnswersAsConfigured'
  BY DEF TypeOK, AnswersAsConfigured, ServerOwned, Belongs
<1> QED
  BY <1>1, <1>2, <1>3, <1>4, <1>5

\* The first call, and the gate of a silent sign-in, keep the invariant.
LEMMA TryKeeps ==
  ASSUME SInv, NEW p \in Procs, Try(p)
  PROVE  SInv'
<1> USE Apart, Fields DEF SInv, Try, Answered, Fails, Outage, Go, portal, disk
<1>1. TypeOK'
  BY Reads DEF TypeOK, Steps
<1>2. FileOwned'
  BY DEF TypeOK, FileOwned, Belongs, SigningIn
<1>3. ASSUME NEW s \in Servers PROVE ServerOwned(s)'
  BY DEF TypeOK, ServerOwned, FileOwned, SigningIn, LoginUser, Belongs, Steps
<1>4. ASSUME NEW q \in Procs PROVE SigningIn(q)'
  BY DEF TypeOK, SigningIn, MaySignIn, LoginUser, Belongs, Steps
<1>5. AnswersAsConfigured'
  <2>1. UNCHANGED <<mine, owner, jar>>
    OBVIOUS
  <2>2. \/ jar[p] \in alive /\ answer' = [answer EXCEPT ![p] = owner[jar[p]]]
        \/ answer' = [answer EXCEPT ![p] = NoUser]
        \/ answer' = answer
    OBVIOUS
  <2>3. jar[p] \in alive => jar[p] # Junk
    BY DEF TypeOK
  <2>4. p \in Servers /\ mine[p].user # NoUser => Belongs(jar[p], mine[p].user)
    BY DEF ServerOwned
  <2> QED
    BY <2>1, <2>2, <2>3, <2>4 DEF TypeOK, AnswersAsConfigured, Belongs
<1> QED
  BY <1>1, <1>2, <1>3, <1>4, <1>5

\* Finding the credential keeps the invariant.
LEMMA ResolveKeeps ==
  ASSUME SInv, NEW p \in Procs, Resolve(p)
  PROVE  SInv'
<1> USE Apart, Fields DEF SInv, Resolve, Remembered, Fails, Go, portal, disk
<1>1. TypeOK'
  <2>1. FoundPassword(p) \in Passwords \cup {NoPassword}
    BY Reads DEF TypeOK, FoundPassword
  <2> QED
    BY <2>1 DEF TypeOK, Steps
<1>2. FileOwned'
  BY DEF TypeOK, FileOwned, Belongs, SigningIn
<1>3. ASSUME NEW s \in Servers PROVE ServerOwned(s)'
  BY DEF TypeOK, ServerOwned, FileOwned, SigningIn, LoginUser, Belongs, Steps
<1>4. ASSUME NEW q \in Procs PROVE SigningIn(q)'
  BY DEF TypeOK, SigningIn, MaySignIn, LoginUser, Belongs, Steps
<1>5. AnswersAsConfigured'
  BY DEF TypeOK, AnswersAsConfigured, ServerOwned, Belongs
<1> QED
  BY <1>1, <1>2, <1>3, <1>4, <1>5

\* The session a sign-in opens is the login's, and nobody else holds its cookies.
LEMMA PostKeeps ==
  ASSUME SInv, NEW p \in Procs, Post(p)
  PROVE  SInv'
<1> USE Apart, Fields DEF SInv, Post, Opens, Fails, Outage, Go, portal, disk
<1>1. TypeOK'
  <2>1. LoginUser(p) \in Users /\ pass[p] \in Passwords
    BY DEF TypeOK, SigningIn, LoginUser, Config
  <2>2. <<LoginUser(p), pass[p]>> \in Cred
    BY <2>1 DEF Cred
  <2>3. /\ refused' \in [Servers -> Cred \cup {<<>>}]
        /\ refusals' \in [Servers -> Nat]
    <3> DEFINE c == <<LoginUser(p), pass[p]>>
    <3>1. \/ UNCHANGED <<refused, refusals>>
          \/ /\ p \in Servers
             /\ refused' = [refused EXCEPT ![p] = c]
             /\ refusals' = [refusals EXCEPT ![p] = @ + 1]
      OBVIOUS
    <3>2. refused \in [Servers -> Cred \cup {<<>>}] /\ refusals \in [Servers -> Nat]
      BY DEF TypeOK
    <3>3. c \in Cred
      BY <2>2
    <3>4. refused' \in [Servers -> Cred \cup {<<>>}]
      <4> HIDE DEF c
      <4> QED
        BY ONLY <3>1, <3>2, <3>3
    <3>5. refusals' \in [Servers -> Nat]
      <4>1. \/ refusals' = refusals
            \/ refusals' = [refusals EXCEPT ![p] = @ + 1]
        BY <3>1
      <4> QED
        BY ONLY <4>1, <3>2
    <3> QED
      BY <3>4, <3>5
  <2>4. /\ jar' \in [Procs -> Sids \cup {Junk}]
        /\ owner' \in [Sids -> Users \cup {NoUser}]
        /\ alive' \subseteq {s \in Sids : owner'[s] # NoUser}
        /\ accepts' = accepts
    <3>1. CASE UNCHANGED portal /\ (jar' = jar \/ jar' = [jar EXCEPT ![p] = Junk])
      BY ONLY <3>1, TypeOK DEF TypeOK, portal
    <3>2. ASSUME NEW s \in Sids, NEW others, Opens(s, LoginUser(p), others),
                 jar' = jar \/ jar' = [jar EXCEPT ![p] = s]
          PROVE  /\ jar' \in [Procs -> Sids \cup {Junk}]
                 /\ owner' \in [Sids -> Users \cup {NoUser}]
                 /\ alive' \subseteq {t \in Sids : owner'[t] # NoUser}
                 /\ accepts' = accepts
      <4>1. owner' = [owner EXCEPT ![s] = LoginUser(p)] /\ alive' = alive \cup {s}
        BY <3>2
      <4> QED
        BY ONLY <2>1, <3>2, <4>1, TypeOK, Apart DEF TypeOK, Opens
    <3> QED
      BY <3>1, <3>2
  <2>5. /\ pc' \in [Procs -> Steps]
        /\ answer' \in [Procs -> Users \cup {NoUser}]
        /\ UNCHANGED <<disk, mine, had, who, pass, changes, env>>
    BY DEF TypeOK, Steps
  <2> QED
    BY <2>3, <2>4, <2>5 DEF TypeOK
<1>2. FileOwned'
  BY DEF TypeOK, FileOwned, Belongs, SigningIn
<1>3. ASSUME NEW s \in Servers PROVE ServerOwned(s)'
  BY DEF TypeOK, ServerOwned, FileOwned, SigningIn, LoginUser, Belongs, Steps
<1>4. ASSUME NEW q \in Procs PROVE SigningIn(q)'
  BY DEF TypeOK, SigningIn, MaySignIn, LoginUser, Belongs, Steps
<1>5. AnswersAsConfigured'
  BY DEF TypeOK, AnswersAsConfigured, ServerOwned, Belongs
<1> QED
  BY <1>1, <1>2, <1>3, <1>4, <1>5

\* What is saved belongs to the login it names.
LEMMA SaveKeeps ==
  ASSUME SInv, NEW p \in Procs, Save(p)
  PROVE  SInv'
<1> USE Apart, Fields DEF SInv, Save, SavedSession, Renames, Fails, Go, portal
<1>1. TypeOK'
  <2>1. LoginUser(p) \in Users
    BY DEF TypeOK, SigningIn, LoginUser, Config
  <2>2. file' \in Saved \cup {NoFile, Foreign} /\ refused' \in [Servers -> Cred \cup {<<>>}]
    BY <2>1 DEF TypeOK, Saved
  <2>3. changes' \in Nat
    BY DEF TypeOK
  <2>4. /\ pc' \in [Procs -> Steps]
        /\ answer' \in [Procs -> Users \cup {NoUser}]
        /\ who' \in [Procs -> Users \cup {NoUser}]
    BY <2>1 DEF TypeOK, Steps
  <2>5. UNCHANGED <<accepts, owner, alive, stored, cfg, env, mine, had, jar, pass, refusals>>
    OBVIOUS
  <2> QED
    BY <2>2, <2>3, <2>4, <2>5 DEF TypeOK
<1>2. FileOwned'
  BY DEF TypeOK, FileOwned, Belongs, SigningIn
<1>3. ASSUME NEW s \in Servers PROVE ServerOwned(s)'
  BY DEF TypeOK, ServerOwned, FileOwned, SigningIn, LoginUser, Belongs, Steps
<1>4. ASSUME NEW q \in Procs PROVE SigningIn(q)'
  BY DEF TypeOK, SigningIn, MaySignIn, LoginUser, Belongs, Steps
<1>5. AnswersAsConfigured'
  BY DEF TypeOK, AnswersAsConfigured, ServerOwned, Belongs
<1> QED
  BY <1>1, <1>2, <1>3, <1>4, <1>5

\* The second call keeps the invariant.
LEMMA RetryKeeps ==
  ASSUME SInv, NEW p \in Procs, Retry(p)
  PROVE  SInv'
<1> USE Apart, Fields DEF SInv, Retry, Answered, Fails, Outage, Go, portal, disk
<1>1. TypeOK'
  BY Reads DEF TypeOK, Steps
<1>2. FileOwned'
  BY DEF TypeOK, FileOwned, Belongs, SigningIn
<1>3. ASSUME NEW s \in Servers PROVE ServerOwned(s)'
  BY DEF TypeOK, ServerOwned, FileOwned, SigningIn, LoginUser, Belongs, Steps
<1>4. ASSUME NEW q \in Procs PROVE SigningIn(q)'
  BY DEF TypeOK, SigningIn, MaySignIn, LoginUser, Belongs, Steps
<1>5. AnswersAsConfigured'
  <2>1. UNCHANGED <<mine, owner, jar>>
    OBVIOUS
  <2>2. \/ jar[p] \in alive /\ answer' = [answer EXCEPT ![p] = owner[jar[p]]]
        \/ answer' = [answer EXCEPT ![p] = NoUser]
    OBVIOUS
  <2>3. jar[p] \in alive => jar[p] # Junk
    BY DEF TypeOK
  <2>4. p \in Servers /\ mine[p].user # NoUser => Belongs(jar[p], mine[p].user)
    BY DEF ServerOwned
  <2> QED
    BY <2>1, <2>2, <2>3, <2>4 DEF TypeOK, AnswersAsConfigured, Belongs
<1> QED
  BY <1>1, <1>2, <1>3, <1>4, <1>5

\* The end of a call keeps the invariant.
LEMMA FinishKeeps ==
  ASSUME SInv, NEW p \in Procs, Finish(p)
  PROVE  SInv'
<1> USE Apart, Fields DEF SInv, Finish, Go, portal, disk
<1>1. TypeOK'
  BY Reads DEF TypeOK, Steps
<1>2. FileOwned'
  BY DEF TypeOK, FileOwned, Belongs, SigningIn
<1>3. ASSUME NEW s \in Servers PROVE ServerOwned(s)'
  BY DEF TypeOK, ServerOwned, FileOwned, SigningIn, LoginUser, Belongs, Steps
<1>4. ASSUME NEW q \in Procs PROVE SigningIn(q)'
  BY DEF TypeOK, SigningIn, MaySignIn, LoginUser, Belongs, Steps
<1>5. AnswersAsConfigured'
  BY DEF TypeOK, AnswersAsConfigured, ServerOwned, Belongs
<1> QED
  BY <1>1, <1>2, <1>3, <1>4, <1>5

\* The acts of the user and of the portal keep the invariant: a new session is
\* one that neither session.json nor any process holds.
LEMMA OutsideKeeps ==
  ASSUME SInv, UserLogin \/ UserLogout \/ EditSettings \/ ResetPassword \/ Lapse
  PROVE  SInv'
<1> USE Apart, Fields
    DEF SInv, UserLogin, LoginHere, UserLogout, EditSettings, ResetPassword, Lapse, Opens, Change,
        portal, disk, local
<1>1. TypeOK'
  <2>1. CASE LoginHere /\ Change
    <3>1. PICK u \in Users, s \in Sids :
            /\ owner' = [owner EXCEPT ![s] = u]
            /\ alive' = alive \cup {s}
            /\ file' = [sid |-> s, user |-> u]
            /\ accepts' = accepts
            /\ \/ UNCHANGED <<stored, cfg>>
               \/ stored' = accepts[u] /\ cfg' = [cfg EXCEPT !.user = u]
      BY <2>1
    <3>2. cfg' \in Config /\ stored' \in Passwords \cup {NoPassword} /\ file' \in Saved
      BY <3>1 DEF TypeOK, Saved
    <3>3. /\ owner' \in [Sids -> Users \cup {NoUser}]
          /\ alive' \subseteq {t \in Sids : owner'[t] # NoUser}
      BY <3>1 DEF TypeOK
    <3>4. changes' \in Nat /\ UNCHANGED <<accepts, refused, pc, local, env, refusals>>
      BY <2>1, <3>1 DEF TypeOK
    <3> QED
      BY <3>2, <3>3, <3>4 DEF TypeOK
  <2>2. CASE (LoginElsewhere /\ Change) \/ UserLogout \/ EditSettings \/ Lapse
    BY <2>2, SignInAssumption DEF TypeOK, LoginElsewhere
  <2>3. CASE ResetPassword
    BY <2>3 DEF TypeOK
  <2> QED
    BY <2>1, <2>2, <2>3
<1>2. FileOwned'
  BY DEF TypeOK, FileOwned, Belongs, LoginElsewhere
<1>3. ASSUME NEW s \in Servers PROVE ServerOwned(s)'
  BY DEF TypeOK, ServerOwned, Belongs, LoginElsewhere
<1>4. ASSUME NEW q \in Procs PROVE SigningIn(q)'
  BY DEF TypeOK, SigningIn, MaySignIn, LoginUser, Belongs, LoginElsewhere
<1>5. AnswersAsConfigured'
  BY DEF AnswersAsConfigured
<1> QED
  BY <1>1, <1>2, <1>3, <1>4, <1>5

\* Every step keeps the invariant.
LEMMA NextSInv == SInv /\ [Next]_vars => SInv'
<1>1. ASSUME SInv, UNCHANGED vars PROVE SInv'
  BY <1>1 DEF SInv, vars, TypeOK, FileOwned, ServerOwned, SigningIn, MaySignIn, LoginUser,
              Belongs, AnswersAsConfigured
<1> QED
  BY <1>1, BeginKeeps, OpenKeeps, TryKeeps, ResolveKeeps, PostKeeps, SaveKeeps, RetryKeeps,
     FinishKeeps, OutsideKeeps DEF Next, ProcStep

\* The saved session, each server's and each sign-in under way belong to the login
\* they are taken to belong to.
THEOREM Owned == Spec => []SInv
  BY InitSInv, NextSInv, PTL DEF Spec

\* A server answers with the data of the login its config named, and what each
\* process holds has its type.
THEOREM Configured == Spec => [](TypeOK /\ AnswersAsConfigured)
<1>1. SInv => TypeOK /\ AnswersAsConfigured
  BY DEF SInv
<1> QED
  BY <1>1, InitSInv, NextSInv, PTL DEF Spec

\* session.json comes back after a logout by the user's login, by a call that had
\* opened the file before it went, or by a server with $TOJFL_PASSWORD.
THEOREM LoggedOut == Spec => LogoutHolds
<1> DEFINE Kept ==
      file = NoFile /\ file' # NoFile
        => \/ UserLogin
           \/ \E p \in Procs :
                /\ Save(p)
                /\ p \in had \/ (p \in Servers /\ env[p].password # NoPassword)
<1>1. SInv /\ [Next]_vars => [Kept]_vars
  <2> SUFFICES ASSUME SInv, Next, file = NoFile, file' # NoFile PROVE Kept
    OBVIOUS
  <2>1. UserLogin \/ \E p \in Procs : Save(p)
    BY DEF Next, ProcStep, Begin, Open, Try, Resolve, Post, Retry, Finish, UserLogout,
           EditSettings, ResetPassword, Lapse, disk
  <2>2. ASSUME NEW p \in Procs, Save(p) PROVE Kept
    BY <2>2 DEF SInv, Save, SigningIn, MaySignIn
  <2> QED
    BY <2>1, <2>2
<1> QED
  BY <1>1, InitSInv, NextSInv, PTL DEF Spec, LogoutHolds

\* With auto_login off, and no call that read it on, only the user's own login
\* opens a session or has a password refused.
THEOREM AutoOff == Spec => AutoLoginOffHolds
<1> DEFINE Kept ==
      /\ ~cfg.auto
      /\ \A p \in Procs : pc[p] \in {"idle", "done"} \/ ~mine[p].auto
      => UNCHANGED <<owner, refusals>> \/ UserLogin
<1>1. SInv /\ [Next]_vars => [Kept]_vars
  <2> SUFFICES ASSUME SInv, Next, \A p \in Procs : pc[p] \in {"idle", "done"} \/ ~mine[p].auto
               PROVE  UNCHANGED <<owner, refusals>> \/ UserLogin
    OBVIOUS
  <2>1. ASSUME NEW p \in Procs, Post(p) PROVE FALSE
    BY <2>1 DEF SInv, Post, SigningIn, MaySignIn
  <2> QED
    BY <2>1 DEF Next, ProcStep, Begin, Open, Try, Resolve, Save, Retry, Finish, UserLogout,
                EditSettings, ResetPassword, Lapse, Change, portal
<1> QED
  BY <1>1, InitSInv, NextSInv, PTL DEF Spec, AutoLoginOffHolds

-----------------------------------------------------------------------------
(* What README.md says of a logout, and when it holds.                       *)

\* The session file is gone, the calls that had opened it are past their sign-in, and no
\* server was started with $TOJFL_PASSWORD.
SignedOut ==
  /\ file = NoFile
  /\ \A p \in Procs : p \in had => pc[p] \in {"retry", "done"}
  /\ \A s \in Servers : env[s].password = NoPassword

\* Once signed out the user stays so, and no password is sent, until their own login.
LogoutLasts ==
  [][SignedOut => (SignedOut' /\ UNCHANGED <<owner, refusals>>) \/ UserLogin]_vars

LEMMA NobodySigns ==
  ASSUME SInv, SignedOut, NEW p \in Procs
  PROVE  ~Post(p) /\ ~Save(p) /\ ~Resolve(p) /\ (Try(p) => pc'[p] = "done")
<1>1. ~MaySignIn(p) \/ pc[p] \in {"retry", "done"}
  BY DEF SignedOut, MaySignIn
<1>2. pc \in [Procs -> Steps]
  BY DEF SInv, TypeOK
<1> QED
  BY <1>1, <1>2 DEF SInv, SigningIn, Post, Save, Resolve, Try, Answered, Fails, Outage, Go

\* A logout lasts once no call is left that opened the session before it: whatever the
\* user edits and whatever calls and commands come, none signs in (may_sign_in,
\* should_refresh).  README.md's "you stay logged out" fails before that moment only.
THEOREM Lasts == Spec => LogoutLasts
<1> DEFINE Kept ==
      SignedOut => (SignedOut' /\ UNCHANGED <<owner, refusals>>) \/ UserLogin
<1>1. SInv /\ [Next]_vars => [Kept]_vars
  <2> SUFFICES ASSUME SInv, Next, SignedOut, ~UserLogin
               PROVE  SignedOut' /\ UNCHANGED <<owner, refusals>>
    OBVIOUS
  <2> USE DEF SignedOut
  <2>1. pc \in [Procs -> Steps]
    BY DEF SInv, TypeOK
  <2>2. ASSUME NEW p \in Procs, ProcStep(p)
        PROVE  SignedOut' /\ UNCHANGED <<owner, refusals>>
    <3>1. CASE Begin(p) \/ Open(p) \/ Try(p)
      <4>1. UNCHANGED <<file, env, owner, refusals>> /\ had' = had
        BY <3>1, Apart DEF Begin, Open, Try, portal, disk
      <4>2. p \in had => pc'[p] = "done"
        BY <2>1, <3>1, NobodySigns DEF Begin, Open, Try
      <4>3. \A q \in Procs \ {p} : pc'[q] = pc[q]
        BY <2>1, <3>1 DEF Begin, Open, Try, Answered, Fails, Outage, Go
      <4> QED
        BY <4>1, <4>2, <4>3
    <3>2. CASE Retry(p)
      <4>1. UNCHANGED <<file, env, owner, refusals, had>>
        BY <3>2 DEF Retry, portal, disk
      <4>2. pc' = [pc EXCEPT ![p] = "done"]
        BY <3>2 DEF Retry, Answered, Fails, Outage, Go
      <4> QED
        BY <2>1, <4>1, <4>2
    <3>3. CASE Finish(p)
      <4>1. UNCHANGED <<file, env, owner, refusals>> /\ had' = had \ {p}
        BY <3>3 DEF Finish, portal, disk
      <4>2. pc' = [pc EXCEPT ![p] = "idle"]
        BY <3>3 DEF Finish, Go
      <4> QED
        BY <2>1, <4>1, <4>2
    <3> QED
      BY <2>2, <3>1, <3>2, <3>3, NobodySigns DEF ProcStep
  <2>3. CASE UserLogout \/ EditSettings \/ ResetPassword \/ Lapse
    BY <2>3 DEF UserLogout, EditSettings, ResetPassword, Lapse, Change, portal, disk, local
  <2> QED
    BY <2>2, <2>3 DEF Next
<1> QED
  BY <1>1, InitSInv, NextSInv, PTL DEF Spec, LogoutLasts

-----------------------------------------------------------------------------
(* How often a password can be refused.                                      *)

\* The login of a server's call that found u in its config.
Named(u) == IF u # NoUser THEN u ELSE IF file \in Saved THEN file.user ELSE NoUser

\* The credential of a call that begins now.
User(s)     == Named(Loaded(s).user)
Password(s) == PasswordWith(s, Loaded(s))

\* The portal refuses this credential.
Wrong(u, w) == u \in Users /\ w \in Passwords /\ accepts[u] # w

\* It refuses the credential of this moment, which the server does not know.
NowWrong(s) == Wrong(User(s), Password(s))
Unknown(s)  == NowWrong(s) /\ refused[s] # <<User(s), Password(s)>>

\* Nothing has changed since the call under way began.
SameUser(s)     == IF pc[s] = "open" THEN mine[s].user = Loaded(s).user ELSE who[s] = User(s)
SamePassword(s) == mine[s].password = Loaded(s).password
IsNow(s)        == who[s] = User(s) /\ pass[s] = Password(s)

\* The login the call under way goes by.
CallUser(s) == IF pc[s] = "open" THEN Named(mine[s].user) ELSE who[s]

\* One more refusal may come with nothing changed: of the credential of this moment,
\* which the server does not know to be refused, or of another the call under way took.
MayRefuse(s) ==
  CASE pc[s] \in {"idle", "retry", "done"} -> Unknown(s)
    [] pc[s] \in {"open", "try", "resolve"} -> SameUser(s) /\ SamePassword(s) => Unknown(s)
    [] pc[s] = "post" -> Wrong(who[s], pass[s]) \/ (~IsNow(s) /\ NowWrong(s))
    [] pc[s] = "save" -> NowWrong(s)

\* Two may come: of the call under way and of the next.
MayRefuseTwice(s) ==
  CASE pc[s] \in {"open", "try", "resolve"} ->
         /\ CallUser(s) # User(s) \/ FoundPassword(s) # Password(s)
         /\ Wrong(CallUser(s), FoundPassword(s)) /\ NowWrong(s)
         /\ refused[s] # <<CallUser(s), FoundPassword(s)>>
    [] pc[s] = "post" -> Wrong(who[s], pass[s]) /\ ~IsNow(s) /\ NowWrong(s)
    [] OTHER -> FALSE

\* Each change allows for one refusal, and those that may come without one are counted.
Allowed(s) ==
  /\ refusals[s] <= changes + 1
  /\ MayRefuse(s) => refusals[s] <= changes
  /\ MayRefuseTwice(s) => refusals[s] + 1 <= changes

\* What the predicates are made of, by type.
LEMMA Parts ==
  ASSUME SInv, NEW s \in Servers
  PROVE  /\ s \in Procs /\ Loaded(s) \in Config /\ mine[s] \in Config
         /\ User(s) \in Users \cup {NoUser}
         /\ who[s] \in Users \cup {NoUser}
         /\ changes \in Nat /\ refusals[s] \in Nat /\ pc[s] \in Steps
  BY Apart, Fields, Reads DEF SInv, TypeOK, User, Named

\* The login named by a session file is one of the file alone.
LEMMA SameNames ==
  ASSUME file' = file \/ (file \in Saved /\ file' \in Saved /\ file'.user = file.user)
  PROVE  \A u : Named(u)' = Named(u)
  BY DEF Named, Saved

\* What a server reads is of its environment, the config and the keychain.
LEMMA SameReads ==
  ASSUME NEW s \in Servers, UNCHANGED <<stored, cfg, env>>
  PROVE  Loaded(s)' = Loaded(s) /\ Password(s)' = Password(s)
         /\ (mine'[s] = mine[s] => FoundPassword(s)' = FoundPassword(s))
  BY DEF Loaded, Password, FoundPassword, PasswordWith

\* The password found is the one of this moment while the config's is.
LEMMA Agreeing ==
  ASSUME NEW s \in Servers, SamePassword(s)
  PROVE  FoundPassword(s) = Password(s)
  BY DEF SamePassword, FoundPassword, Password, PasswordWith

\* Nothing that the count of a server's refusals goes by has changed.
LEMMA NothingCounts ==
  ASSUME NEW s \in Servers, Allowed(s),
         UNCHANGED <<accepts, stored, cfg, env, changes>>, \A u : Named(u)' = Named(u),
         pc'[s] = pc[s], mine'[s] = mine[s], who'[s] = who[s], pass'[s] = pass[s],
         refused'[s] = refused[s], refusals'[s] = refusals[s]
  PROVE  Allowed(s)'
<1>1. /\ Loaded(s)' = Loaded(s) /\ Password(s)' = Password(s)
      /\ FoundPassword(s)' = FoundPassword(s)
  BY SameReads
<1>2. User(s)' = User(s) /\ CallUser(s)' = CallUser(s)
  BY <1>1 DEF User, CallUser
<1>3. \A u, w : Wrong(u, w)' = Wrong(u, w)
  BY DEF Wrong
<1>4. NowWrong(s)' = NowWrong(s) /\ Unknown(s)' = Unknown(s) /\ IsNow(s)' = IsNow(s)
      /\ SameUser(s)' = SameUser(s) /\ SamePassword(s)' = SamePassword(s)
  BY <1>1, <1>2, <1>3 DEF NowWrong, Unknown, IsNow, SameUser, SamePassword
<1>5. MayRefuse(s)' = MayRefuse(s) /\ MayRefuseTwice(s)' = MayRefuseTwice(s)
  BY <1>1, <1>2, <1>3, <1>4 DEF MayRefuse, MayRefuseTwice
<1> QED
  BY <1>5 DEF Allowed

\* The steps of a call, up to the portal's answer.
LEMMA CallCounts ==
  ASSUME SInv, NEW s \in Servers, Allowed(s),
         Begin(s) \/ Open(s) \/ Try(s) \/ Resolve(s) \/ Retry(s) \/ Finish(s)
  PROVE  Allowed(s)'
<1> USE DEF SInv
<1>1. UNCHANGED <<accepts, file, stored, cfg, env, changes, refused, refusals>>
  BY DEF Begin, Open, Try, Resolve, Retry, Finish, portal, disk
<1>2. /\ Loaded(s)' = Loaded(s) /\ Password(s)' = Password(s)
      /\ \A u : Named(u)' = Named(u)
      /\ mine'[s] = mine[s] => FoundPassword(s)' = FoundPassword(s)
  BY <1>1, SameReads, SameNames
<1>3. \A u, w : Wrong(u, w)' = Wrong(u, w)
  BY <1>1 DEF Wrong
<1>4. User(s)' = User(s) /\ NowWrong(s)' = NowWrong(s) /\ Unknown(s)' = Unknown(s)
  BY <1>1, <1>2, <1>3 DEF User, NowWrong, Unknown
<1>5. s \in Procs
  BY Apart
<1>6. (MayRefuse(s)' => MayRefuse(s)) /\ (MayRefuseTwice(s)' => MayRefuseTwice(s))
  <2>1. CASE Begin(s)
    <3>1. pc[s] = "idle" /\ pc'[s] = "open" /\ mine'[s] = Loaded(s)
      BY <1>5, <2>1 DEF Begin, Go, TypeOK
    <3>2. SameUser(s)' /\ SamePassword(s)' /\ CallUser(s)' = User(s)'
      BY <1>2, <3>1 DEF SameUser, SamePassword, CallUser, User
    <3>3. FoundPassword(s)' = Password(s)'
      BY <1>2, <3>1 DEF FoundPassword, Password
    <3> QED
      BY <1>4, <3>1, <3>2, <3>3 DEF MayRefuse, MayRefuseTwice
  <2>2. CASE Open(s)
    <3>1. pc[s] = "open" /\ pc'[s] = "try" /\ mine'[s] = mine[s]
      BY <1>5, <2>2 DEF Open, Go, TypeOK
    <3>2. who'[s] = Named(mine[s].user)
      BY <1>5, <2>2 DEF Open, Named, IsAnotherLogin, TypeOK
    <3>3. CallUser(s)' = CallUser(s) /\ (SameUser(s) => SameUser(s)')
          /\ SamePassword(s)' = SamePassword(s)
      BY <1>2, <1>4, <3>1, <3>2 DEF CallUser, SameUser, SamePassword, User
    <3> QED
      BY <1>1, <1>2, <1>3, <1>4, <3>1, <3>3 DEF MayRefuse, MayRefuseTwice
  <2>3. CASE Try(s)
    <3>1. /\ pc[s] = "try" /\ pc'[s] \in {"resolve", "done"}
          /\ who'[s] = who[s] /\ mine'[s] = mine[s]
      BY <1>5, <2>3 DEF Try, Answered, Fails, Outage, Go, TypeOK
    <3>2. /\ pc'[s] = "resolve" => CallUser(s)' = CallUser(s) /\ SameUser(s)' = SameUser(s)
          /\ SamePassword(s)' = SamePassword(s)
      BY <1>2, <1>4, <3>1 DEF CallUser, SameUser, SamePassword
    <3> QED
      BY <1>1, <1>2, <1>3, <1>4, <3>1, <3>2 DEF MayRefuse, MayRefuseTwice
  <2>4. CASE Resolve(s)
    <3>1. pc[s] = "resolve" /\ who'[s] = who[s] /\ pass'[s] = FoundPassword(s)
      BY <1>5, <2>4 DEF Resolve, TypeOK
    <3>2. \/ pc'[s] = "done"
          \/ pc'[s] = "post" /\ refused[s] # <<who[s], FoundPassword(s)>>
      BY <1>5, <2>4 DEF Resolve, Fails, Go, LoginUser, Remembered, TypeOK
    <3>3. CASE pc'[s] = "done"
      BY <1>4, <3>1, <3>3 DEF MayRefuse, MayRefuseTwice
    <3>4. CASE pc'[s] = "post" /\ refused[s] # <<who[s], FoundPassword(s)>>
      <4>1. IsNow(s)' <=> who[s] = User(s) /\ FoundPassword(s) = Password(s)
        BY <1>2, <1>4, <3>1 DEF IsNow
      <4>2. CallUser(s) = who[s] /\ (SameUser(s) => who[s] = User(s))
        BY <3>1 DEF CallUser, SameUser
      <4>3. SamePassword(s) => FoundPassword(s) = Password(s)
        BY Agreeing
      <4>4. Wrong(who[s], pass[s])' <=> Wrong(who[s], FoundPassword(s))
        BY <1>3, <3>1
      <4>5. MayRefuse(s)' => MayRefuse(s)
        BY <1>4, <3>1, <3>4, <4>1, <4>2, <4>3, <4>4 DEF MayRefuse, Unknown, NowWrong
      <4>6. MayRefuseTwice(s)' => MayRefuseTwice(s)
        BY <1>4, <3>1, <3>4, <4>1, <4>2, <4>4 DEF MayRefuseTwice
      <4> QED
        BY <4>5, <4>6
    <3> QED
      BY <3>2, <3>3, <3>4
  <2>5. CASE Retry(s)
    <3>1. pc[s] = "retry" /\ pc'[s] = "done"
      BY <1>5, <2>5 DEF Retry, Answered, Fails, Outage, Go, TypeOK
    <3> QED
      BY <1>4, <3>1 DEF MayRefuse, MayRefuseTwice
  <2>6. CASE Finish(s)
    <3>1. pc[s] = "done" /\ pc'[s] = "idle"
      BY <1>5, <2>6 DEF Finish, Go, TypeOK
    <3> QED
      BY <1>4, <3>1 DEF MayRefuse, MayRefuseTwice
  <2> QED
    BY <2>1, <2>2, <2>3, <2>4, <2>5, <2>6
<1> QED
  BY <1>1, <1>6 DEF Allowed

\* The portal's answer: a refusal is one of those that were allowed.
LEMMA PostCounts ==
  ASSUME SInv, NEW s \in Servers, Allowed(s), Post(s)
  PROVE  Allowed(s)'
<1> USE DEF SInv
<1>1. UNCHANGED <<accepts, file, stored, cfg, env, changes, mine, who, pass>> /\ pc[s] = "post"
  BY DEF Post, Opens, disk, portal
<1>2. User(s)' = User(s) /\ Password(s)' = Password(s) /\ NowWrong(s)' = NowWrong(s)
  <2>1. Loaded(s)' = Loaded(s) /\ Password(s)' = Password(s) /\ \A u : Named(u)' = Named(u)
    BY <1>1, SameReads, SameNames
  <2> QED
    BY <1>1, <2>1 DEF User, NowWrong, Wrong
<1>3. s \in Procs
  BY Apart
<1>4. who[s] \in Users /\ pass[s] \in Passwords
  BY <1>1, <1>3, Parts DEF SigningIn, LoginUser, TypeOK
<1>5. \/ /\ refused' = refused /\ refusals' = refusals
         /\ pc'[s] \in {"save", "done"}
      \/ /\ accepts[who[s]] # pass[s]
         /\ pc'[s] = "done"
         /\ refused'[s] = <<who[s], pass[s]>>
         /\ refusals'[s] = refusals[s] + 1
  BY <1>3 DEF Post, LoginUser, Fails, Outage, Go, TypeOK, portal
<1>6. CASE /\ refused' = refused /\ refusals' = refusals
           /\ pc'[s] \in {"save", "done"}
  <2>1. NowWrong(s) => MayRefuse(s)
    BY <1>1 DEF MayRefuse, IsNow, NowWrong
  <2>2. (MayRefuse(s)' => NowWrong(s)) /\ ~MayRefuseTwice(s)'
    BY <1>2, <1>6 DEF MayRefuse, MayRefuseTwice, Unknown
  <2> QED
    BY <1>1, <1>6, <2>1, <2>2 DEF Allowed
<1>7. CASE /\ accepts[who[s]] # pass[s]
           /\ pc'[s] = "done"
           /\ refused'[s] = <<who[s], pass[s]>>
           /\ refusals'[s] = refusals[s] + 1
  <2>1. MayRefuse(s) /\ Wrong(who[s], pass[s])
    BY <1>1, <1>4, <1>7 DEF MayRefuse, Wrong
  <2>2. MayRefuse(s)' => MayRefuseTwice(s)
    BY <1>1, <1>2, <1>7, <2>1 DEF MayRefuse, MayRefuseTwice, Unknown, IsNow
  <2>3. ~MayRefuseTwice(s)'
    BY <1>7 DEF MayRefuseTwice
  <2> QED
    BY <1>1, <1>7, <2>1, <2>2, <2>3, Parts DEF Allowed
<1> QED
  BY <1>5, <1>6, <1>7

\* What a save does to the file, and to the count of changes.
LEMMA SaveFile ==
  ASSUME SInv, NEW p \in Procs, Save(p)
  PROVE  /\ UNCHANGED <<accepts, stored, cfg, env, refusals>>
         /\ \/ changes' = changes /\ \A u : Named(u)' = Named(u)
            \/ changes' = changes + 1
<1> USE DEF SInv
<1>1. UNCHANGED <<accepts, stored, cfg, env, refusals>>
  BY DEF Save, portal
<1>2. CASE file' = SavedSession(p) /\ ~Renames(p)
  <2>1. file' \in Saved /\ file'.user = LoginUser(p)
    BY <1>2, SaveKeeps, Apart, Fields DEF SavedSession, TypeOK, Saved, Save, SigningIn, LoginUser
  <2>2. file \in Saved /\ file.user = LoginUser(p)
    BY <1>2 DEF Renames
  <2>3. \A u : Named(u)' = Named(u)
    BY <2>1, <2>2, SameNames
  <2> QED
    BY <1>1, <1>2, <2>3 DEF Save
<1>3. CASE file' = file
  <2>1. \A u : Named(u)' = Named(u)
    BY <1>3, SameNames
  <2> QED
    BY <1>1, <1>3, <2>1 DEF Save
<1>4. CASE file' # file /\ Renames(p)
  BY <1>1, <1>4 DEF Save
<1> QED
  BY <1>2, <1>3, <1>4 DEF Save

\* The session is saved: what the server remembers goes.
LEMMA SaveCounts ==
  ASSUME SInv, NEW s \in Servers, Allowed(s), Save(s)
  PROVE  Allowed(s)'
<1> USE DEF SInv
<1>1. pc[s] = "save" /\ pc'[s] \in {"retry", "done"}
  BY Apart DEF Save, Fails, Go, TypeOK
<1>2. /\ UNCHANGED <<accepts, stored, cfg, env, refusals>>
      /\ \/ changes' = changes /\ \A u : Named(u)' = Named(u)
         \/ changes' = changes + 1
  BY Apart, SaveFile
<1>3. (MayRefuse(s)' => NowWrong(s)') /\ ~MayRefuseTwice(s)' /\ (NowWrong(s) => MayRefuse(s))
  BY <1>1 DEF MayRefuse, MayRefuseTwice, Unknown
<1>4. CASE changes' = changes /\ \A u : Named(u)' = Named(u)
  <2>1. Loaded(s)' = Loaded(s) /\ Password(s)' = Password(s)
    BY <1>2, SameReads
  <2>2. NowWrong(s)' = NowWrong(s)
    BY <1>2, <1>4, <2>1 DEF NowWrong, Wrong, User
  <2> QED
    BY <1>2, <1>3, <1>4, <2>2 DEF Allowed
<1>5. CASE changes' = changes + 1
  BY <1>2, <1>3, <1>5, Parts DEF Allowed
<1> QED
  BY <1>2, <1>4, <1>5

\* A change allows for one refusal more, and makes no two possible at once but where one
\* was: a call under way that agrees with this moment goes on to agree, or goes by what it
\* went by before.
LEMMA ChangePays ==
  ASSUME SInv, NEW s \in Servers, Allowed(s), changes' = changes + 1,
         pc'[s] = pc[s], mine'[s] = mine[s], who'[s] = who[s], pass'[s] = pass[s],
         refused'[s] = refused[s], refusals'[s] = refusals[s],
         pc[s] \in {"open", "try", "resolve"} /\ SameUser(s) /\ SamePassword(s) =>
           \/ CallUser(s)' = User(s)' /\ FoundPassword(s)' = Password(s)'
           \/ accepts' = accepts /\ CallUser(s)' = CallUser(s) /\ FoundPassword(s)' = FoundPassword(s)
           \/ ~NowWrong(s)',
         pc[s] = "post" => (MayRefuseTwice(s)' => MayRefuse(s))
  PROVE  Allowed(s)'
<1>1. MayRefuseTwice(s)' => MayRefuse(s)
  <2>1. CASE pc[s] \in {"open", "try", "resolve"}
    <3>1. SUFFICES ASSUME SameUser(s), SamePassword(s), MayRefuseTwice(s)' PROVE Unknown(s)
      BY <2>1 DEF MayRefuse
    <3>2. FoundPassword(s) = Password(s) /\ CallUser(s) = User(s)
      BY <3>1, Agreeing DEF SameUser, CallUser, User
    <3>3. /\ accepts' = accepts /\ CallUser(s)' = CallUser(s) /\ FoundPassword(s)' = FoundPassword(s)
          /\ Wrong(CallUser(s), FoundPassword(s))'
          /\ refused[s] # <<CallUser(s), FoundPassword(s)>>
      BY <2>1, <3>1 DEF MayRefuseTwice
    <3> QED
      BY <3>2, <3>3 DEF Unknown, NowWrong, Wrong
  <2>2. CASE pc[s] \in {"idle", "retry", "done", "save"}
    BY <2>2 DEF MayRefuseTwice
  <2> QED
    BY <2>1, <2>2, Parts DEF Steps
<1> QED
  BY <1>1, Parts DEF Allowed

\* Of a refusal to come the portal's passwords decide, which this change leaves.
LEMMA PostPays ==
  ASSUME NEW s \in Servers, accepts' = accepts, pc'[s] = pc[s], who'[s] = who[s], pass'[s] = pass[s],
         pc[s] = "post"
  PROVE  MayRefuseTwice(s)' => MayRefuse(s)
  BY DEF MayRefuse, MayRefuseTwice, Wrong

\* Another file alone: a call that has not opened it will find the login a new one finds.
LEMMA FilePays ==
  ASSUME SInv, NEW s \in Servers, UNCHANGED <<accepts, stored, cfg, env>>,
         pc'[s] = pc[s], mine'[s] = mine[s], who'[s] = who[s],
         pc[s] \in {"open", "try", "resolve"}, SameUser(s), SamePassword(s)
  PROVE  \/ CallUser(s)' = User(s)' /\ FoundPassword(s)' = Password(s)'
         \/ accepts' = accepts /\ CallUser(s)' = CallUser(s) /\ FoundPassword(s)' = FoundPassword(s)
<1>1. /\ Loaded(s)' = Loaded(s) /\ Password(s)' = Password(s)
      /\ FoundPassword(s)' = FoundPassword(s) /\ FoundPassword(s) = Password(s)
  BY SameReads, Agreeing
<1>2. CASE pc[s] = "open"
  BY <1>1, <1>2 DEF SameUser, CallUser, User
<1>3. CASE pc[s] # "open"
  BY <1>1, <1>3 DEF CallUser
<1> QED
  BY <1>2, <1>3

\* Another process saves the session.
LEMMA OtherSaveCounts ==
  ASSUME SInv, NEW s \in Servers, Allowed(s), NEW p \in Procs \ {s}, Save(p)
  PROVE  Allowed(s)'
<1>1. /\ pc'[s] = pc[s] /\ mine'[s] = mine[s] /\ who'[s] = who[s] /\ pass'[s] = pass[s]
      /\ refused'[s] = refused[s]
  BY Apart DEF Save, Fails, Go, SInv, TypeOK
<1>2. /\ UNCHANGED <<accepts, stored, cfg, env, refusals>>
      /\ \/ changes' = changes /\ \A u : Named(u)' = Named(u)
         \/ changes' = changes + 1
  BY SaveFile
<1>3. CASE changes' = changes /\ \A u : Named(u)' = Named(u)
  BY <1>1, <1>2, <1>3, NothingCounts
<1>4. CASE changes' = changes + 1
  BY <1>1, <1>2, <1>4, FilePays, PostPays, ChangePays
<1> QED
  BY <1>2, <1>3, <1>4

\* The user's login: with --save, the next call has the right credential but for what the
\* server's variables say.
LEMMA LoginCounts ==
  ASSUME SInv, NEW s \in Servers, Allowed(s), UserLogin
  PROVE  Allowed(s)'
<1> USE DEF SInv
<1>1. /\ changes' = changes + 1 /\ UNCHANGED <<refused, pc, mine, who, pass, env, refusals, accepts>>
  BY DEF UserLogin, LoginHere, LoginElsewhere, Opens, Change, local, portal
<1>2. SUFFICES ASSUME pc[s] \in {"open", "try", "resolve"}, SameUser(s), SamePassword(s)
               PROVE  \/ CallUser(s)' = User(s)' /\ FoundPassword(s)' = Password(s)'
                      \/ accepts' = accepts /\ CallUser(s)' = CallUser(s)
                           /\ FoundPassword(s)' = FoundPassword(s)
                      \/ ~NowWrong(s)'
  BY <1>1, PostPays, ChangePays
<1>3. CASE UNCHANGED <<stored, cfg>>
  BY <1>1, <1>2, <1>3, FilePays
<1>4. CASE \E u \in Users, d \in Sids :
             file' = [sid |-> d, user |-> u] /\ stored' = accepts[u] /\ cfg' = [cfg EXCEPT !.user = u]
  <2>1. PICK u \in Users, d \in Sids :
          file' = [sid |-> d, user |-> u] /\ stored' = accepts[u] /\ cfg' = [cfg EXCEPT !.user = u]
    BY <1>4
  <2>2. file' \in Saved /\ file'.user = u
    BY <2>1 DEF Saved
  <2>3. stored' \in Passwords /\ stored' # NoPassword
    BY <2>1, Apart DEF TypeOK
  <2>4. cfg'.user = u /\ cfg'.password = cfg.password
    BY <2>1 DEF TypeOK, Config
  <2>5. SamePassword(s)'
    BY <1>1, <1>2, <2>4 DEF SamePassword, Loaded, TypeOK, Config
  <2>6. FoundPassword(s)' = Password(s)'
    BY <2>5 DEF SamePassword, FoundPassword, Password, PasswordWith
  <2>7. Loaded(s).user = IF env[s].user = NoUser THEN cfg.user ELSE env[s].user
    BY DEF Loaded, TypeOK, Config
  <2>8. Loaded(s)'.user = IF env[s].user = NoUser THEN u ELSE env[s].user
    <3>1. cfg' \in Config
      BY <2>1, Fields DEF TypeOK
    <3> QED
      BY <1>1, <2>4, <3>1 DEF Loaded, Config
  <2>9. CASE env[s].user # NoUser
    <3>1. User(s) = env[s].user /\ User(s)' = env[s].user
      BY <2>7, <2>8, <2>9 DEF User, Named
    <3>2. CallUser(s)' = env[s].user
      BY <1>1, <1>2, <2>7, <2>9, <3>1 DEF CallUser, SameUser, Named
    <3> QED
      BY <2>6, <3>1, <3>2
  <2>10. CASE env[s].user = NoUser /\ env[s].password = NoPassword
    <3>1. User(s)' = u
      BY <2>8, <2>10, Apart DEF User, Named
    <3>2. Password(s)' = accepts[u]
      BY <1>1, <2>1, <2>3, <2>10 DEF Password, PasswordWith
    <3> QED
      BY <1>1, <3>1, <3>2 DEF NowWrong, Wrong
  <2>11. CASE env[s].user = NoUser /\ env[s].password # NoPassword
    <3>1. FoundPassword(s)' = FoundPassword(s)
      BY <1>1, <2>11 DEF FoundPassword, PasswordWith
    <3>2. User(s)' = u
      BY <2>8, <2>11, Apart DEF User, Named
    <3>3. CallUser(s)' = CallUser(s) \/ CallUser(s)' = u
      BY <1>1, <2>2 DEF CallUser, Named
    <3> QED
      BY <1>1, <2>6, <3>1, <3>2, <3>3
  <2> QED
    BY <2>9, <2>10, <2>11
<1> QED
  BY <1>3, <1>4 DEF UserLogin, LoginHere, LoginElsewhere

\* The user's other acts, and the portal's.
LEMMA ChangeCounts ==
  ASSUME SInv, NEW s \in Servers, Allowed(s), UserLogout \/ EditSettings \/ ResetPassword
  PROVE  Allowed(s)'
<1> USE DEF SInv
<1>1. changes' = changes + 1 /\ UNCHANGED <<refused, pc, mine, who, pass, env, refusals>>
  BY DEF UserLogout, EditSettings, ResetPassword, Change, local
<1>2. CASE UserLogout
  <2>1. UNCHANGED <<accepts, cfg>> /\ file' = NoFile
    BY <1>2 DEF UserLogout, portal
  <2>2. Loaded(s)' = Loaded(s) /\ SamePassword(s)' = SamePassword(s)
    BY <1>1, <2>1 DEF Loaded, SamePassword
  <2>3. SamePassword(s) => FoundPassword(s)' = Password(s)'
    BY <2>2 DEF SamePassword, FoundPassword, Password, PasswordWith
  <2>4. User(s)' = User(s) \/ User(s)' = NoUser
    BY <2>1, <2>2, Apart DEF User, Named
  <2>5. User(s)' = NoUser => ~NowWrong(s)'
    BY Apart DEF NowWrong, Wrong
  <2>6. pc[s] \in {"open", "try", "resolve"} /\ SameUser(s) =>
          CallUser(s)' = User(s)' \/ User(s)' = NoUser
    BY <1>1, <2>2, <2>4 DEF SameUser, CallUser, User
  <2> QED
    BY <1>1, <2>1, <2>3, <2>5, <2>6, PostPays, ChangePays
<1>3. CASE EditSettings
  <2>1. UNCHANGED <<accepts, file>> /\ (cfg' = cfg \/ stored' = stored)
    BY <1>3 DEF EditSettings, portal
  <2>2. \A u : Named(u)' = Named(u)
    BY <2>1, SameNames
  <2>3. CASE cfg' = cfg
    <3>1. Loaded(s)' = Loaded(s) /\ SamePassword(s)' = SamePassword(s)
      BY <1>1, <2>3 DEF Loaded, SamePassword
    <3>2. SamePassword(s) => FoundPassword(s)' = Password(s)'
      BY <3>1 DEF SamePassword, FoundPassword, Password, PasswordWith
    <3>3. SameUser(s) => CallUser(s)' = User(s)'
      BY <1>1, <2>2, <3>1 DEF SameUser, CallUser, User
    <3> QED
      BY <1>1, <2>1, <3>2, <3>3, PostPays, ChangePays
  <2>4. CASE stored' = stored
    <3>1. FoundPassword(s)' = FoundPassword(s) /\ CallUser(s)' = CallUser(s)
      BY <1>1, <2>2, <2>4 DEF FoundPassword, PasswordWith, CallUser
    <3> QED
      BY <1>1, <2>1, <3>1, PostPays, ChangePays
  <2> QED
    BY <2>1, <2>3, <2>4
<1>4. CASE ResetPassword
  <2>1. PICK u \in Users, w \in Passwords : accepts' = [accepts EXCEPT ![u] = w]
    BY <1>4 DEF ResetPassword
  <2>2. UNCHANGED <<file, stored, cfg>>
    BY <1>4 DEF ResetPassword, disk
  <2>3. /\ Loaded(s)' = Loaded(s) /\ Password(s)' = Password(s)
        /\ FoundPassword(s)' = FoundPassword(s) /\ \A x : Named(x)' = Named(x)
    BY <1>1, <2>2, SameReads, SameNames
  <2>4. User(s)' = User(s) /\ CallUser(s)' = CallUser(s)
    BY <1>1, <2>3 DEF User, CallUser
  <2>5. SameUser(s) /\ SamePassword(s) => CallUser(s)' = User(s)' /\ FoundPassword(s)' = Password(s)'
    BY <2>3, <2>4, Agreeing DEF SameUser, CallUser, User
  <2>6. \A x, v : x # u => Wrong(x, v)' = Wrong(x, v)
    BY <2>1 DEF Wrong, TypeOK
  <2>7. pc[s] = "post" => (MayRefuseTwice(s)' => MayRefuse(s))
    <3>1. SUFFICES ASSUME pc[s] = "post", Wrong(who[s], pass[s])', ~IsNow(s), NowWrong(s)',
                          ~Wrong(who[s], pass[s])
                   PROVE  NowWrong(s)
      BY <1>1, <2>3, <2>4 DEF MayRefuse, MayRefuseTwice, IsNow
    <3>2. who[s] = u /\ who[s] \in Users /\ pass[s] \in Passwords
      BY <1>1, <2>6, <3>1 DEF Wrong
    <3>3. accepts[u] = pass[s]
      BY <3>1, <3>2 DEF Wrong
    <3>4. CASE User(s) = u
      <4>1. Password(s) \in Passwords
        BY <2>3, <3>1 DEF NowWrong, Wrong
      <4>2. Password(s) # accepts[u]
        BY <3>1, <3>2, <3>3, <3>4 DEF IsNow
      <4> QED
        BY <3>2, <3>4, <4>1, <4>2 DEF NowWrong, Wrong
    <3>5. CASE User(s) # u
      BY <2>3, <2>4, <2>6, <3>1, <3>5 DEF NowWrong
    <3> QED
      BY <3>4, <3>5
  <2> QED
    BY <1>1, <2>5, <2>7, ChangePays
<1> QED
  BY <1>2, <1>3, <1>4

\* Every step keeps the count.
LEMMA NextAllowed ==
  ASSUME SInv, [Next]_vars, NEW s \in Servers, Allowed(s)
  PROVE  Allowed(s)'
<1> USE DEF SInv
<1>1. CASE \E p \in Procs : ProcStep(p)
  <2>1. PICK p \in Procs : ProcStep(p)
    BY <1>1
  <2>2. CASE p = s
    BY <2>1, <2>2, CallCounts, PostCounts, SaveCounts DEF ProcStep
  <2>3. CASE p # s /\ Save(p)
    BY <2>3, OtherSaveCounts
  <2>4. CASE p # s /\ ~Save(p)
    <3>1. UNCHANGED <<accepts, file, stored, cfg, env, changes>>
      BY <2>1, <2>4 DEF ProcStep, Begin, Open, Try, Resolve, Post, Retry, Finish, Opens, portal, disk
    <3>2. /\ pc'[s] = pc[s] /\ mine'[s] = mine[s] /\ who'[s] = who[s] /\ pass'[s] = pass[s]
          /\ refused'[s] = refused[s] /\ refusals'[s] = refusals[s]
      BY <2>1, <2>4, Apart
         DEF ProcStep, Begin, Open, Try, Resolve, Post, Retry, Finish, Answered, Fails, Outage, Go,
             portal, TypeOK
    <3>3. \A u : Named(u)' = Named(u)
      BY <3>1, SameNames
    <3> QED
      BY <3>1, <3>2, <3>3, NothingCounts
  <2> QED
    BY <2>2, <2>3, <2>4
<1>2. CASE UserLogin \/ UserLogout \/ EditSettings \/ ResetPassword
  BY <1>2, LoginCounts, ChangeCounts
<1>3. CASE Lapse \/ UNCHANGED vars
  <2>1. /\ UNCHANGED <<accepts, file, stored, cfg, env, changes, pc, mine, who, pass, refused, refusals>>
    BY <1>3 DEF Lapse, vars, disk, local
  <2>2. \A u : Named(u)' = Named(u)
    BY <2>1, SameNames
  <2> QED
    BY <2>1, <2>2, NothingCounts
<1> QED
  BY <1>1, <1>2, <1>3 DEF Next

\* A server sees at most one refusal more than there were changes, whatever the logins,
\* passwords and processes (Refused::sign_in).
THEOREM Refusals == Spec => []RefusalsNeedAChange
<1> DEFINE Inv == SInv /\ \A s \in Servers : Allowed(s)
<1>1. Init => Inv
  <2>1. ASSUME Init, NEW s \in Servers PROVE Allowed(s)
    <3>1. s \in Procs
      BY Apart
    <3>2. refusals[s] = 0 /\ changes = 0 /\ pc[s] = "idle"
      BY <2>1, <3>1 DEF Init
    <3> QED
      BY <3>2 DEF Allowed, MayRefuse, MayRefuseTwice
  <2> QED
    BY <2>1, InitSInv
<1>2. Inv /\ [Next]_vars => Inv'
  BY NextSInv, NextAllowed
<1>3. Inv => RefusalsNeedAChange
  BY DEF Allowed, RefusalsNeedAChange
<1> QED
  BY <1>1, <1>2, <1>3, PTL DEF Spec
=============================================================================
