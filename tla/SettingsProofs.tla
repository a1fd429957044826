---------------------------- MODULE SettingsProofs ----------------------------
(* Theorems about Settings, for any number of commands at once and any       *)
(* ./tojfl.toml.                                                             *)
EXTENDS Settings, TLAPS

\* A setting replaced by one of its values leaves a config.
LEMMA Configs ==
  /\ Default \in Config
  /\ \A c \in Config, u \in {Unset, Username} : [c EXCEPT !["username"] = u] \in Config
  /\ \A c \in Config, h \in {Unset, "chosen", "local"} : [c EXCEPT !["base_url"] = h] \in Config
  /\ Values["base_url"] = {Unset, "chosen", "local"}
<1> DEFINE All == UNION {Values[k] : k \in Keys}
<1>1. /\ Values["username"] = {Unset, Username} /\ Values["base_url"] = {Unset, "chosen", "local"}
      /\ Keys = {"username", "base_url"}
  BY DEF Values, Keys
<1>2. All = {Unset, Username, "chosen", "local"}
  BY <1>1
<1>3. Config = {c \in [Keys -> All] : \A k \in Keys : c[k] \in Values[k]}
  BY DEF Config
<1> HIDE DEF All
<1>4. Default \in Config
  BY <1>1, <1>2, <1>3 DEF Default
<1>5. \A c \in Config, u \in {Unset, Username} : [c EXCEPT !["username"] = u] \in Config
  BY <1>1, <1>2, <1>3
<1>6. \A c \in Config, h \in {Unset, "chosen", "local"} : [c EXCEPT !["base_url"] = h] \in Config
  BY <1>1, <1>2, <1>3
<1> QED
  BY <1>1, <1>4, <1>5, <1>6

\* The model values are apart.
LEMMA Apart == Missing \notin Config /\ Empty \notin Config /\ Empty # Missing
  BY SettingsAssumption

LEMMA LoadedIsConfig == TypeOK => Loaded \in Config
  BY SettingsAssumption, Configs DEF TypeOK, Loaded

LEMMA SavedIsConfig ==
  ASSUME TypeOK, NEW p \in Procs
  PROVE  Saved(p) \in Config
<1>1. mine[p] \in Config /\ value[p] \in {Unset, "chosen", "local"}
  BY Configs DEF TypeOK
<1> QED
  BY <1>1, Configs DEF Saved

-----------------------------------------------------------------------------
\* The config on disk is the last one written to its end, unless it was cut off.
Written == (osfile \in Config => osfile = whole) /\ (osfile = Missing => whole = Default)

\* Each step is one of the jobs it is a step of.
Placed(p) ==
  /\ pc[p] = "idle" <=> job[p] = "none"
  /\ pc[p] = "idle" => meddled[p] = {} /\ failed[p] = {}
  /\ pc[p] \in {"truncate", "write"} => job[p] \in {"init", "set", "save"}
  /\ pc[p] \in {"signin", "temp", "fill", "rename"} => job[p] \in {"login", "save"}
  /\ pc[p] = "keychain" => job[p] = "save"
  /\ pc[p] \in {"portal", "exists", "unlink"} => job[p] \in {"logout", "forget"}
  /\ pc[p] \in {"token", "password"} => job[p] = "forget"

\* The temporary file is there while it is being made, and stays if it cannot be removed.
Temps(p) ==
  /\ pc[p] = "rename" => temp[p] = "whole"
  /\ pc[p] \notin {"fill", "rename"} => temp[p] = "none" \/ "temp" \in failed[p]
  /\ pc[p] # "done" => "temp" \notin failed[p]

\* What --forget has dealt with is gone, or failed to go, or is another's.
Forgotten(p) ==
  job[p] = "forget" =>
    /\ pc[p] \in {"token", "password", "done"} =>
         session = "none" \/ "session" \in failed[p] \cup meddled[p]
    /\ pc[p] \in {"password", "done"} => "token" \notin keychain \/ "token" \in failed[p] \cup meddled[p]
    /\ pc[p] = "done" => "password" \notin keychain \/ "password" \in failed[p] \cup meddled[p]

\* What --save has dealt with is there, if nothing failed, or another changed it.
Stored(p) ==
  job[p] = "save" /\ failed[p] = {} =>
    /\ pc[p] \in {"keychain", "truncate", "write", "done"} =>
         session = "whole" \/ "session" \in meddled[p]
    /\ pc[p] \in {"truncate", "write", "done"} => "password" \in keychain \cup meddled[p]
    /\ pc[p] = "done" => "config" \in meddled[p]
                           \/ (osfile \in Config /\ osfile["username"] = Username)

\* The config a command is about to change is the one on disk, if it came from there.
Fresh(p) ==
  job[p] \in {"init", "set", "save"} /\ pc[p] # "done" /\ from[p] = "whole"
      /\ "config" \notin meddled[p] => mine[p] = whole

Own(p) == Placed(p) /\ Temps(p) /\ Forgotten(p) /\ Stored(p) /\ Fresh(p)

\* The inductive invariant.
SetInv == TypeOK /\ Written /\ SessionIsWhole /\ \A p \in Procs : Own(p)

LEMMA InitSetInv == Init => SetInv
<1> SUFFICES ASSUME Init PROVE SetInv
  OBVIOUS
<1>1. TypeOK
  <2>1. Unset \in Values["base_url"] /\ Default \in Config
    BY Configs
  <2> QED
    BY <2>1 DEF Init, TypeOK, Parts, Steps, Jobs
<1>2. Written /\ SessionIsWhole
  BY Apart DEF Init, Written, SessionIsWhole
<1>3. ASSUME NEW p \in Procs PROVE Own(p)
  BY DEF Init, Own, Placed, Temps, Forgotten, Stored, Fresh
<1> QED
  BY <1>1, <1>2, <1>3 DEF SetInv

\* What p does not step itself: each change of what it watches is noted.
LEMMA OthersKeep ==
  ASSUME TypeOK, NEW p \in Procs, Own(p),
         pc'[p] = pc[p], job'[p] = job[p], mine'[p] = mine[p], from'[p] = from[p],
         failed'[p] = failed[p], temp'[p] = temp[p],
         job[p] # "none" => meddled[p] \subseteq meddled'[p],
         job[p] = "none" => meddled'[p] = meddled[p],
         job[p] \in {"init", "set", "save"} =>
           (osfile' = osfile /\ whole' = whole) \/ "config" \in meddled'[p],
         job[p] \in {"save", "forget"} => session' = session \/ "session" \in meddled'[p],
         job[p] \in {"save", "forget"} =>
           ("password" \in keychain' <=> "password" \in keychain) \/ "password" \in meddled'[p],
         job[p] = "forget" => ("token" \in keychain' => "token" \in keychain) \/ "token" \in meddled'[p]
  PROVE  Own(p)'
<1>1. Placed(p)' /\ Temps(p)'
  BY DEF Own, Placed, Temps
<1>2. Forgotten(p)'
  BY DEF Own, Forgotten
<1>3. Stored(p)'
  BY DEF Own, Stored
<1>4. Fresh(p)'
  BY DEF Own, Fresh
<1> QED
  BY <1>1, <1>2, <1>3, <1>4 DEF Own

\* What a process changes is noted by those that watch it, and by itself not.
LEMMA ChangesNote ==
  ASSUME TypeOK, NEW p \in Procs, NEW i \in Items \cup {"config"}, Changes(p, i)
  PROVE  /\ meddled' \in [Procs -> SUBSET (Items \cup {"config"})]
         /\ meddled'[p] = meddled[p]
         /\ \A q \in Procs \ {p} :
              /\ meddled[q] \subseteq meddled'[q]
              /\ job[q] = "none" => meddled'[q] = meddled[q]
              /\ i = "config" /\ job[q] \in {"init", "set", "save"} => i \in meddled'[q]
              /\ i \in {"session", "password"} /\ job[q] \in {"save", "forget"} => i \in meddled'[q]
              /\ i = "token" /\ job[q] = "forget" => i \in meddled'[q]
<1>1. \A q \in Procs : Watched(job[q]) \subseteq Items \cup {"config"}
  BY DEF Watched, Items
<1>2. meddled' = [q \in Procs |-> IF q # p THEN meddled[q] \cup ({i} \cap Watched(job[q]))
                                            ELSE meddled[q]]
  BY DEF Changes
<1>3. \A q \in Procs : job[q] = "none" => Watched(job[q]) = {}
  BY DEF Watched
<1>4. \A q \in Procs :
        /\ job[q] \in {"init", "set", "save"} => "config" \in Watched(job[q])
        /\ job[q] \in {"save", "forget"} => {"session", "password"} \subseteq Watched(job[q])
        /\ job[q] = "forget" => "token" \in Watched(job[q])
  BY DEF Watched, Items
<1> QED
  BY <1>1, <1>2, <1>3, <1>4 DEF TypeOK

-----------------------------------------------------------------------------
\* A command starts with what it loads.
LEMMA StartKeeps ==
  ASSUME SetInv, NEW p \in Procs, StartSet(p) \/ StartLogin(p) \/ StartLogout(p)
  PROVE  SetInv'
<1> USE DEF SetInv
<1>1. /\ UNCHANGED <<osfile, localfile, session, temp, left, keychain, failed, whole, meddled>>
      /\ pc[p] = "idle" /\ job[p] = "none"
      /\ \A q \in Procs \ {p} : pc'[q] = pc[q] /\ job'[q] = job[q] /\ mine'[q] = mine[q]
                                  /\ from'[q] = from[q]
  BY DEF StartSet, StartLogin, StartLogout, files, Go, TypeOK, Own, Placed
<1>2. Loaded \in Config /\ [Loaded EXCEPT !["base_url"] = "chosen"] \in Config
  BY LoadedIsConfig, Configs
<1>3. Source \in {"local", "empty", "whole"} /\ (Source = "whole" => Loaded = whole)
  BY Apart DEF Source, Loaded, Written, TypeOK
<1>4. TypeOK'
  <2>1. mine' \in [Procs -> Config]
    BY <1>2 DEF TypeOK, StartSet, StartLogin, StartLogout
  <2>2. from' \in [Procs -> {"none", "flags", "local", "whole", "empty"}]
    BY <1>3 DEF TypeOK, StartSet, StartLogin, StartLogout
  <2>3. job' \in [Procs -> Jobs] /\ pc' \in [Procs -> Steps]
    BY DEF TypeOK, StartSet, StartLogin, StartLogout, Jobs, Steps, Go
  <2>4. value' \in [Procs -> Values["base_url"]]
    BY Configs DEF TypeOK, StartSet, StartLogin, StartLogout
  <2> QED
    BY <1>1, <2>1, <2>2, <2>3, <2>4 DEF TypeOK
<1>5. \A q \in Procs \ {p} : Own(q)'
  BY <1>1, OthersKeep
<1>6. Own(p)'
  <2>1. \/ pc'[p] = "truncate" /\ job'[p] \in {"init", "set"} /\ mine'[p] = Loaded /\ from'[p] = Source
        \/ /\ pc'[p] = "signin" /\ job'[p] \in {"login", "save"}
           /\ from'[p] # "whole" \/ (from'[p] = Source /\ mine'[p] = Loaded)
        \/ pc'[p] = "portal" /\ job'[p] \in {"logout", "forget"}
    BY DEF StartSet, StartLogin, StartLogout, Go, TypeOK
  <2>2. temp'[p] = "none"
    BY <1>1 DEF Own, Temps
  <2> QED
    BY <1>1, <1>3, <2>1, <2>2 DEF Own, Placed, Temps, Forgotten, Stored, Fresh
<1>7. Written' /\ SessionIsWhole'
  BY <1>1 DEF Written, SessionIsWhole
<1> QED
  BY <1>4, <1>5, <1>6, <1>7

\* A step that fails changes nothing but that.
LEMMA FailKeeps ==
  ASSUME SetInv, NEW p \in Procs, NEW i \in Items \cup {"config", "signin"}, NEW at \in Steps,
         Fails(p, i, at), pc[p] \notin {"idle", "done", "fill", "rename"},
         UNCHANGED <<osfile, localfile, session, temp, left, keychain, own, whole, meddled>>,
         \/ at = "done" /\ (job[p] = "forget" => pc[p] = "password" /\ i = "password")
         \/ at = "password" /\ pc[p] = "token" /\ i = "token"
         \/ at = "token" /\ job[p] = "forget" /\ pc[p] \in {"portal", "unlink"} /\ i = "session"
  PROVE  SetInv'
<1> USE DEF SetInv
<1>1. /\ \A q \in Procs \ {p} : pc'[q] = pc[q] /\ failed'[q] = failed[q] /\ temp'[q] = temp[q]
      /\ pc'[p] = at /\ failed'[p] = failed[p] \cup {i} /\ temp'[p] = "none" /\ i # "temp"
      /\ UNCHANGED <<job, value, mine, from>>
  BY DEF Fails, Go, TypeOK, own, Own, Temps, Items
<1>2. TypeOK'
  BY <1>1 DEF Fails, Go, TypeOK, Parts
<1>3. \A q \in Procs \ {p} : Own(q)'
  BY <1>1, OthersKeep
<1>4. Own(p)'
  BY <1>1 DEF Own, Placed, Temps, Forgotten, Stored, Fresh
<1>5. Written' /\ SessionIsWhole'
  BY DEF Written, SessionIsWhole
<1> QED
  BY <1>2, <1>3, <1>4, <1>5

\* Nor does a save that fails, but for its temporary file.
LEMMA SaveFailKeeps ==
  ASSUME SetInv, NEW p \in Procs, SaveFails(p), pc[p] \in {"temp", "fill", "rename"},
         UNCHANGED <<osfile, localfile, left, keychain, own, whole, meddled>>
  PROVE  SetInv'
<1> USE DEF SetInv
<1>1. UNCHANGED <<session, job, value, mine, from>> /\ job[p] \in {"login", "save"}
  BY DEF SaveFails, own, Own, Placed
<1>2. /\ \A q \in Procs \ {p} : pc'[q] = pc[q] /\ failed'[q] = failed[q] /\ temp'[q] = temp[q]
      /\ pc'[p] = "done" /\ "session" \in failed'[p]
      /\ temp'[p] = "none" \/ "temp" \in failed'[p]
  BY DEF SaveFails, Removed, Go, TypeOK
<1>3. TypeOK'
  <2>1. failed' \in [Procs -> SUBSET (Items \cup {"config", "signin", "temp"})]
    BY DEF SaveFails, TypeOK, Items
  <2>2. temp' \in [Procs -> Parts] /\ pc' \in [Procs -> Steps]
    BY DEF SaveFails, Removed, Go, TypeOK, Parts, Steps
  <2> QED
    BY <1>1, <2>1, <2>2 DEF TypeOK
<1>4. \A q \in Procs \ {p} : Own(q)'
  BY <1>1, <1>2, OthersKeep
<1>5. Own(p)'
  BY <1>1, <1>2 DEF Own, Placed, Temps, Forgotten, Stored, Fresh
<1>6. Written' /\ SessionIsWhole'
  BY <1>1 DEF Written, SessionIsWhole
<1> QED
  BY <1>3, <1>4, <1>5, <1>6

\* config.toml is cut to nothing, and written.
LEMMA ConfigKeeps ==
  ASSUME SetInv, NEW p \in Procs, Truncate(p) \/ Write(p)
  PROVE  SetInv'
<1> USE DEF SetInv
<1>1. pc[p] \in {"truncate", "write"} /\ job[p] \in {"init", "set", "save"}
  BY DEF Truncate, Write, Own, Placed
<1>2. CASE Fails(p, "config", "done") /\ UNCHANGED <<osfile, localfile, session, temp, left, keychain, own, whole, meddled>>
  BY <1>1, <1>2, FailKeeps DEF Steps
<1>3. CASE /\ Changes(p, "config") /\ UNCHANGED <<localfile, session, temp, left, keychain, own, failed>>
           /\ \/ osfile' = Empty /\ whole' = whole /\ Go(p, "write")
              \/ pc[p] = "write" /\ osfile' = Saved(p) /\ whole' = Saved(p) /\ Go(p, "done")
  <2>1. /\ meddled' \in [Procs -> SUBSET (Items \cup {"config"})]
        /\ meddled'[p] = meddled[p]
        /\ \A q \in Procs \ {p} :
             /\ meddled[q] \subseteq meddled'[q]
             /\ job[q] = "none" => meddled'[q] = meddled[q]
             /\ job[q] \in {"init", "set", "save"} => "config" \in meddled'[q]
    BY <1>3, ChangesNote
  <2>2. UNCHANGED <<job, value, mine, from>> /\ \A q \in Procs \ {p} : pc'[q] = pc[q]
    BY <1>3 DEF own, Go, TypeOK
  <2>3. Saved(p) \in Config
    BY SavedIsConfig
  <2>4. TypeOK'
    BY <1>3, <2>1, <2>2, <2>3 DEF TypeOK, Go, Steps
  <2>5. \A q \in Procs \ {p} : Own(q)'
    BY <1>3, <2>1, <2>2, OthersKeep
  <2>6. \/ pc'[p] = "write" /\ whole' = whole
        \/ pc[p] = "write" /\ pc'[p] = "done" /\ osfile' = Saved(p)
    BY <1>3 DEF Go, TypeOK
  <2>7. job[p] = "save" => Saved(p)["username"] = Username
    <3>1. mine[p] \in Config /\ "username" \in Keys
      BY DEF TypeOK, Keys
    <3>2. "username" \in DOMAIN mine[p]
      BY <3>1 DEF Config
    <3> QED
      BY <3>2 DEF Saved
  <2>8. Own(p)'
    BY <1>1, <1>3, <2>1, <2>2, <2>3, <2>6, <2>7 DEF Own, Placed, Temps, Forgotten, Stored, Fresh
  <2>9. Written' /\ SessionIsWhole'
    BY <1>3, <2>3, Apart DEF Written, SessionIsWhole
  <2> QED
    BY <2>4, <2>5, <2>8, <2>9
<1> QED
  BY <1>2, <1>3 DEF Truncate, Write, own

\* The sign-in and the temporary file.
LEMMA LoginKeeps ==
  ASSUME SetInv, NEW p \in Procs, SignIn(p) \/ OpenTemp(p) \/ FillTemp(p)
  PROVE  SetInv'
<1> USE DEF SetInv
<1>1. pc[p] \in {"signin", "temp", "fill"} /\ job[p] \in {"login", "save"}
      /\ UNCHANGED <<osfile, localfile, session, left, keychain, job, value, mine, from, whole, meddled>>
  BY DEF SignIn, OpenTemp, FillTemp, WriteSession, SaveFails, Own, Placed, files, own
<1>2. CASE Fails(p, "signin", "done") /\ temp' = temp /\ left' = left /\ pc[p] = "signin"
  BY <1>1, <1>2, FailKeeps DEF Steps, Items, own
<1>4. CASE SaveFails(p) /\ left' = left /\ pc[p] \in {"temp", "fill"}
  BY <1>1, <1>4, SaveFailKeeps DEF own
<1>3. CASE /\ failed' = failed
           /\ \/ pc[p] = "signin" /\ temp' = temp /\ Go(p, "temp")
              \/ temp' = [temp EXCEPT ![p] = "half"] /\ Go(p, "fill")
              \/ temp' = [temp EXCEPT ![p] = "whole"] /\ Go(p, "rename")
  <2>1. /\ \A q \in Procs \ {p} : pc'[q] = pc[q] /\ temp'[q] = temp[q]
        /\ \/ pc'[p] = "temp" /\ temp'[p] = "none"
           \/ pc'[p] = "fill"
           \/ pc'[p] = "rename" /\ temp'[p] = "whole"
    BY <1>3 DEF Go, TypeOK, Own, Temps
  <2>2. TypeOK'
    BY <1>1, <1>3 DEF TypeOK, Go, Steps, Parts
  <2>3. \A q \in Procs \ {p} : Own(q)'
    BY <1>1, <1>3, <2>1, OthersKeep
  <2>4. Own(p)'
    BY <1>1, <1>3, <2>1 DEF Own, Placed, Temps, Forgotten, Stored, Fresh
  <2>5. Written' /\ SessionIsWhole'
    BY <1>1 DEF Written, SessionIsWhole
  <2> QED
    BY <2>2, <2>3, <2>4, <2>5
<1> QED
  BY <1>1, <1>2, <1>3, <1>4 DEF SignIn, OpenTemp, FillTemp, WriteSession, files

\* The rename puts a whole session in the place of whatever is there; a logout takes it
\* away.
LEMMA SessionKeeps ==
  ASSUME SetInv, NEW p \in Procs, Rename(p) \/ Unlink(p)
  PROVE  SetInv'
<1> USE DEF SetInv
<1>1. /\ UNCHANGED <<osfile, localfile, left, keychain, job, value, mine, from, whole>>
      /\ \/ pc[p] = "rename" /\ job[p] \in {"login", "save"} /\ temp[p] = "whole"
         \/ pc[p] = "unlink" /\ job[p] \in {"logout", "forget"} /\ temp[p] = "none"
  BY DEF Rename, Unlink, Own, Placed, Temps, own
<1>2. CASE /\ Fails(p, "session", IF job[p] = "forget" THEN "token" ELSE "done")
           /\ UNCHANGED <<session, temp, meddled>> /\ pc[p] = "unlink"
  BY <1>1, <1>2, FailKeeps DEF Steps, Items, own
<1>4. CASE SaveFails(p) /\ UNCHANGED meddled /\ pc[p] = "rename"
  BY <1>1, <1>4, SaveFailKeeps DEF own
<1>3. CASE /\ failed' = failed /\ Changes(p, "session")
           /\ \/ /\ pc[p] = "rename" /\ session' = temp[p] /\ temp' = [temp EXCEPT ![p] = "none"]
                 /\ Go(p, IF job[p] = "save" THEN "keychain" ELSE "done")
              \/ /\ pc[p] = "unlink" /\ session' = "none" /\ temp' = temp
                 /\ Go(p, IF job[p] = "forget" THEN "token" ELSE "done")
  <2>1. /\ meddled' \in [Procs -> SUBSET (Items \cup {"config"})]
        /\ meddled'[p] = meddled[p]
        /\ \A q \in Procs \ {p} :
             /\ meddled[q] \subseteq meddled'[q]
             /\ job[q] = "none" => meddled'[q] = meddled[q]
             /\ job[q] \in {"save", "forget"} => "session" \in meddled'[q]
    BY <1>3, ChangesNote DEF Items
  <2>2. /\ \A q \in Procs \ {p} : pc'[q] = pc[q] /\ temp'[q] = temp[q]
        /\ temp'[p] = "none" /\ session' \in {"none", "whole"}
        /\ \/ pc[p] = "rename" /\ session' = "whole" /\ pc'[p] = IF job[p] = "save" THEN "keychain" ELSE "done"
           \/ pc[p] = "unlink" /\ session' = "none" /\ pc'[p] = IF job[p] = "forget" THEN "token" ELSE "done"
    BY <1>1, <1>3 DEF Go, TypeOK
  <2>3. TypeOK'
    BY <1>1, <1>3, <2>1, <2>2 DEF TypeOK, Go, Steps, Parts
  <2>4. \A q \in Procs \ {p} : Own(q)'
    BY <1>1, <1>3, <2>1, <2>2, OthersKeep
  <2>5. Own(p)'
    BY <1>1, <1>3, <2>1, <2>2 DEF Own, Placed, Temps, Forgotten, Stored, Fresh
  <2>6. Written' /\ SessionIsWhole'
    BY <1>1, <2>2 DEF Written, SessionIsWhole
  <2> QED
    BY <2>3, <2>4, <2>5, <2>6
<1> QED
  BY <1>1, <1>2, <1>3, <1>4 DEF Rename, Unlink, AfterSession

\* The keychain.
LEMMA KeychainKeeps ==
  ASSUME SetInv, NEW p \in Procs, SetPassword(p) \/ ForgetToken(p) \/ ForgetPassword(p)
  PROVE  SetInv'
<1> USE DEF SetInv
<1>1. /\ UNCHANGED <<osfile, localfile, session, temp, left, job, value, mine, from, whole>>
      /\ pc[p] \in {"keychain", "token", "password"} /\ temp[p] = "none"
      /\ IF pc[p] = "keychain" THEN job[p] = "save" ELSE job[p] = "forget"
  BY DEF SetPassword, ForgetToken, ForgetPassword, Forget, Own, Placed, Temps, own
<1>2. CASE /\ UNCHANGED <<keychain, meddled>>
           /\ \/ pc[p] = "keychain" /\ Fails(p, "password", "done")
              \/ pc[p] = "token" /\ Fails(p, "token", "password")
              \/ pc[p] = "password" /\ Fails(p, "password", "done")
  BY <1>1, <1>2, FailKeeps DEF Steps, Items, own
<1>3. CASE /\ failed' = failed
           /\ \/ /\ pc[p] = "keychain" /\ keychain' = keychain \cup {"password"}
                 /\ Go(p, "truncate") /\ Changes(p, "password")
              \/ /\ pc[p] = "token" /\ keychain' = keychain \ {"token"}
                 /\ Go(p, "password") /\ Changes(p, "token")
              \/ /\ pc[p] = "password" /\ keychain' = keychain \ {"password"}
                 /\ Go(p, "done") /\ Changes(p, "password")
  <2>1. /\ meddled' \in [Procs -> SUBSET (Items \cup {"config"})]
        /\ meddled'[p] = meddled[p]
        /\ \A q \in Procs \ {p} :
             /\ meddled[q] \subseteq meddled'[q]
             /\ job[q] = "none" => meddled'[q] = meddled[q]
             /\ job[q] \in {"save", "forget"} =>
                  ("password" \in keychain' <=> "password" \in keychain) \/ "password" \in meddled'[q]
    BY <1>3, ChangesNote DEF Items
  <2>2. /\ \A q \in Procs \ {p} : pc'[q] = pc[q]
        /\ \/ pc[p] = "keychain" /\ pc'[p] = "truncate"
           \/ pc[p] = "token" /\ pc'[p] = "password"
           \/ pc[p] = "password" /\ pc'[p] = "done"
    BY <1>1, <1>3 DEF Go, TypeOK
  <2>3. keychain' \subseteq {"token", "password"} /\ ("token" \in keychain' => "token" \in keychain)
    BY <1>3 DEF TypeOK
  <2>4. TypeOK'
    BY <1>1, <1>3, <2>1, <2>3 DEF TypeOK, Go, Steps
  <2>5. \A q \in Procs \ {p} : Own(q)'
    BY <1>1, <1>3, <2>1, <2>2, <2>3, OthersKeep
  <2>6. Own(p)'
    BY <1>1, <1>3, <2>1, <2>2 DEF Own, Placed, Temps, Forgotten, Stored, Fresh
  <2>7. Written' /\ SessionIsWhole'
    BY <1>1 DEF Written, SessionIsWhole
  <2> QED
    BY <2>4, <2>5, <2>6, <2>7
<1> QED
  BY <1>2, <1>3 DEF SetPassword, ForgetToken, ForgetPassword, Forget, Reports

\* `config set-password` and `config clear-password` are one step.
LEMMA EditKeeps ==
  ASSUME SetInv, NEW p \in Procs, EditPassword(p)
  PROVE  SetInv'
<1> USE DEF SetInv
<1>1. /\ UNCHANGED <<osfile, localfile, session, temp, left, job, value, mine, from, pc, failed, whole>>
      /\ pc[p] = "idle" /\ job[p] = "none" /\ Changes(p, "password")
      /\ keychain' \in {keychain \cup {"password"}, keychain \ {"password"}}
  BY DEF EditPassword, own, Own, Placed
<1>2. /\ meddled' \in [Procs -> SUBSET (Items \cup {"config"})]
      /\ meddled'[p] = meddled[p]
      /\ \A q \in Procs \ {p} :
           /\ meddled[q] \subseteq meddled'[q]
           /\ job[q] = "none" => meddled'[q] = meddled[q]
           /\ job[q] \in {"save", "forget"} => "password" \in meddled'[q]
  BY <1>1, ChangesNote DEF Items
<1>3. TypeOK'
  BY <1>1, <1>2 DEF TypeOK
<1>4. \A q \in Procs : Own(q)'
  BY <1>1, <1>2, OthersKeep
<1>5. Written' /\ SessionIsWhole'
  BY <1>1 DEF Written, SessionIsWhole
<1> QED
  BY <1>3, <1>4, <1>5

\* A logout up to its deletions.
LEMMA LogoutKeeps ==
  ASSUME SetInv, NEW p \in Procs, MakePortal(p) \/ SessionExists(p)
  PROVE  SetInv'
<1> USE DEF SetInv
<1>1. /\ pc[p] \in {"portal", "exists"} /\ job[p] \in {"logout", "forget"} /\ temp[p] = "none"
      /\ UNCHANGED <<osfile, localfile, session, temp, left, keychain, job, value, mine, from, whole, meddled>>
  BY DEF MakePortal, SessionExists, Own, Placed, Temps, files, own
<1>2. CASE pc[p] = "portal" /\ Fails(p, "session", IF job[p] = "forget" THEN "token" ELSE "done")
  BY <1>1, <1>2, FailKeeps DEF Steps, Items, own
<1>3. CASE /\ failed' = failed
           /\ \/ Go(p, "exists")
              \/ Go(p, "unlink")
              \/ session = "none" /\ Go(p, IF job[p] = "forget" THEN "token" ELSE "done")
  <2>1. /\ \A q \in Procs \ {p} : pc'[q] = pc[q]
        /\ \/ pc'[p] \in {"exists", "unlink"}
           \/ session = "none" /\ pc'[p] = IF job[p] = "forget" THEN "token" ELSE "done"
    BY <1>3 DEF Go, TypeOK
  <2>2. TypeOK'
    BY <1>1, <1>3 DEF TypeOK, Go, Steps
  <2>3. \A q \in Procs \ {p} : Own(q)'
    BY <1>1, <1>3, <2>1, OthersKeep
  <2>4. Own(p)'
    BY <1>1, <1>3, <2>1 DEF Own, Placed, Temps, Forgotten, Stored, Fresh
  <2>5. Written' /\ SessionIsWhole'
    BY <1>1 DEF Written, SessionIsWhole
  <2> QED
    BY <2>2, <2>3, <2>4, <2>5
<1> QED
  BY <1>2, <1>3 DEF MakePortal, SessionExists, AfterSession

\* A process ends.
LEMMA EndKeeps ==
  ASSUME SetInv, NEW p \in Procs, Exit(p) \/ Kill(p)
  PROVE  SetInv'
<1> USE DEF SetInv
<1>1. /\ UNCHANGED <<osfile, localfile, session, keychain, whole>>
      /\ \A q \in Procs \ {p} :
           /\ pc'[q] = pc[q] /\ job'[q] = job[q] /\ mine'[q] = mine[q] /\ from'[q] = from[q]
           /\ failed'[q] = failed[q] /\ meddled'[q] = meddled[q] /\ temp'[q] = temp[q]
      /\ pc'[p] = "idle" /\ job'[p] = "none" /\ meddled'[p] = {} /\ failed'[p] = {} /\ temp'[p] = "none"
      /\ left' \in BOOLEAN
  BY DEF Exit, Kill, Ends, Go, TypeOK, Own, Temps
<1>2. TypeOK'
  <2>1. mine' \in [Procs -> Config] /\ value' \in [Procs -> Values["base_url"]]
    BY Configs DEF Exit, Kill, Ends, TypeOK
  <2> QED
    BY <1>1, <2>1 DEF Exit, Kill, Ends, Go, TypeOK, Steps, Jobs, Parts
<1>3. \A q \in Procs \ {p} : Own(q)'
  BY <1>1, OthersKeep
<1>4. Own(p)'
  BY <1>1 DEF Own, Placed, Temps, Forgotten, Stored, Fresh
<1>5. Written' /\ SessionIsWhole'
  BY <1>1 DEF Written, SessionIsWhole
<1> QED
  BY <1>2, <1>3, <1>4, <1>5

\* Every step keeps the invariant.
LEMMA NextSetInv == SetInv /\ [Next]_vars => SetInv'
<1>1. ASSUME SetInv, UNCHANGED vars PROVE SetInv'
  BY <1>1 DEF SetInv, vars, TypeOK, Written, SessionIsWhole, Own, Placed, Temps, Forgotten, Stored, Fresh
<1> QED
  BY <1>1, StartKeeps, ConfigKeeps, LoginKeeps, SessionKeeps, KeychainKeeps, EditKeeps, LogoutKeeps,
     EndKeeps DEF Next

LEMMA AlwaysSetInv == Spec => []SetInv
  BY InitSetInv, NextSetInv, PTL DEF Spec

-----------------------------------------------------------------------------
\* Files, keychain and what each command loaded keep their types.
THEOREM Typed == Spec => []TypeOK
<1>1. SetInv => TypeOK
  BY DEF SetInv
<1> QED
  BY <1>1, AlwaysSetInv, PTL

\* session.json is whole or is not there, with any number of commands that save it,
\* remove it, fail and are killed (Session::save_to).
THEOREM NeverHalf == Spec => []SessionIsWhole
<1>1. SetInv => SessionIsWhole
  BY DEF SetInv
<1> QED
  BY <1>1, AlwaysSetInv, PTL

\* Only a kill in a save or a removal that failed leaves a copy of the cookies behind
\* (save_to).
THEOREM NoTemps == Spec => TempsAreRemoved
<1> DEFINE Due == left' # left => \E p \in Procs :
      pc'[p] # pc[p] /\ (pc[p] \in {"fill", "rename"} \/ "temp" \in failed[p])
<1>1. SetInv /\ [Next]_vars => [Due]_vars
  <2> SUFFICES ASSUME SetInv, Next, left' # left
               PROVE  \E p \in Procs :
                        pc'[p] # pc[p] /\ (pc[p] \in {"fill", "rename"} \/ "temp" \in failed[p])
    OBVIOUS
  <2>1. PICK p \in Procs : Exit(p) \/ Kill(p)
    BY DEF Next, StartSet, StartLogin, SignIn, OpenTemp, FillTemp, Rename, SetPassword, StartLogout,
           MakePortal, SessionExists, Unlink, ForgetToken, ForgetPassword, Forget, EditPassword,
           Truncate, Write, files
  <2>2. temp[p] # "none" /\ pc[p] # "idle" /\ pc'[p] = "idle"
    BY <2>1 DEF Exit, Kill, Ends, Go, SetInv, TypeOK
  <2>3. pc[p] \in {"fill", "rename"} \/ "temp" \in failed[p]
    BY <2>2 DEF SetInv, Own, Temps
  <2> QED
    BY <2>2, <2>3
<1> QED
  BY <1>1, InitSetInv, NextSetInv, PTL DEF Spec, TempsAreRemoved

\* --forget has tried each of the three, whatever failed (finish_forget).
THEOREM Forgets == Spec => []ForgetTriesEverything
<1>1. SetInv => ForgetTriesEverything
  <2> SUFFICES ASSUME SetInv, NEW p \in Procs, pc[p] = "done", job[p] = "forget", NEW i \in Items,
                      i \in keychain \/ (i = "session" /\ session # "none")
               PROVE  i \in failed[p] \cup meddled[p]
    BY DEF ForgetTriesEverything
  <2>1. /\ session = "none" \/ "session" \in failed[p] \cup meddled[p]
        /\ "token" \notin keychain \/ "token" \in failed[p] \cup meddled[p]
        /\ "password" \notin keychain \/ "password" \in failed[p] \cup meddled[p]
    BY DEF SetInv, Own, Forgotten
  <2>2. "session" \notin keychain
    BY DEF SetInv, TypeOK
  <2> QED
    BY <2>1, <2>2 DEF Items
<1> QED
  BY <1>1, AlwaysSetInv, PTL

\* --save that reports no failure has saved all three, unless another changed them
\* (auth_login).
THEOREM LoginSaved == Spec => []ReportedLoginIsSaved
<1>1. SetInv => ReportedLoginIsSaved
  BY Apart DEF SetInv, Own, Stored, ReportedLoginIsSaved
<1> QED
  BY <1>1, AlwaysSetInv, PTL

\* A save keeps the settings it is not about (Config::load, Config::save).
THEOREM OthersKept == Spec => SavesKeepOtherSettings
<1> DEFINE Kept ==
      \A p \in Procs :
        /\ pc[p] = "write" /\ osfile' # osfile /\ pc'[p] = "done"
        /\ "config" \notin meddled[p] /\ from[p] = "whole"
        => /\ job[p] \in {"init", "set"} => osfile'["username"] = whole["username"]
           /\ job[p] \in {"init", "save"} => osfile'["base_url"] = whole["base_url"]
<1>1. SetInv /\ [Next]_vars => [Kept]_vars
  <2> SUFFICES ASSUME SetInv, Next, NEW p \in Procs, pc[p] = "write", osfile' # osfile, pc'[p] = "done",
                      "config" \notin meddled[p], from[p] = "whole"
               PROVE  /\ job[p] \in {"init", "set"} => osfile'["username"] = whole["username"]
                      /\ job[p] \in {"init", "save"} => osfile'["base_url"] = whole["base_url"]
    OBVIOUS
  <2> USE DEF SetInv
  <2>1. osfile' = Saved(p)
    <3>1. PICK q \in Procs : Truncate(q) \/ Write(q)
      BY DEF Next, StartSet, StartLogin, SignIn, OpenTemp, FillTemp, Rename, SetPassword, StartLogout,
             MakePortal, SessionExists, Unlink, ForgetToken, ForgetPassword, Forget, EditPassword, Exit,
             Kill, Ends, files, WriteSession
    <3>2. q = p
      BY <3>1 DEF Truncate, Write, Go, Fails, TypeOK
    <3> QED
      BY <3>1, <3>2 DEF Truncate, Write, Fails
  <2>2. mine[p] = whole /\ job[p] \in {"init", "set", "save"}
    BY DEF Own, Placed, Fresh
  <2>3. mine[p] \in [Keys -> UNION {Values[k] : k \in Keys}] /\ {"username", "base_url"} \subseteq Keys
    BY DEF TypeOK, Config, Keys
  <2> QED
    BY <2>1, <2>2, <2>3 DEF Saved
<1> QED
  BY <1>1, InitSetInv, NextSetInv, PTL DEF Spec, SavesKeepOtherSettings

=============================================================================
