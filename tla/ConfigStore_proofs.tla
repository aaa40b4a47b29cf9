------------------------- MODULE ConfigStore_proofs -------------------------
(***************************************************************************)
(* Safety of the configuration file for any numbers of servers, pages,     *)
(* processes outside Settings and downloads, however often anything        *)
(* happens.  Of the pages whose server holds the instance lock at most one *)
(* is at work under config_lock (OnePage), so what it has read, or checked *)
(* the hash of, is what the file holds, or somebody else has written since *)
(* (UpToDate).  What a draft was made from and the file whose hash its     *)
(* page holds differ in the cleanup switch at most (ViewsAgree).           *)
(***************************************************************************)
EXTENDS ConfigStore, TLAPS

\* A server that answers requests, or is about to, holds the instance lock.
OneServer ==
    \A p \in Servers : proc[p] \in {"starting", "serving", "closing"} => instance = p

\* A page at work is a page of a server that answers requests, or did.
Served ==
    \A h \in Pages : pc[h] # "idle" =>
        home[h] \in Servers /\ proc[home[h]] \in {"serving", "closing", "ended"}

Holding == {"writing back", "changing", "accepting", "finalizing", "applying", "recording", "hashing"}

\* What is loaded for, and that an action only loads.
TaskAgrees(a) ==
    IF pc[a] \in {"reading", "writing back"}
    THEN task[a] \in IF a \in Pages THEN {"accept", "state", "latest", "action"}
                                    ELSE {"show", "reload", "change"}
    ELSE task[a] # "action"

\* What a program has loaded is normalised, and so is what a page has written.
IsTidy(c) == c \in Config /\ Tidy(c) = c
SavedIsTidy == changer \in Pages => IsTidy(file)

\* What a page is about to replace is what it has read, or knows the hash of.
UpToDate(h) ==
    InService(h) /\ Working(h) /\ changer \in Pages =>
        /\ pc[h] \in {"writing back", "finalizing", "applying"} => file = copy[h]
        /\ pc[h] = "saving" => file = view[h].hash

\* A choice is only applied over the selection it was accepted for.
StillChosen(h) ==
    pc[h] = "applying" => found[h] \in Pending /\ copy[h].models = found[h].baseline

ViewAgrees(h) ==
    view[h].made # NoFile =>
        /\ view[h].hash \in Config /\ OnlyCleanup(view[h].made, view[h].hash)
        /\ view[h].base \in Config /\ OnlyCleanup(view[h].made, view[h].base)

Sound(a) ==
    /\ TaskAgrees(a)
    /\ pc[a] \in Holding => IsTidy(copy[a])
    /\ a \in Pages => UpToDate(a) /\ StillChosen(a) /\ ViewAgrees(a)

\* What a download is about to rename is complete.
PartsAreWhole == \A d \in Downloads : dl[d].phase = "renaming" => parts[d] = "whole"

ServersInv == OneServer /\ Served
ValuesInv  == SavedIsTidy /\ \A a \in Actors : Sound(a)
FilesInv   == PartsAreWhole /\ ModelsAreWhole

IInv == TypeOK /\ ServersInv /\ ValuesInv /\ FilesInv

----------------------------------------------------------------------------

LEMMA TidyIsTidy ==
    ASSUME NEW c \in Config PROVE IsTidy(Tidy(c)) /\ Tidy(c).models = c.models
BY DEF Config, Tidy, IsTidy

LEMMA DefaultIsTidy == IsTidy(Default)
<1>1. Default \in Config
  BY DEF Config, Default
<1>2. Tidy(Default) = [Default EXCEPT !.screenshot = Default.screenshot /\ Default.cleanup]
  BY DEF Tidy
<1>3. Default.screenshot = FALSE /\ (Default.screenshot /\ Default.cleanup) = FALSE
  BY DEF Default
<1>4. Tidy(Default) = Default
  BY <1>2, <1>3 DEF Default
<1> QED BY <1>1, <1>4 DEF IsTidy

LEMMA ChangesAreTidy ==
    ASSUME NEW c \in Config PROVE \A d \in OneSaved(c) : IsTidy(d)
<1>1. ASSUME NEW e \in OneChanged(c) PROVE e \in Config
  BY <1>1 DEF OneChanged, Config
<1> QED BY <1>1, TidyIsTidy DEF OneSaved

LEMMA EditsAreConfigs ==
    ASSUME NEW c \in Config PROVE OneChanged(c) \subseteq Config
BY DEF OneChanged, Config

LEMMA UnopenedIsView == ASSUME NEW x \in Config \cup {NoFile, Malformed, NoHash}
    PROVE Unopened \in View /\ [Unopened EXCEPT !.hash = x] \in View
          /\ Unopened.made = NoFile /\ [Unopened EXCEPT !.hash = x].made = NoFile
BY DefaultIsTidy DEF Unopened, View, IsTidy

LEMMA InitEstablishes == Init => IInv
<1> SUFFICES ASSUME Init PROVE IInv
  OBVIOUS
<1>1. StoresOK /\ ModelsOK
  BY DEF Init, StoresOK, ModelsOK
<1>2. ServersOK
  BY DEF Init, ServersOK
<1>3. ActorsOK
  BY DefaultIsTidy, UnopenedIsView DEF Init, ActorsOK, IsTidy, Labels, Tasks
<1>4. LocksHeld /\ ServersInv
  BY DEF Init, LocksHeld, Working, ServersInv, OneServer, Served, Actors
<1>5. SavedIsTidy
  BY ConfigAssumption DEF Init, SavedIsTidy
<1>6. ASSUME NEW a \in Actors PROVE Sound(a)
  <2>1. pc[a] = "idle" /\ task[a] = "none" /\ (a \in Pages => view[a].made = NoFile)
    BY UnopenedIsView DEF Init
  <2> QED BY <2>1 DEF Sound, TaskAgrees, Holding, UpToDate, Working, StillChosen, ViewAgrees
<1>7. FilesInv
  BY DEF Init, FilesInv, PartsAreWhole, ModelsAreWhole
<1> QED BY <1>1, <1>2, <1>3, <1>4, <1>5, <1>6, <1>7 DEF IInv, TypeOK, ValuesInv

----------------------------------------------------------------------------
(* Types. *)

WorkOK == pc' \in [Actors -> Labels] /\ task' \in [Actors -> Tasks]
          /\ copy' \in [Actors -> Config \cup {Malformed, NoFile}]

\* The same with what a page's server and its view are.
PagesOK == /\ found' \in [Pages -> Pending \cup {NoRecord}]
           /\ home' \in [Pages -> Servers \cup {Nobody}] /\ view' \in [Pages -> View]

Typed == StoresOK' /\ ModelsOK' /\ ServersOK' /\ ActorsOK'

LEMMA MovesAreTyped ==
    ASSUME ActorsOK, NEW a \in Actors, NEW l \in Labels, NEW t \in Tasks
    PROVE  /\ Rests(a) => WorkOK
           /\ GoesTo(a, l) /\ UNCHANGED copy => WorkOK
           /\ Begins(a, t, l) /\ copy' \in [Actors -> Config \cup {Malformed, NoFile}] => WorkOK
<1>1. Rests(a) => WorkOK
  <2>1. "idle" \in Labels /\ "none" \in Tasks /\ Default \in Config
    BY DefaultIsTidy DEF IsTidy, Labels, Tasks
  <2> QED BY <2>1 DEF ActorsOK, Rests, WorkOK
<1>2. GoesTo(a, l) /\ UNCHANGED copy => WorkOK
  BY DEF ActorsOK, GoesTo, WorkOK
<1>3. Begins(a, t, l) /\ copy' \in [Actors -> Config \cup {Malformed, NoFile}] => WorkOK
  BY DEF ActorsOK, Begins, WorkOK
<1> QED BY <1>1, <1>2, <1>3

LEMMA WritesAreTyped ==
    ASSUME StoresOK, NEW a \in Actors, NEW c \in Config, Writes(a, c),
           record' \in Pending \cup {NoRecord, Done}
    PROVE  StoresOK'
<1>1. file' = c
  BY DEF Writes
<1>2. changer' \in Pages \cup {"nobody", "reader", "outside"}
  BY DEF Writes, StoresOK
<1> QED BY <1>1, <1>2 DEF StoresOK

LEMMA LoadingIsTyped ==
    ASSUME TypeOK, ValuesInv, NEW a \in Actors, ReadFails(a) \/ Reads(a) \/ WritesBack(a)
    PROVE  Typed
<1> USE DEF TypeOK, Typed
<1>1. CASE ReadFails(a)
  <2>1. WorkOK
    BY <1>1, MovesAreTyped DEF ReadFails, Labels, Tasks
  <2>2. guard' \in [Servers -> Pages \cup {Nobody}]
    BY <1>1 DEF ReadFails, ServersOK, Unlocks
  <2>3. view' \in [Pages -> View]
    BY <1>1, UnopenedIsView DEF ReadFails, ActorsOK
  <2> QED BY <1>1, <2>1, <2>2, <2>3
          DEF ReadFails, StoresOK, ModelsOK, ServersOK, ActorsOK, WorkOK, stores, models
<1>2. CASE Reads(a)
  <2>1. copy' \in [Actors -> Config \cup {Malformed, NoFile}]
    BY <1>2, DefaultIsTidy, TidyIsTidy DEF Reads, ActorsOK, StoresOK, IsTidy
  <2>2. pc' \in [Actors -> Labels] /\ task' = task
    BY <1>2 DEF Reads, GoesTo, ActorsOK, Labels
  <2> QED BY <1>2, <2>1, <2>2 DEF Reads, StoresOK, ModelsOK, ServersOK, ActorsOK, stores, models, servers
<1>3. CASE WritesBack(a)
  <2>1. copy[a] \in Config /\ pc[a] = "writing back"
    BY <1>3 DEF WritesBack, ValuesInv, Sound, Holding, IsTidy
  <2>2. StoresOK'
    BY <1>3, <2>1, WritesAreTyped DEF WritesBack, StoresOK
  <2>3. task[a] \in {"show", "reload", "change", "accept", "action", "state", "latest"}
    BY <2>1 DEF ValuesInv, Sound, TaskAgrees
  <2>4. WorkOK
    <3>1. CASE task[a] \in {"show", "reload", "action"}
      BY <1>3, <3>1, MovesAreTyped DEF WritesBack, Labels, Tasks
    <3>2. CASE task[a] = "change"
      BY <1>3, <3>2, MovesAreTyped DEF WritesBack, Labels, Tasks
    <3>3. CASE task[a] = "accept"
      BY <1>3, <3>3, MovesAreTyped DEF WritesBack, Labels, Tasks
    <3>4. CASE task[a] \in {"state", "latest"}
      BY <1>3, <3>4, MovesAreTyped DEF WritesBack, Labels, Tasks
    <3> QED BY <2>3, <3>1, <3>2, <3>3, <3>4
  <2>5. assigned' \in SUBSET Models
    BY <1>3, <2>1 DEF WritesBack, ModelsOK, Config
  <2> QED BY <1>3, <2>2, <2>4, <2>5 DEF WritesBack, ModelsOK, ServersOK, ActorsOK, WorkOK, models, servers
<1> QED BY <1>1, <1>2, <1>3

LEMMA OutsideIsTyped ==
    ASSUME TypeOK, ValuesInv, OutsideStep PROVE Typed
<1> USE DEF TypeOK, Typed
<1>1. ASSUME NEW a \in Outside, NEW t \in {"show", "change"}, Loads(a, t) PROVE Typed
  <2>1. WorkOK
    BY <1>1, MovesAreTyped DEF Loads, Labels, Tasks, Actors, ActorsOK
  <2> QED BY <1>1, <2>1
          DEF Loads, StoresOK, ModelsOK, ServersOK, ActorsOK, WorkOK, stores, models, servers
<1>2. ASSUME NEW a \in Outside, Changes(a) PROVE Typed
  <2>1. copy[a] \in Config /\ a \in Actors
    BY <1>2 DEF Changes, ValuesInv, Sound, Holding, IsTidy, Actors
  <2>2. PICK c \in OneSaved(copy[a]) : Writes(a, c)
    BY <1>2 DEF Changes
  <2>3. c \in Config
    BY <2>1, ChangesAreTidy DEF IsTidy
  <2>4. StoresOK'
    BY <1>2, <2>1, <2>2, <2>3, WritesAreTyped DEF Changes, StoresOK
  <2>5. WorkOK
    BY <1>2, <2>1, MovesAreTyped DEF Changes, Labels, Tasks
  <2>6. asked' \in Nat
    BY <1>2, ConfigAssumption DEF Changes, AsksReload, ModelsOK
  <2> QED BY <1>2, <2>4, <2>5, <2>6 DEF Changes, ModelsOK, ServersOK, ActorsOK, WorkOK, models, servers
<1>3. CASE Edits
  <2>1. file' \in Config \cup {NoFile, Malformed}
    BY <1>3, EditsAreConfigs, DefaultIsTidy DEF Edits, IsTidy
  <2> QED BY <1>3, <2>1 DEF Edits, StoresOK, ModelsOK, ServersOK, ActorsOK, models, servers, actors
<1> QED BY <1>1, <1>2, <1>3 DEF OutsideStep

LEMMA CaptureIsTyped ==
    ASSUME TypeOK, CaptureStep PROVE Typed
<1> USE DEF TypeOK, Typed
<1>1. CASE Reloads
  <2>1. WorkOK
    BY <1>1, MovesAreTyped DEF Reloads, Labels, Tasks, Actors, ActorsOK
  <2>2. asked' \in Nat
    BY <1>1 DEF Reloads, ModelsOK
  <2> QED BY <1>1, <2>1, <2>2
          DEF Reloads, StoresOK, ModelsOK, ServersOK, ActorsOK, WorkOK, stores, models, servers
<1>2. CASE Restarts
  <2>1. dl' \in [Downloads -> [model : Models, phase : {"idle", "receiving", "renaming"}]]
    BY <1>2 DEF Restarts, ModelsOK
  <2>2. pc' \in [Actors -> Labels] /\ task' \in [Actors -> Tasks]
    BY <1>2 DEF Restarts, Begins, ActorsOK, Labels, Tasks
  <2> QED BY <1>2, <2>1, <2>2 DEF Restarts, StoresOK, ModelsOK, ServersOK, ActorsOK, stores, servers
<1>3. CASE Removes
  BY <1>3 DEF Removes, StoresOK, ModelsOK, ServersOK, ActorsOK, stores, servers, actors
<1>4. ASSUME NEW d \in Downloads,
             DownloadBegins(d) \/ DownloadReceived(d) \/ DownloadFails(d) \/ DownloadLands(d)
      PROVE  Typed
  <2>1. /\ disk' \in [Models -> {"absent", "whole", "torn"}]
        /\ parts' \in [Downloads \cup Models -> {"absent", "whole", "torn"}]
        /\ dl' \in [Downloads -> [model : Models, phase : {"idle", "receiving", "renaming"}]]
    BY <1>4 DEF DownloadBegins, DownloadReceived, DownloadFails, DownloadLands, Downloading, PartName,
                ModelsOK
  <2>2. UNCHANGED <<stores, assigned, asked, servers, actors>>
    BY <1>4 DEF DownloadBegins, DownloadReceived, DownloadFails, DownloadLands
  <2> QED BY <2>1, <2>2 DEF StoresOK, ModelsOK, ServersOK, ActorsOK, stores, servers, actors
<1> QED BY <1>1, <1>2, <1>3, <1>4 DEF CaptureStep

LEMMA GoneIsTyped ==
    ASSUME ActorsOK, ServersOK, NEW p \in Servers, Gone(p)
    PROVE  ActorsOK' /\ ServersOK'
<1>1. pc' \in [Actors -> Labels] /\ task' \in [Actors -> Tasks]
  BY DEF Gone, ActorsOK, Labels, Tasks
<1>2. copy' \in [Actors -> Config \cup {Malformed, NoFile}]
  BY DefaultIsTidy DEF Gone, ActorsOK, IsTidy
<1>3. PagesOK
  BY UnopenedIsView DEF Gone, ActorsOK, PagesOK
<1>4. ServersOK'
  BY DEF Gone, ServersOK
<1> QED BY <1>1, <1>2, <1>3, <1>4 DEF PagesOK, ActorsOK

LEMMA ServersAreTyped ==
    ASSUME TypeOK, NEW p \in Servers,
           \/ Launches(p) \/ LaunchLocks(p) \/ LaunchEnds(p) \/ Serves(p)
           \/ Closes(p) \/ Ends(p) \/ Dies(p) \/ Crashes(p)
    PROVE  Typed
<1> USE DEF TypeOK, Typed
<1>1. CASE Dies(p) \/ Crashes(p)
  <2>1. Gone(p)
    BY <1>1 DEF Dies, Crashes
  <2>2. ActorsOK' /\ ServersOK'
    BY <2>1, GoneIsTyped
  <2> QED BY <2>1, <2>2 DEF Gone, StoresOK, ModelsOK, stores, models
<1>2. CASE ~(Dies(p) \/ Crashes(p))
  <2>1. ServersOK' /\ UNCHANGED <<stores, models, assigned, asked, actors>>
    BY <1>2 DEF Launches, LaunchLocks, LaunchEnds, Serves, Closes, Ends, ServersOK
  <2> QED BY <2>1 DEF StoresOK, ModelsOK, ActorsOK, stores, models, actors
<1> QED BY <1>1, <1>2

LEMMA LocksAreTyped ==
    ASSUME TypeOK, NEW h \in Pages, NEW p \in Servers, NEW t \in Tasks, NEW l \in Labels,
           Locks(h, p, t, l), home' \in [Pages -> Servers \cup {Nobody}], view' \in [Pages -> View],
           copy' \in [Actors -> Config \cup {Malformed, NoFile}]
    PROVE  Typed
<1>1. WorkOK
  BY MovesAreTyped DEF Locks, TypeOK, Actors
<1>2. guard' \in [Servers -> Pages \cup {Nobody}]
  BY DEF Locks, TypeOK, ServersOK
<1> QED BY <1>1, <1>2
        DEF Locks, TypeOK, Typed, StoresOK, ModelsOK, ServersOK, ActorsOK, WorkOK, stores, models

LEMMA BeginningsAreTyped ==
    ASSUME TypeOK, NEW h \in Pages, NEW p \in Servers,
           \/ StateBegins(h, p) \/ AcceptBegins(h, p) \/ ActionBegins(h, p)
           \/ SaveBegins(h, p) \/ LatestBegins(h, p) \/ ResaveBegins(h, p)
    PROVE  Typed
<1>1. home' \in [Pages -> Servers \cup {Nobody}]
  BY DEF StateBegins, AcceptBegins, ActionBegins, SaveBegins, LatestBegins, ResaveBegins, TypeOK, ActorsOK
<1>2. copy' \in [Actors -> Config \cup {Malformed, NoFile}]
  BY DEF StateBegins, AcceptBegins, ActionBegins, SaveBegins, LatestBegins, ResaveBegins, TypeOK, ActorsOK,
         StoresOK
<1>3. view' \in [Pages -> View]
  <2>1. CASE SaveBegins(h, p)
    <3>1. PICK c \in OneChanged(view[h].draft) \cup {view[h].draft} : view' = [view EXCEPT ![h].draft = c]
      BY <2>1 DEF SaveBegins
    <3>2. view[h].draft \in Config
      BY DEF TypeOK, ActorsOK, View
    <3>3. c \in Config
      BY <3>2, EditsAreConfigs
    <3> QED BY <3>1, <3>3 DEF TypeOK, ActorsOK, View
  <2>2. CASE StateBegins(h, p)
    BY <2>2, UnopenedIsView DEF StateBegins, TypeOK, ActorsOK
  <2>3. CASE ~(SaveBegins(h, p) \/ StateBegins(h, p))
    BY <2>3 DEF AcceptBegins, ActionBegins, LatestBegins, ResaveBegins, TypeOK, ActorsOK
  <2> QED BY <2>1, <2>2, <2>3
<1>4. CASE ActionBegins(h, p)
  <2>1. WorkOK
    BY <1>2, <1>4, MovesAreTyped DEF ActionBegins, TypeOK, Actors, Labels, Tasks
  <2> QED BY <1>4, <2>1 DEF ActionBegins, TypeOK, Typed, StoresOK, ModelsOK, ServersOK, ActorsOK, WorkOK,
                            stores, models, servers
<1>5. CASE ~ActionBegins(h, p)
  <2>1. \E t \in Tasks, l \in Labels : Locks(h, p, t, l)
    BY <1>5 DEF StateBegins, AcceptBegins, SaveBegins, LatestBegins, ResaveBegins, Labels, Tasks
  <2> QED BY <1>1, <1>2, <1>3, <2>1, LocksAreTyped
<1> QED BY <1>4, <1>5

LEMMA RequestsAreTyped ==
    ASSUME TypeOK, ValuesInv, NEW h \in Pages,
           \/ SaveChecks(h) \/ SaveWrites(h) \/ Accepts(h)
           \/ Finalizes(h) \/ Applies(h) \/ Records(h) \/ Hashes(h)
    PROVE  Typed
<1>0. h \in Actors /\ view[h].draft \in Config
  BY DEF Actors, TypeOK, ActorsOK, View
<1>1. pc[h] \in Holding => copy[h] \in Config
  BY <1>0 DEF ValuesInv, Sound, IsTidy
<1> USE DEF TypeOK, Typed
<1>2. CASE SaveChecks(h)
  <2>1. WorkOK
    BY <1>0, <1>2, MovesAreTyped DEF SaveChecks, Labels, Tasks
  <2>2. guard' \in [Servers -> Pages \cup {Nobody}]
    BY <1>2 DEF SaveChecks, Unlocks, ServersOK
  <2> QED BY <1>2, <2>1, <2>2
          DEF SaveChecks, StoresOK, ModelsOK, ServersOK, ActorsOK, WorkOK, stores, models
<1>3. CASE SaveWrites(h)
  <2>1. DEFINE c == Tidy(view[h].draft)
  <2>2. c \in Config
    BY <1>0, TidyIsTidy DEF IsTidy
  <2> HIDE DEF c
  <2>3. Writes(h, c) /\ copy' = [copy EXCEPT ![h] = c]
    BY <1>3 DEF SaveWrites, c
  <2>4. StoresOK'
    BY <1>0, <1>3, <2>2, <2>3, WritesAreTyped DEF SaveWrites, StoresOK
  <2>5. WorkOK
    BY <1>0, <1>3, <2>2, <2>3 DEF SaveWrites, GoesTo, ActorsOK, WorkOK, Labels
  <2> QED BY <1>3, <2>4, <2>5 DEF SaveWrites, ModelsOK, ServersOK, ActorsOK, WorkOK, models, servers
<1>4. CASE Applies(h)
  <2>1. copy[h] \in Config /\ found[h] \in Pending
    BY <1>0, <1>1, <1>4 DEF Applies, ValuesInv, Sound, StillChosen, Holding
  <2>2. Applied(h) \in Config
    BY <2>1 DEF Applied, Config, Pending
  <2>3. StoresOK'
    BY <1>0, <1>4, <2>2, WritesAreTyped DEF Applies, StoresOK
  <2>4. WorkOK
    BY <1>0, <1>4, <2>2 DEF Applies, GoesTo, ActorsOK, WorkOK, Labels
  <2>5. PagesOK
    BY <1>4 DEF Applies, ActorsOK, PagesOK
  <2> QED BY <1>4, <2>3, <2>4, <2>5
          DEF Applies, ModelsOK, ServersOK, ActorsOK, WorkOK, PagesOK, models, servers
<1>5. CASE Accepts(h)
  <2>1. copy[h] \in Config
    BY <1>1, <1>5 DEF Accepts, Holding
  <2>2. record' \in Pending
    BY <1>5, <2>1 DEF Accepts, Pending, Config
  <2>3. WorkOK
    BY <1>0, <1>5, MovesAreTyped DEF Accepts, Labels, Tasks
  <2>4. guard' \in [Servers -> Pages \cup {Nobody}]
    BY <1>5 DEF Accepts, Unlocks, ServersOK
  <2> QED BY <1>5, <2>2, <2>3, <2>4
          DEF Accepts, StoresOK, ModelsOK, ServersOK, ActorsOK, WorkOK, models
<1>6. CASE Finalizes(h)
  <2>1. record' \in Pending \cup {NoRecord, Done} /\ found' \in [Pages -> Pending \cup {NoRecord}]
    BY <1>6 DEF Finalizes, StoresOK, ActorsOK
  <2>2. GoesTo(h, "hashing") \/ GoesTo(h, "applying")
    BY <1>6 DEF Finalizes
  <2>3. WorkOK
    BY <1>0, <1>6, <2>2, MovesAreTyped DEF Finalizes, Labels, Tasks
  <2> QED BY <1>6, <2>1, <2>3
          DEF Finalizes, StoresOK, ModelsOK, ServersOK, ActorsOK, WorkOK, models, servers
<1>7. CASE Records(h)
  <2>1. WorkOK
    BY <1>0, <1>7, MovesAreTyped DEF Records, Labels, Tasks
  <2>2. asked' \in Nat
    BY <1>7, ConfigAssumption DEF Records, AsksReload, ModelsOK
  <2> QED BY <1>7, <2>1, <2>2
          DEF Records, StoresOK, ModelsOK, ServersOK, ActorsOK, WorkOK, models, servers
<1>8. CASE Hashes(h)
  <2>1. WorkOK
    BY <1>0, <1>8, MovesAreTyped DEF Hashes, Labels, Tasks
  <2>2. asked' \in Nat
    BY <1>8, ConfigAssumption DEF Hashes, AsksReload, ModelsOK
  <2>3. guard' \in [Servers -> Pages \cup {Nobody}]
    BY <1>8 DEF Hashes, Unlocks, ServersOK
  <2>4. copy[h] \in Config
    BY <1>1, <1>8 DEF Hashes, Holding
  <2>5. Shown(copy[h]) \in View /\ Kept(h) \in View
    BY <1>0, <2>4 DEF Shown, Kept, View, StoresOK, ActorsOK
  <2>6. view' \in [Pages -> View]
    BY <1>8, <2>5 DEF Hashes, ActorsOK
  <2> QED BY <1>8, <2>1, <2>2, <2>3, <2>6
          DEF Hashes, StoresOK, ModelsOK, ServersOK, ActorsOK, WorkOK, stores, models
<1> QED BY <1>2, <1>3, <1>4, <1>5, <1>6, <1>7, <1>8

----------------------------------------------------------------------------
(* One page at a time.                                                     *)

Locked == LocksHeld' /\ ServersInv'

LEMMA OnePage ==
    ASSUME TypeOK, ServersInv, NEW h \in Pages, NEW k \in Pages, Working(h), Working(k),
           InService(h), InService(k)
    PROVE  h = k
<1>1. guard[home[h]] = h /\ guard[home[k]] = k
  BY DEF TypeOK, LocksHeld
<1> QED BY <1>1 DEF InService

\* A step that begins and ends no request of a page under the lock.
LEMMA LocksStay ==
    ASSUME LocksHeld, ServersInv, UNCHANGED <<proc, instance, guard, home>>,
           \A h \in Pages : /\ Working(h)' <=> Working(h)
                            /\ pc'[h] # "idle" => pc[h] # "idle"
    PROVE  Locked
BY DEF Locked, LocksHeld, ServersInv, OneServer, Served

Others(h) == \A k \in Pages \ {h} : pc'[k] = pc[k] /\ task'[k] = task[k]

LEMMA LockIsReleased ==
    ASSUME TypeOK, ServersInv, NEW h \in Pages, Working(h), ~Working(h)',
           Others(h), Unlocks(h), UNCHANGED <<proc, instance, home>>
    PROVE  Locked
<1>1. home[h] \in Servers /\ guard[home[h]] = h /\ pc[h] # "idle"
  BY DEF TypeOK, LocksHeld, ServersInv, Served, Working
<1>2. guard'[home[h]] = Nobody /\ \A p \in Servers \ {home[h]} : guard'[p] = guard[p]
  BY <1>1 DEF Unlocks, TypeOK, ServersOK
<1>3. \A k \in Pages \ {h} : Working(k)' <=> Working(k)
  BY DEF Others, Working
<1>4. ASSUME NEW k \in Pages PROVE Working(k)' <=> home'[k] # Nobody /\ guard'[home'[k]] = k
  <2>1. home[k] = Nobody \/ home[k] \in Servers
    BY DEF TypeOK, ActorsOK
  <2>2. k # Nobody
    BY ConfigAssumption
  <2>3. CASE k = h
    BY <1>1, <1>2, <2>2, <2>3
  <2>4. CASE k # h
    <3>1. Working(k)' <=> home[k] # Nobody /\ guard[home[k]] = k
      BY <1>3, <2>4 DEF TypeOK, LocksHeld
    <3> QED BY <1>1, <1>2, <2>1, <2>2, <2>4, <3>1
  <2> QED BY <2>3, <2>4
<1>5. OneServer' /\ Served'
  BY <1>1 DEF ServersInv, OneServer, Served, Others
<1> QED BY <1>4, <1>5 DEF Locked, LocksHeld, ServersInv

LEMMA LockIsTaken ==
    ASSUME TypeOK, ServersInv, NEW h \in Pages, NEW p \in Servers, NEW t, NEW l,
           ~Working(h), Working(h)', Others(h), Locks(h, p, t, l), home' = [home EXCEPT ![h] = p]
    PROVE  Locked
<1>1. /\ guard[p] = Nobody /\ proc[p] \in {"serving", "closing", "ended"}
      /\ UNCHANGED <<proc, instance>>
  BY DEF Locks, LockFree
<1>2. guard'[p] = h /\ \A q \in Servers \ {p} : guard'[q] = guard[q]
  BY DEF Locks, TypeOK, ServersOK
<1>3. home'[h] = p /\ \A k \in Pages \ {h} : home'[k] = home[k]
  BY DEF TypeOK, ActorsOK
<1>4. \A k \in Pages \ {h} : Working(k)' <=> Working(k)
  BY DEF Others, Working
<1>5. ASSUME NEW k \in Pages PROVE Working(k)' <=> home'[k] # Nobody /\ guard'[home'[k]] = k
  <2>1. home[k] = Nobody \/ home[k] \in Servers
    BY DEF TypeOK, ActorsOK
  <2>2. k # Nobody /\ p # Nobody
    BY ConfigAssumption
  <2>3. CASE k = h
    BY <1>2, <1>3, <2>2, <2>3
  <2>4. CASE k # h
    <3>1. Working(k)' <=> home[k] # Nobody /\ guard[home[k]] = k
      BY <1>4, <2>4 DEF TypeOK, LocksHeld
    <3> QED BY <1>1, <1>2, <1>3, <2>1, <2>2, <2>4, <3>1
  <2> QED BY <2>3, <2>4
<1>6. OneServer' /\ Served'
  BY <1>1, <1>3 DEF ServersInv, OneServer, Served, Others
<1> QED BY <1>5, <1>6 DEF Locked, LocksHeld, ServersInv

LEMMA OneMoves ==
    ASSUME ActorsOK, NEW a \in Actors, NEW l, NEW t
    PROVE  /\ Rests(a) => pc'[a] = "idle" /\ \A b \in Actors \ {a} :
                              pc'[b] = pc[b] /\ task'[b] = task[b] /\ copy'[b] = copy[b]
           /\ GoesTo(a, l) => pc'[a] = l /\ task'[a] = task[a] /\ \A b \in Actors \ {a} :
                                  pc'[b] = pc[b] /\ task'[b] = task[b]
           /\ Begins(a, t, l) => pc'[a] = l /\ task'[a] = t /\ \A b \in Actors \ {a} :
                                     pc'[b] = pc[b] /\ task'[b] = task[b]
BY DEF Rests, GoesTo, Begins, ActorsOK

LEMMA LoadingKeepsLocks ==
    ASSUME TypeOK, ServersInv, ValuesInv, NEW a \in Actors, ReadFails(a) \/ Reads(a) \/ WritesBack(a)
    PROVE  Locked
<1>0. Sound(a) /\ Pages \subseteq Actors /\ ActorsOK
  BY DEF ValuesInv, Actors, TypeOK
<1>1. CASE ReadFails(a) /\ UnderLock(a)
  <2>1. a \in Pages /\ Rests(a) /\ Unlocks(a) /\ UNCHANGED <<proc, instance, home>> /\ pc[a] = "reading"
    BY <1>1 DEF ReadFails, UnderLock
  <2>2. Working(a) /\ ~Working(a)' /\ Others(a)
    BY <1>0, <1>1, <2>1, OneMoves DEF Working, UnderLock, Others
  <2> QED BY <2>1, <2>2, LockIsReleased
<1>2. CASE ReadFails(a) /\ ~UnderLock(a)
  <2>1. UNCHANGED <<proc, instance, guard, home>> /\ Rests(a)
    BY <1>2 DEF ReadFails
  <2>2. \A h \in Pages : /\ Working(h)' <=> Working(h)
                         /\ pc'[h] # "idle" => pc[h] # "idle"
    BY <1>0, <1>2, <2>1, OneMoves DEF Working, UnderLock
  <2> QED BY <2>1, <2>2, LocksStay DEF TypeOK
<1>3. CASE Reads(a)
  <2>1. UNCHANGED <<proc, instance, guard, home>> /\ GoesTo(a, "writing back") /\ pc[a] = "reading"
    BY <1>3 DEF Reads, servers
  <2>2. /\ pc'[a] = "writing back" /\ task'[a] = task[a]
        /\ \A b \in Actors \ {a} : pc'[b] = pc[b] /\ task'[b] = task[b]
    BY <1>0, <2>1, OneMoves
  <2>3. \A h \in Pages : /\ Working(h)' <=> Working(h)
                         /\ pc'[h] # "idle" => pc[h] # "idle"
    BY <1>0, <2>1, <2>2 DEF Working
  <2> QED BY <2>1, <2>3, LocksStay DEF TypeOK
<1>4. CASE WritesBack(a)
  <2>1. UNCHANGED <<proc, instance, guard, home>> /\ pc[a] = "writing back"
    BY <1>4 DEF WritesBack, servers
  <2>2. task[a] \in IF a \in Pages THEN {"accept", "state", "latest", "action"}
                                   ELSE {"show", "reload", "change"}
    BY <1>0, <2>1 DEF Sound, TaskAgrees
  <2>3. \A h \in Pages : /\ Working(h)' <=> Working(h)
                         /\ pc'[h] # "idle" => pc[h] # "idle"
    <3>1. CASE a \in Pages /\ task[a] # "action"
      <4>1. GoesTo(a, "accepting") \/ GoesTo(a, "finalizing")
        BY <1>4, <2>2, <3>1 DEF WritesBack
      <4>2. /\ pc'[a] \in {"accepting", "finalizing"} /\ task'[a] = task[a]
            /\ \A b \in Actors \ {a} : pc'[b] = pc[b] /\ task'[b] = task[b]
        BY <1>0, <4>1, OneMoves
      <4> QED BY <1>0, <2>1, <4>2 DEF Working
    <3>2. CASE a \in Pages /\ task[a] = "action"
      <4>1. Rests(a)
        BY <1>4, <3>2 DEF WritesBack
      <4> QED BY <1>0, <3>2, <4>1, OneMoves DEF Working
    <3>3. CASE a \notin Pages
      <4>1. Rests(a) \/ \E l : GoesTo(a, l)
        BY <1>4 DEF WritesBack
      <4> QED BY <1>0, <3>3, <4>1, OneMoves DEF Working
    <3> QED BY <3>1, <3>2, <3>3
  <2> QED BY <2>1, <2>3, LocksStay DEF TypeOK
<1> QED BY <1>1, <1>2, <1>3, <1>4

LEMMA OthersKeepLocks ==
    ASSUME TypeOK, ServersInv, OutsideStep \/ CaptureStep PROVE Locked
<1>1. UNCHANGED <<proc, instance, guard, home>>
  BY DEF OutsideStep, CaptureStep, Loads, Changes, Edits, Reloads, Restarts, Removes, DownloadBegins,
         DownloadReceived, DownloadFails, DownloadLands, servers, actors
<1>2. \A h \in Pages : pc'[h] = pc[h] /\ task'[h] = task[h]
  <2>1. ASSUME NEW a \in Outside \cup {Capture}, NEW l, NEW t, Begins(a, t, l) \/ Rests(a)
        PROVE  \A h \in Pages : pc'[h] = pc[h] /\ task'[h] = task[h]
    BY <2>1, ConfigAssumption, OneMoves DEF TypeOK, Actors
  <2>2. CASE OutsideStep
    BY <2>1, <2>2 DEF OutsideStep, Loads, Changes, Edits, actors
  <2>3. CASE CaptureStep
    BY <2>1, <2>3 DEF CaptureStep, Reloads, Restarts, Removes, DownloadBegins, DownloadReceived,
                      DownloadFails, DownloadLands, actors
  <2> QED BY <2>2, <2>3
<1> QED BY <1>1, <1>2, LocksStay DEF TypeOK, Working

LEMMA GoneKeepsLocks ==
    ASSUME TypeOK, ServersInv, NEW p \in Servers, Gone(p) PROVE Locked
<1>1. /\ proc'[p] = "absent" /\ \A q \in Servers \ {p} : proc'[q] = proc[q]
      /\ guard'[p] = Nobody /\ \A q \in Servers \ {p} : guard'[q] = guard[q]
      /\ \A q \in Servers \ {p} : instance = q => instance' = q
  BY DEF Gone, TypeOK, ServersOK
<1>2. \A h \in Pages : IF home[h] = p THEN home'[h] = Nobody /\ pc'[h] = "idle"
                       ELSE home'[h] = home[h] /\ pc'[h] = pc[h] /\ task'[h] = task[h]
  BY DEF Gone, Busy, Actors
<1>3. \A h \in Pages : home[h] = Nobody \/ home[h] \in Servers
  BY DEF TypeOK, ActorsOK
<1>4. LocksHeld'
  BY <1>1, <1>2, <1>3 DEF TypeOK, LocksHeld, Working
<1>5. OneServer' /\ Served'
  BY <1>1, <1>2 DEF ServersInv, OneServer, Served
<1> QED BY <1>4, <1>5 DEF Locked, ServersInv

LEMMA ServersKeepLocks ==
    ASSUME TypeOK, ServersInv, NEW p \in Servers,
           \/ Launches(p) \/ LaunchLocks(p) \/ LaunchEnds(p) \/ Serves(p)
           \/ Closes(p) \/ Ends(p) \/ Dies(p) \/ Crashes(p)
    PROVE  Locked
<1>1. CASE Dies(p) \/ Crashes(p)
  BY <1>1, GoneKeepsLocks DEF Dies, Crashes
<1>2. CASE ~(Dies(p) \/ Crashes(p))
  <2>1. UNCHANGED <<guard, pc, task, home>>
    BY <1>2 DEF Launches, LaunchLocks, LaunchEnds, Serves, Closes, Ends, actors
  <2>2. LocksHeld'
    BY <2>1 DEF TypeOK, LocksHeld, Working
  <2>3. \A q \in Servers \ {p} : proc'[q] = proc[q]
    BY <1>2 DEF Launches, LaunchLocks, LaunchEnds, Serves, Closes, Ends, TypeOK, ServersOK
  <2>4. /\ proc[p] \in {"serving", "closing", "ended"} => proc'[p] \in {"serving", "closing", "ended"}
        /\ \/ proc'[p] \in {"absent", "launching"} /\ instance' = instance
           \/ proc'[p] = "ended" /\ proc[p] \in {"serving", "closing"}
           \/ instance' = p /\ instance = Nobody
           \/ instance' = instance /\ proc[p] \in {"starting", "serving", "closing"}
    BY <1>2 DEF Launches, LaunchLocks, LaunchEnds, Serves, Closes, Ends, TypeOK, ServersOK
  <2>5. OneServer'
    BY <2>3, <2>4, ConfigAssumption DEF ServersInv, OneServer
  <2>6. Served'
    BY <2>1, <2>3, <2>4 DEF ServersInv, Served
  <2> QED BY <2>2, <2>5, <2>6 DEF Locked, ServersInv
<1> QED BY <1>1, <1>2

LEMMA BeginningsKeepLocks ==
    ASSUME TypeOK, ServersInv, NEW h \in Pages, NEW p \in Servers,
           \/ StateBegins(h, p) \/ AcceptBegins(h, p) \/ ActionBegins(h, p)
           \/ SaveBegins(h, p) \/ LatestBegins(h, p) \/ ResaveBegins(h, p)
    PROVE  Locked
<1>0. h \in Actors /\ Pages \subseteq Actors /\ ActorsOK
  BY DEF Actors, TypeOK
<1>1. CASE ActionBegins(h, p)
  <2>1. /\ pc[h] = "idle" /\ Begins(h, "action", "reading") /\ UNCHANGED <<proc, instance, guard, home>>
        /\ home[h] = p /\ proc[p] \in {"serving", "closing"}
    BY <1>1 DEF ActionBegins, servers
  <2>2. /\ pc'[h] = "reading" /\ task'[h] = "action"
        /\ \A k \in Pages \ {h} : pc'[k] = pc[k] /\ task'[k] = task[k]
    BY <1>0, <2>1, OneMoves
  <2>3. LocksHeld'
    BY <2>1, <2>2 DEF TypeOK, LocksHeld, Working
  <2>4. OneServer' /\ Served'
    BY <2>1, <2>2 DEF ServersInv, OneServer, Served
  <2> QED BY <2>3, <2>4 DEF Locked, ServersInv
<1>2. CASE ~ActionBegins(h, p)
  <2>1. home' = [home EXCEPT ![h] = p] /\ pc[h] \in {"idle", "refused", "again"}
    BY <1>2 DEF StateBegins, AcceptBegins, SaveBegins, LatestBegins, ResaveBegins, TypeOK, ActorsOK
  <2>2. PICK t \in Tasks \ {"action"}, l \in {"reading", "checking"} : Locks(h, p, t, l)
    BY <1>2 DEF StateBegins, AcceptBegins, SaveBegins, LatestBegins, ResaveBegins, Tasks
  <2>3. ~Working(h) /\ Working(h)' /\ Others(h)
    BY <1>0, <2>1, <2>2, OneMoves DEF Working, Others, Locks
  <2> QED BY <2>1, <2>2, <2>3, LockIsTaken
<1> QED BY <1>1, <1>2

LEMMA RequestsKeepLocks ==
    ASSUME TypeOK, ServersInv, ValuesInv, NEW h \in Pages,
           \/ SaveChecks(h) \/ SaveWrites(h) \/ Accepts(h)
           \/ Finalizes(h) \/ Applies(h) \/ Records(h) \/ Hashes(h)
    PROVE  Locked
<1>0. h \in Actors /\ Pages \subseteq Actors /\ ActorsOK /\ TaskAgrees(h)
  BY DEF Actors, TypeOK, ValuesInv, Sound
<1>1. /\ pc[h] \in {"checking", "saving", "accepting", "finalizing", "applying", "recording", "hashing"}
      /\ UNCHANGED <<proc, instance, home>>
  BY DEF SaveChecks, SaveWrites, Accepts, Finalizes, Applies, Records, Hashes, servers
<1>2. Working(h) /\ pc[h] # "idle" /\ task[h] # "action"
  BY <1>0, <1>1 DEF Working, TaskAgrees
<1>3. CASE Unlocks(h) /\ (Rests(h) \/ GoesTo(h, "refused") \/ GoesTo(h, "again"))
  <2>1. ~Working(h)' /\ Others(h)
    BY <1>0, <1>3, OneMoves DEF Working, Others
  <2> QED BY <1>1, <1>2, <1>3, <2>1, LockIsReleased
<1>4. CASE UNCHANGED guard /\ \E l \in {"saving", "hashing", "applying", "recording"} : GoesTo(h, l)
  <2>1. \A k \in Pages : /\ Working(k)' <=> Working(k)
                         /\ pc'[k] # "idle" => pc[k] # "idle"
    BY <1>0, <1>2, <1>4, OneMoves DEF Working
  <2> QED BY <1>1, <1>4, <2>1, LocksStay DEF TypeOK
<1> QED BY <1>3, <1>4
        DEF SaveChecks, SaveWrites, Accepts, Finalizes, Applies, Records, Hashes, servers

----------------------------------------------------------------------------
(* What actors hold in memory.                                             *)

\* Nobody in Settings has written, or the file is as it was.
Undisturbed == changer' \in Pages => changer \in Pages /\ file' = file

Still(b) == /\ pc'[b] = pc[b] /\ task'[b] = task[b] /\ copy'[b] = copy[b]
            /\ b \in Pages => view'[b] = view[b] /\ found'[b] = found[b] /\ home'[b] = home[b]

LEMMA OnlySaversDisturb ==
    ASSUME SavedIsTidy, StoresOK, NEW a, NEW c, IsTidy(c), Writes(a, c),
           a \notin Pages \/ pc[a] = "writing back" \/ ~InService(a)
    PROVE  Undisturbed /\ SavedIsTidy'
<1>1. file' = c
  BY DEF Writes
<1>2. CASE Same(c)
  <2>1. changer' = changer
    BY <1>2 DEF Writes
  <2>2. changer \in Pages => file = c
    BY <1>2, FileAssumption DEF Same, SavedIsTidy, IsTidy
  <2> QED BY <1>1, <2>1, <2>2 DEF Undisturbed, SavedIsTidy
<1>3. CASE ~Same(c)
  <2>1. changer' \in {"outside", "reader"}
    BY <1>3 DEF Writes
  <2> QED BY <2>1, ConfigAssumption DEF Undisturbed, SavedIsTidy
<1> QED BY <1>2, <1>3

\* Whoever takes no step stays sound when no page at work disturbs it.
LEMMA OthersStaySound ==
    ASSUME NEW b \in Actors, Sound(b), Still(b), instance' = instance,
           Undisturbed \/ b \notin Pages \/ ~Working(b) \/ ~InService(b)
    PROVE  Sound(b)'
<1>1. TaskAgrees(b)' /\ (pc'[b] \in Holding => IsTidy(copy'[b]))
  BY DEF Sound, Still, TaskAgrees
<1>2. ASSUME b \in Pages PROVE UpToDate(b)' /\ StillChosen(b)' /\ ViewAgrees(b)'
  <2>1. StillChosen(b)' /\ ViewAgrees(b)'
    BY <1>2 DEF Sound, Still, StillChosen, ViewAgrees
  <2>2. UpToDate(b)'
    BY <1>2 DEF Sound, Still, UpToDate, Undisturbed, InService, Working
  <2> QED BY <2>1, <2>2
<1> QED BY <1>1, <1>2 DEF Sound

LEMMA OneActorMoves ==
    ASSUME ValuesInv, SavedIsTidy', NEW a \in Actors, Sound(a)', instance' = instance, Undisturbed,
           \A b \in Actors \ {a} : Still(b)
    PROVE  ValuesInv'
<1>1. ASSUME NEW b \in Actors PROVE Sound(b)'
  BY <1>1, OthersStaySound DEF ValuesInv
<1> QED BY <1>1 DEF ValuesInv

\* While a page of the server with the instance lock is at work, no other such
\* page is, and it may change what they would otherwise rely on.
LEMMA OnePageMoves ==
    ASSUME TypeOK, ServersInv, ValuesInv, SavedIsTidy', NEW h \in Pages, Sound(h)', Working(h),
           InService(h), instance' = instance, \A b \in Actors \ {h} : Still(b)
    PROVE  ValuesInv'
<1>1. ASSUME NEW b \in Actors PROVE Sound(b)'
  <2>1. CASE b = h
    BY <2>1
  <2>2. CASE b # h
    <3>1. b \notin Pages \/ ~Working(b) \/ ~InService(b)
      BY <2>2, OnePage
    <3> QED BY <2>2, <3>1, OthersStaySound DEF ValuesInv
  <2> QED BY <2>1, <2>2
<1> QED BY <1>1 DEF ValuesInv

LEMMA LoadingKeepsValues ==
    ASSUME TypeOK, ValuesInv, NEW a \in Actors, ReadFails(a) \/ Reads(a) \/ WritesBack(a)
    PROVE  ValuesInv'
<1>0. SavedIsTidy /\ Sound(a) /\ ActorsOK
  BY DEF ValuesInv, TypeOK
<1>1. \A b \in Actors \ {a} : Still(b)
  BY <1>0 DEF ReadFails, Reads, WritesBack, Rests, GoesTo, ActorsOK, Still
<1>2. instance' = instance
  BY DEF ReadFails, Reads, WritesBack, servers
<1>3. CASE ReadFails(a)
  <2>1. pc'[a] = "idle" /\ task'[a] = "none"
    BY <1>0, <1>3 DEF ReadFails, Rests, ActorsOK
  <2>2. Undisturbed /\ SavedIsTidy'
    BY <1>0, <1>3 DEF ReadFails, stores, Undisturbed, SavedIsTidy
  <2>3. a \in Pages => ViewAgrees(a)'
    <3>1. CASE task[a] = "state"
      <4>1. copy[a] \in Config \cup {NoFile, Malformed, NoHash}
        BY <1>0 DEF ActorsOK
      <4>2. a \in Pages => view'[a] = [Unopened EXCEPT !.hash = copy[a]]
        BY <1>0, <1>3, <3>1 DEF ReadFails, ActorsOK
      <4> QED BY <4>1, <4>2, UnopenedIsView DEF ViewAgrees
    <3>2. CASE task[a] # "state"
      BY <1>0, <1>3, <3>2 DEF ReadFails, Sound, ViewAgrees
    <3> QED BY <3>1, <3>2
  <2>4. Sound(a)'
    BY <2>1, <2>3 DEF Sound, Holding, TaskAgrees, UpToDate, Working, StillChosen
  <2> QED BY <1>1, <1>2, <2>2, <2>4, OneActorMoves
<1>4. CASE Reads(a)
  <2>1. pc[a] = "reading" /\ pc'[a] = "writing back" /\ task'[a] = task[a] /\ view' = view
    BY <1>0, <1>4 DEF Reads, GoesTo, ActorsOK
  <2>2. copy'[a] = IF file = NoFile THEN Default ELSE Tidy(file)
    BY <1>0, <1>4 DEF Reads, ActorsOK
  <2>3. file = NoFile \/ file \in Config
    BY <1>4 DEF Reads, TypeOK, StoresOK
  <2>4. IsTidy(copy'[a])
    BY <2>2, <2>3, TidyIsTidy, DefaultIsTidy
  <2>5. UNCHANGED <<file, changer>>
    BY <1>4 DEF Reads, stores
  <2>6. Undisturbed /\ SavedIsTidy'
    BY <1>0, <2>5 DEF Undisturbed, SavedIsTidy
  <2>7. changer \in Pages => file = copy'[a]
    BY <1>0, <2>2, FileAssumption DEF SavedIsTidy, IsTidy
  <2>8. Sound(a)'
    BY <1>0, <2>1, <2>4, <2>5, <2>7 DEF Sound, Holding, TaskAgrees, UpToDate, StillChosen, ViewAgrees
  <2> QED BY <1>1, <1>2, <2>6, <2>8, OneActorMoves
<1>5. CASE WritesBack(a)
  <2>1. pc[a] = "writing back" /\ IsTidy(copy[a]) /\ Writes(a, copy[a]) /\ view' = view
    BY <1>0, <1>5 DEF WritesBack, Sound, Holding
  <2>2. Undisturbed /\ SavedIsTidy' /\ file' = copy[a]
    BY <1>0, <2>1, OnlySaversDisturb DEF TypeOK, Writes
  <2>3. task[a] \in IF a \in Pages THEN {"accept", "state", "latest", "action"}
                                   ELSE {"show", "reload", "change"}
    BY <1>0, <2>1 DEF Sound, TaskAgrees
  <2>4. \/ pc'[a] = "idle" /\ task'[a] = "none"
        \/ /\ pc'[a] \in {"changing", "accepting", "finalizing"} /\ copy'[a] = copy[a]
           /\ task'[a] = task[a] /\ task[a] # "action"
    BY <1>0, <1>5, <2>1, <2>3 DEF WritesBack, Rests, GoesTo, ActorsOK
  <2>5. Sound(a)'
    BY <1>0, <2>1, <2>2, <2>4 DEF Sound, Holding, TaskAgrees, UpToDate, Working, StillChosen, ViewAgrees
  <2> QED BY <1>1, <1>2, <2>2, <2>5, OneActorMoves
<1> QED BY <1>3, <1>4, <1>5

LEMMA OutsideKeepsValues ==
    ASSUME TypeOK, ValuesInv, OutsideStep PROVE ValuesInv'
<1>0. SavedIsTidy /\ ActorsOK /\ \A a \in Outside : a \in Actors /\ a \notin Pages
  BY ConfigAssumption DEF ValuesInv, TypeOK, Actors
<1>1. ASSUME NEW a \in Outside, NEW t \in {"show", "change"}, Loads(a, t) PROVE ValuesInv'
  <2>1. /\ pc'[a] = "reading" /\ task'[a] = t /\ instance' = instance
        /\ \A b \in Actors \ {a} : Still(b)
    BY <1>0, <1>1 DEF Loads, Begins, ActorsOK, Still, servers
  <2>2. Undisturbed /\ SavedIsTidy'
    BY <1>0, <1>1 DEF Loads, stores, Undisturbed, SavedIsTidy
  <2>3. Sound(a)'
    BY <1>0, <2>1 DEF Sound, Holding, TaskAgrees
  <2> QED BY <1>0, <2>1, <2>2, <2>3, OneActorMoves
<1>2. ASSUME NEW a \in Outside, Changes(a) PROVE ValuesInv'
  <2>1. /\ pc'[a] = "idle" /\ task'[a] = "none" /\ instance' = instance
        /\ \A b \in Actors \ {a} : Still(b)
    BY <1>0, <1>2 DEF Changes, Rests, ActorsOK, Still, servers
  <2>2. copy[a] \in Config
    BY <1>0, <1>2 DEF Changes, ValuesInv, Sound, Holding, IsTidy
  <2>3. PICK c \in OneSaved(copy[a]) : Writes(a, c)
    BY <1>2 DEF Changes
  <2>4. Undisturbed /\ SavedIsTidy'
    BY <1>0, <2>2, <2>3, ChangesAreTidy, OnlySaversDisturb DEF TypeOK
  <2>5. Sound(a)'
    BY <1>0, <2>1 DEF Sound, Holding, TaskAgrees
  <2> QED BY <1>0, <2>1, <2>4, <2>5, OneActorMoves
<1>3. CASE Edits
  <2>1. changer' = "outside" /\ UNCHANGED actors /\ instance' = instance
    BY <1>3 DEF Edits, servers
  <2>2. Undisturbed /\ SavedIsTidy'
    BY <2>1, ConfigAssumption DEF Undisturbed, SavedIsTidy
  <2>3. ASSUME NEW a \in Actors PROVE Sound(a)'
    BY <2>1, <2>2, OthersStaySound DEF actors, Still, ValuesInv
  <2> QED BY <2>2, <2>3 DEF ValuesInv
<1> QED BY <1>1, <1>2, <1>3 DEF OutsideStep

LEMMA CaptureKeepsValues ==
    ASSUME TypeOK, ValuesInv, CaptureStep PROVE ValuesInv'
<1>0. UNCHANGED stores /\ instance' = instance
  BY DEF CaptureStep, Reloads, Restarts, Removes, DownloadBegins, DownloadReceived,
         DownloadFails, DownloadLands, servers
<1>1. Undisturbed /\ SavedIsTidy'
  BY <1>0 DEF stores, Undisturbed, ValuesInv, SavedIsTidy
<1>2. CASE Reloads \/ Restarts
  <2>1. Capture \in Actors /\ Capture \notin Pages
    BY ConfigAssumption DEF Actors
  <2>2. /\ pc'[Capture] = "reading" /\ task'[Capture] = "reload"
        /\ \A b \in Actors \ {Capture} : Still(b)
    BY <1>2, <2>1 DEF Reloads, Restarts, Begins, TypeOK, ActorsOK, Still
  <2>3. Sound(Capture)'
    BY <2>1, <2>2 DEF Sound, Holding, TaskAgrees
  <2> QED BY <1>0, <1>1, <2>1, <2>2, <2>3, OneActorMoves
<1>3. CASE ~(Reloads \/ Restarts)
  <2>1. UNCHANGED actors
    BY <1>3 DEF CaptureStep, Removes, DownloadBegins, DownloadReceived, DownloadFails, DownloadLands
  <2>2. ASSUME NEW a \in Actors PROVE Sound(a)'
    BY <1>0, <1>1, <2>1, OthersStaySound DEF actors, Still, ValuesInv
  <2> QED BY <1>1, <2>2 DEF ValuesInv
<1> QED BY <1>2, <1>3

LEMMA ServersKeepValues ==
    ASSUME TypeOK, ServersInv, ValuesInv, NEW p \in Servers,
           \/ Launches(p) \/ LaunchLocks(p) \/ LaunchEnds(p) \/ Serves(p)
           \/ Closes(p) \/ Ends(p) \/ Dies(p) \/ Crashes(p)
    PROVE  ValuesInv'
<1>1. UNCHANGED stores
  BY DEF Launches, LaunchLocks, LaunchEnds, Serves, Closes, Ends, Dies, Crashes, Gone
<1>2. Undisturbed /\ SavedIsTidy'
  BY <1>1 DEF stores, Undisturbed, ValuesInv, SavedIsTidy
<1>3. ASSUME NEW h \in Pages, Working(h) PROVE home[h] # Nobody /\ proc[home[h]] # "launching"
  BY <1>3, ConfigAssumption DEF ServersInv, Served, Working
<1>4. CASE Dies(p) \/ Crashes(p)
  <2>1. Gone(p)
    BY <1>4 DEF Dies, Crashes
  <2>2. ASSUME NEW a \in Actors PROVE Sound(a)'
    <3>0. Sound(a)
      BY DEF ValuesInv
    <3>1. CASE a \in Busy(p)
      <4>1. pc'[a] = "idle" /\ task'[a] = "none" /\ view'[a] = Unopened
        BY <2>1, <3>1 DEF Gone, Busy
      <4> QED BY <4>1, UnopenedIsView
              DEF Sound, Holding, TaskAgrees, UpToDate, Working, StillChosen, ViewAgrees
    <3>2. CASE a \in Pages /\ home[a] = p /\ a \notin Busy(p)
      <4>1. pc'[a] = "idle" /\ task'[a] = task[a] /\ view'[a] = Unopened /\ pc[a] = "idle"
        BY <2>1, <3>2 DEF Gone, Busy
      <4> QED BY <3>0, <4>1, UnopenedIsView
              DEF Sound, Holding, TaskAgrees, UpToDate, Working, StillChosen, ViewAgrees
    <3>3. CASE ~(a \in Pages /\ home[a] = p)
      <4>1. Still(a)
        BY <2>1, <3>3 DEF Gone, Busy, Still
      <4>2. a \in Pages /\ Working(a) /\ instance' = home'[a] => instance = home[a]
        BY <1>3, <2>1, <3>3, <4>1 DEF Gone, Still
      <4> QED BY <1>1, <3>0, <4>1, <4>2
              DEF Sound, Still, TaskAgrees, UpToDate, Working, InService, StillChosen, ViewAgrees, stores
    <3> QED BY <3>1, <3>2, <3>3 DEF Busy
  <2> QED BY <1>2, <2>2 DEF ValuesInv
<1>5. CASE ~(Dies(p) \/ Crashes(p))
  <2>1. UNCHANGED actors
    BY <1>5 DEF Launches, LaunchLocks, LaunchEnds, Serves, Closes, Ends
  <2>2. instance' = instance \/ instance' = Nobody \/ (instance' = p /\ proc[p] = "launching")
    BY <1>5 DEF Launches, LaunchLocks, LaunchEnds, Serves, Closes, Ends
  <2>3. ASSUME NEW a \in Actors PROVE Sound(a)'
    <3>1. Sound(a)
      BY DEF ValuesInv
    <3>2. a \in Pages /\ Working(a) /\ instance' = home[a] => instance = home[a]
      BY <1>3, <2>2
    <3> QED BY <1>1, <2>1, <3>1, <3>2
            DEF Sound, actors, TaskAgrees, UpToDate, Working, InService, StillChosen, ViewAgrees, stores
  <2> QED BY <1>2, <2>3 DEF ValuesInv
<1> QED BY <1>4, <1>5

LEMMA BeginningsKeepValues ==
    ASSUME TypeOK, ServersInv, ValuesInv, NEW h \in Pages, NEW p \in Servers,
           \/ StateBegins(h, p) \/ AcceptBegins(h, p) \/ ActionBegins(h, p)
           \/ SaveBegins(h, p) \/ LatestBegins(h, p) \/ ResaveBegins(h, p)
    PROVE  ValuesInv'
<1> USE DEF StateBegins, AcceptBegins, ActionBegins, SaveBegins, LatestBegins, ResaveBegins, Locks
<1>0. h \in Actors /\ SavedIsTidy /\ Sound(h) /\ ActorsOK
  BY DEF ValuesInv, Actors, TypeOK
<1>1. UNCHANGED stores /\ instance' = instance
  BY DEF servers
<1>2. Undisturbed /\ SavedIsTidy'
  BY <1>0, <1>1 DEF stores, Undisturbed, SavedIsTidy
<1>3. \A b \in Actors \ {h} : Still(b)
  BY <1>0 DEF Begins, ActorsOK, Still
<1>4. \/ pc'[h] = "reading" /\ task'[h] \in {"accept", "state", "latest", "action"}
      \/ pc'[h] = "checking" /\ task'[h] \in {"save", "resave"}
  BY <1>0 DEF Begins, ActorsOK
<1>5. \/ view'[h] = Unopened
      \/ \E c : view'[h] = [view[h] EXCEPT !.draft = c]
      \/ view'[h] = view[h]
  BY <1>0 DEF ActorsOK
<1>6. view[h] \in View
  BY <1>0 DEF ActorsOK
<1>7. view'[h] = Unopened \/ (/\ view'[h].made = view[h].made /\ view'[h].hash = view[h].hash
                              /\ view'[h].base = view[h].base)
  BY <1>5, <1>6 DEF View
<1>8. ViewAgrees(h)'
  BY <1>0, <1>7, UnopenedIsView DEF Sound, ViewAgrees
<1>9. Sound(h)'
  BY <1>4, <1>8 DEF Sound, Holding, TaskAgrees, UpToDate, StillChosen
<1> QED BY <1>0, <1>1, <1>2, <1>3, <1>9, OneActorMoves

LEMMA HashesKeepsValues ==
    ASSUME TypeOK, ServersInv, ValuesInv, NEW h \in Pages, Hashes(h) PROVE ValuesInv'
<1>0. h \in Actors /\ SavedIsTidy /\ Sound(h) /\ ActorsOK /\ StoresOK
  BY DEF ValuesInv, Actors, TypeOK
<1>1. UNCHANGED stores /\ instance' = instance
  BY DEF Hashes
<1>2. Undisturbed /\ SavedIsTidy'
  BY <1>0, <1>1 DEF stores, Undisturbed, SavedIsTidy
<1>3. \A b \in Actors \ {h} : Still(b)
  BY <1>0 DEF Hashes, Rests, GoesTo, ActorsOK, Still
<1>4. pc[h] = "hashing" /\ task[h] # "action" /\ copy[h] \in Config
  BY <1>0 DEF Hashes, Sound, TaskAgrees, Holding, IsTidy
<1>5. pc'[h] \in {"idle", "again"} /\ task'[h] # "action"
  BY <1>0, <1>4 DEF Hashes, Rests, GoesTo, ActorsOK
<1>6. ViewAgrees(h)'
  <2>1. CASE view'[h] = Shown(copy[h])
    BY <1>4, <2>1, FileAssumption DEF ViewAgrees, Shown, OnlyCleanup
  <2>2. CASE Retried(h) /\ view'[h] = Kept(h)
    <3>1. view[h] \in View
      BY <1>0 DEF ActorsOK
    <3>2. /\ view'[h].hash = file /\ view'[h].base = copy[h]
          /\ view'[h].made = IF file = copy[h] THEN view[h].made ELSE NoFile
      BY <2>2, <3>1 DEF Kept, View
    <3>3. view[h].made # NoFile => OnlyCleanup(view[h].made, copy[h])
      BY <1>0, <2>2 DEF Sound, ViewAgrees, Retried, OnlyCleanup
    <3> QED BY <1>4, <3>2, <3>3 DEF ViewAgrees
  <2>3. CASE view' = view
    BY <1>0, <2>3 DEF Sound, ViewAgrees
  <2> QED BY <1>0, <2>1, <2>2, <2>3 DEF Hashes, ActorsOK
<1>7. Sound(h)'
  BY <1>5, <1>6 DEF Sound, Holding, TaskAgrees, UpToDate, Working, StillChosen
<1> QED BY <1>0, <1>1, <1>2, <1>3, <1>7, OneActorMoves

\* A page that writes: while its server holds the instance lock nobody relies on
\* the file, and without that nobody takes it for a page's.
LEMMA PageWritesKeepValues ==
    ASSUME TypeOK, ServersInv, ValuesInv, NEW h \in Pages, Working(h), NEW c, IsTidy(c), Writes(h, c),
           Sound(h)', instance' = instance, \A b \in Actors \ {h} : Still(b)
    PROVE  ValuesInv'
<1>0. h \in Actors /\ SavedIsTidy /\ StoresOK
  BY DEF ValuesInv, Actors, TypeOK
<1>1. CASE InService(h)
  <2>1. SavedIsTidy'
    BY DEF Writes, SavedIsTidy
  <2> QED BY <1>1, <2>1, OnePageMoves
<1>2. CASE ~InService(h)
  <2>1. Undisturbed /\ SavedIsTidy'
    BY <1>0, <1>2, OnlySaversDisturb
  <2> QED BY <1>0, <2>1, OneActorMoves
<1> QED BY <1>1, <1>2

LEMMA RequestsKeepValues ==
    ASSUME TypeOK, ServersInv, ValuesInv, NEW h \in Pages,
           \/ SaveChecks(h) \/ SaveWrites(h) \/ Accepts(h)
           \/ Finalizes(h) \/ Applies(h) \/ Records(h) \/ Hashes(h)
    PROVE  ValuesInv'
<1>0. h \in Actors /\ SavedIsTidy /\ Sound(h) /\ ActorsOK /\ StoresOK
  BY DEF ValuesInv, Actors, TypeOK
<1>1. CASE SaveWrites(h)
  <2>1. /\ pc[h] = "saving" /\ pc'[h] = "hashing" /\ task'[h] = task[h] /\ instance' = instance
        /\ \A b \in Actors \ {h} : Still(b)
    BY <1>0, <1>1 DEF SaveWrites, GoesTo, ActorsOK, Still, servers
  <2>2. Working(h)
    BY <1>0, <2>1 DEF Working, Sound, TaskAgrees
  <2>3. DEFINE c == Tidy(view[h].draft)
  <2>4. IsTidy(c)
    BY <1>0, TidyIsTidy DEF ActorsOK, View
  <2> HIDE DEF c
  <2>5. Writes(h, c) /\ copy'[h] = c /\ view' = view
    BY <1>0, <1>1 DEF SaveWrites, c, ActorsOK
  <2>6. Sound(h)'
    BY <1>0, <2>1, <2>2, <2>4, <2>5
       DEF Sound, Holding, TaskAgrees, UpToDate, Working, StillChosen, ViewAgrees
  <2> QED BY <2>1, <2>2, <2>4, <2>5, <2>6, PageWritesKeepValues
<1>2. CASE Applies(h)
  <2>1. /\ pc[h] = "applying" /\ pc'[h] = "recording" /\ task'[h] = task[h] /\ instance' = instance
        /\ \A b \in Actors \ {h} : Still(b)
    BY <1>0, <1>2 DEF Applies, GoesTo, ActorsOK, Still, servers
  <2>2. Working(h)
    BY <1>0, <2>1 DEF Working, Sound, TaskAgrees
  <2>3. IsTidy(copy[h]) /\ found[h] \in Pending
    BY <1>0, <2>1 DEF Sound, Holding, StillChosen
  <2>4. IsTidy(Applied(h))
    BY <2>3 DEF IsTidy, Tidy, Config, Pending, Applied
  <2>5. Writes(h, Applied(h)) /\ copy'[h] = Applied(h) /\ view' = view
    BY <1>0, <1>2 DEF Applies, ActorsOK
  <2>6. Sound(h)'
    BY <1>0, <2>1, <2>2, <2>4, <2>5
       DEF Sound, Holding, TaskAgrees, UpToDate, Working, StillChosen, ViewAgrees
  <2> QED BY <2>1, <2>2, <2>4, <2>5, <2>6, PageWritesKeepValues
<1>3. CASE SaveChecks(h) \/ Finalizes(h) \/ Accepts(h) \/ Records(h)
  <2>1. UNCHANGED <<file, changer, view>> /\ instance' = instance
    BY <1>3 DEF SaveChecks, Finalizes, Accepts, Records, servers, stores
  <2>2. Undisturbed /\ SavedIsTidy'
    BY <1>0, <2>1 DEF Undisturbed, SavedIsTidy
  <2>3. \A b \in Actors \ {h} : Still(b)
    BY <1>0, <1>3 DEF SaveChecks, Finalizes, Accepts, Records, Rests, GoesTo, ActorsOK, Still
  <2>4. pc[h] \in {"checking", "finalizing", "accepting", "recording"} /\ task[h] # "action"
    BY <1>0, <1>3 DEF SaveChecks, Finalizes, Accepts, Records, Sound, TaskAgrees
  <2>5. ViewAgrees(h)'
    BY <1>0, <2>1 DEF Sound, ViewAgrees
  <2>6. Sound(h)'
    <3>1. CASE SaveChecks(h)
      <4>1. /\ pc'[h] \in {"idle", "refused", "saving"} /\ task'[h] # "action"
            /\ pc'[h] = "saving" => file = view[h].hash
        BY <1>0, <2>4, <3>1 DEF SaveChecks, HashAgrees, GoesTo, Rests, ActorsOK
      <4> QED BY <2>1, <2>5, <4>1 DEF Sound, Holding, TaskAgrees, UpToDate, StillChosen
    <3>2. CASE Finalizes(h)
      <4>1. /\ pc[h] = "finalizing" /\ task'[h] = task[h] /\ copy' = copy /\ home' = home
            /\ \/ pc'[h] = "hashing"
               \/ /\ pc'[h] = "applying" /\ found'[h] \in Pending
                  /\ copy[h].models = found'[h].baseline
        BY <1>0, <3>2 DEF Finalizes, SelectionChanged, GoesTo, ActorsOK
      <4>2. TaskAgrees(h)' /\ IsTidy(copy'[h]) /\ StillChosen(h)'
        BY <1>0, <2>4, <4>1 DEF Sound, Holding, TaskAgrees, StillChosen
      <4>3. UpToDate(h)'
        BY <1>0, <2>1, <2>4, <4>1 DEF Sound, UpToDate, InService, Working
      <4> QED BY <2>5, <4>2, <4>3 DEF Sound
    <3>3. CASE Accepts(h)
      <4>1. pc'[h] = "idle" /\ task'[h] = "none"
        BY <1>0, <3>3 DEF Accepts, Rests, ActorsOK
      <4> QED BY <2>5, <4>1 DEF Sound, Holding, TaskAgrees, UpToDate, Working, StillChosen
    <3>4. CASE Records(h)
      <4>1. pc[h] = "recording" /\ pc'[h] = "hashing" /\ task'[h] = task[h] /\ copy' = copy
        BY <1>0, <3>4 DEF Records, GoesTo, ActorsOK
      <4> QED BY <1>0, <2>4, <2>5, <4>1 DEF Sound, Holding, TaskAgrees, UpToDate, StillChosen
    <3> QED BY <1>3, <3>1, <3>2, <3>3, <3>4
  <2> QED BY <1>0, <2>1, <2>2, <2>3, <2>6, OneActorMoves
<1> QED BY <1>1, <1>2, <1>3, HashesKeepsValues

----------------------------------------------------------------------------
(* Model files.                                                            *)

LEMMA FilesStayWhole ==
    ASSUME TypeOK, FilesInv, Next PROVE FilesInv'
<1> USE DEF TypeOK, ModelsOK, FilesInv
<1>1. ASSUME NEW d \in Downloads,
             DownloadBegins(d) \/ DownloadReceived(d) \/ DownloadFails(d) \/ DownloadLands(d)
      PROVE  FilesInv'
  <2>1. /\ dl'[d].phase # "renaming" \/ parts'[d] = "whole"
        /\ \A e \in Downloads \ {d} : dl'[e] = dl[e] /\ parts'[e] = parts[e]
    BY <1>1 DEF DownloadBegins, DownloadReceived, DownloadFails, DownloadLands, Downloading, PartName
  <2>2. PartsAreWhole'
    BY <2>1 DEF PartsAreWhole
  <2>3. ModelsAreWhole'
    BY <1>1 DEF DownloadBegins, DownloadReceived, DownloadFails, DownloadLands, PartName,
                PartsAreWhole, ModelsAreWhole
  <2> QED BY <2>2, <2>3
<1>2. CASE Restarts
  BY <1>2 DEF Restarts, PartsAreWhole, ModelsAreWhole
<1>3. CASE Removes
  BY <1>3 DEF Removes, PartsAreWhole, ModelsAreWhole
<1>4. CASE UNCHANGED models
  BY <1>4 DEF models, PartsAreWhole, ModelsAreWhole
<1>5. Loading \/ OutsideStep \/ ServerStep \/ RequestStep \/ Reloads => UNCHANGED models
  <2>1. Loading \/ OutsideStep \/ Reloads => UNCHANGED models
    BY DEF Loading, OutsideStep, ReadFails, Reads, WritesBack, Loads, Changes, Edits, Reloads, models
  <2>2. ServerStep => UNCHANGED models
    BY DEF ServerStep, Launches, LaunchLocks, LaunchEnds, Serves, Closes, Ends, Dies, Crashes, Gone, models
  <2>3. RequestStep => UNCHANGED models
    BY DEF RequestStep, StateBegins, AcceptBegins, ActionBegins, SaveBegins, LatestBegins, ResaveBegins,
           Locks, SaveChecks, SaveWrites, Accepts, Finalizes, Applies, Records, Hashes, models
  <2> QED BY <2>1, <2>2, <2>3
<1> QED BY <1>1, <1>2, <1>3, <1>4, <1>5 DEF Next, CaptureStep

LEMMA NextPreserves == IInv /\ [Next]_vars => IInv'
<1> SUFFICES ASSUME IInv, [Next]_vars PROVE IInv'
  OBVIOUS
<1>0. TypeOK /\ ServersInv /\ ValuesInv /\ FilesInv
  BY DEF IInv
<1>1. CASE Next
  <2>1. FilesInv'
    BY <1>0, <1>1, FilesStayWhole
  <2>2. CASE Loading
    BY <1>0, <2>1, <2>2, LoadingIsTyped, LoadingKeepsLocks, LoadingKeepsValues
       DEF Loading, Typed, Locked, IInv, TypeOK
  <2>3. CASE OutsideStep
    BY <1>0, <2>1, <2>3, OutsideIsTyped, OthersKeepLocks, OutsideKeepsValues DEF Typed, Locked, IInv, TypeOK
  <2>4. CASE CaptureStep
    BY <1>0, <2>1, <2>4, CaptureIsTyped, OthersKeepLocks, CaptureKeepsValues DEF Typed, Locked, IInv, TypeOK
  <2>5. CASE ServerStep
    <3>1. PICK p \in Servers : \/ Launches(p) \/ LaunchLocks(p) \/ LaunchEnds(p) \/ Serves(p)
                               \/ Closes(p) \/ Ends(p) \/ Dies(p) \/ Crashes(p)
      BY <2>5 DEF ServerStep
    <3>2. Typed /\ Locked /\ ValuesInv'
      BY <1>0, <3>1, ServersAreTyped, ServersKeepLocks, ServersKeepValues
    <3> QED BY <2>1, <3>2 DEF Typed, Locked, IInv, TypeOK
  <2>6. CASE RequestStep
    <3>1. ASSUME NEW h \in Pages, NEW p \in Servers,
                 \/ StateBegins(h, p) \/ AcceptBegins(h, p) \/ ActionBegins(h, p)
                 \/ SaveBegins(h, p) \/ LatestBegins(h, p) \/ ResaveBegins(h, p)
          PROVE  Typed /\ Locked /\ ValuesInv'
      BY <1>0, <3>1, BeginningsAreTyped, BeginningsKeepLocks, BeginningsKeepValues
    <3>2. ASSUME NEW h \in Pages,
                 \/ SaveChecks(h) \/ SaveWrites(h) \/ Accepts(h)
                 \/ Finalizes(h) \/ Applies(h) \/ Records(h) \/ Hashes(h)
          PROVE  Typed /\ Locked /\ ValuesInv'
      BY <1>0, <3>2, RequestsAreTyped, RequestsKeepLocks, RequestsKeepValues
    <3>3. Typed /\ Locked /\ ValuesInv'
      BY <2>6, <3>1, <3>2 DEF RequestStep
    <3> QED BY <2>1, <3>3 DEF Typed, Locked, IInv, TypeOK
  <2> QED BY <1>1, <2>2, <2>3, <2>4, <2>5, <2>6 DEF Next
<1>2. CASE UNCHANGED vars
  <2>1. UNCHANGED <<stores, models, assigned, asked, servers, actors>>
    BY <1>2 DEF vars
  <2>2. TypeOK'
    BY <1>0, <2>1 DEF stores, models, servers, actors, TypeOK, StoresOK, ModelsOK, ServersOK, ActorsOK,
                      LocksHeld, Working
  <2>3. ServersInv' /\ FilesInv'
    BY <1>0, <2>1 DEF servers, actors, models, ServersInv, OneServer, Served, FilesInv, PartsAreWhole,
                      ModelsAreWhole
  <2>4. ValuesInv'
    <3>1. Undisturbed /\ SavedIsTidy' /\ instance' = instance
      BY <1>0, <2>1 DEF stores, servers, Undisturbed, ValuesInv, SavedIsTidy
    <3>2. ASSUME NEW a \in Actors PROVE Sound(a)'
      BY <1>0, <2>1, <3>1, OthersStaySound DEF actors, Still, ValuesInv
    <3> QED BY <3>1, <3>2 DEF ValuesInv
  <2> QED BY <2>2, <2>3, <2>4 DEF IInv
<1> QED BY <1>1, <1>2

----------------------------------------------------------------------------

\* The inductive invariant holds in every reachable state.
THEOREM Invariance == Spec => []IInv
BY InitEstablishes, NextPreserves, PTL DEF Spec

\* Every variable keeps its type, and a page at work holds its server's lock.
THEOREM TypeCorrect == Spec => []TypeOK
<1>1. IInv => TypeOK
  BY DEF IInv
<1> QED BY <1>1, Invariance, PTL

\* Whatever downloads of one model run at once, fail or are cut off, the file
\* under a model's name is complete.
THEOREM WholeModels == Spec => []ModelsAreWhole
<1>1. IInv => ModelsAreWhole
  BY DEF IInv, FilesInv
<1> QED BY <1>1, Invariance, PTL

\* Of all pages of the servers that hold the instance lock, none replaces what
\* another one saved and it has not seen, the cleanup switch excepted: a save
\* whose hash was checked replaces what its draft was made from, and a load or
\* the setup what it has read.
THEOREM SeenBeforeWritten == Spec => NoBlindWrite
<1>1. ASSUME IInv, NEW h \in Pages, InService(h), changer \in Pages
      PROVE  SavesItsOrigin(h) /\ ReplacesWhatItRead(h)
  <2>1. Sound(h) /\ ViewAgrees(h)
    BY <1>1 DEF IInv, ValuesInv, Sound, Actors
  <2>2. SavesItsOrigin(h)
    <3>1. ASSUME pc[h] = "saving" PROVE file = view[h].hash
      BY <1>1, <2>1, <3>1 DEF Sound, TaskAgrees, UpToDate, Working
    <3> QED BY <2>1, <3>1 DEF SavesItsOrigin, ViewAgrees
  <2>3. ReplacesWhatItRead(h)
    BY <1>1, <2>1 DEF Sound, UpToDate, ReplacesWhatItRead
  <2> QED BY <2>2, <2>3
<1>2. IInv /\ [Next]_vars => [\A h \in Pages : InService(h) /\ changer \in Pages =>
                                 SavesItsOrigin(h) /\ ReplacesWhatItRead(h)]_vars
  BY <1>1
<1> QED BY <1>2, Invariance, PTL DEF Spec, NoBlindWrite

\* The recommended-model setup replaces the selection it was accepted for, or
\* one that was written outside Settings.
THEOREM LaterChoiceWins == Spec => SetupKeepsChoice
<1>1. ASSUME IInv, NEW h \in Pages, InService(h), changer \in Pages, pc[h] = "applying"
      PROVE  file \in Config /\ file.models = found[h].baseline
  <2>1. Sound(h)
    BY <1>1 DEF IInv, ValuesInv, Actors
  <2>2. copy[h] \in Config /\ file = copy[h]
    BY <1>1, <2>1 DEF Sound, Holding, IsTidy, TaskAgrees, UpToDate, Working
  <2> QED BY <1>1, <2>1, <2>2 DEF Sound, StillChosen
<1>2. IInv /\ [Next]_vars => [\A h \in Pages :
          InService(h) /\ changer \in Pages /\ pc[h] = "applying" /\ pc'[h] = "recording" =>
              file \in Config /\ file.models = found[h].baseline]_vars
  BY <1>1
<1> QED BY <1>2, Invariance, PTL DEF Spec, SetupKeepsChoice

=============================================================================
