---------------------------- MODULE ConfigStore ----------------------------
(***************************************************************************)
(* The configuration file and everything that reads or writes it, and the  *)
(* model files it refers to: the Settings server with its single-instance  *)
(* lock (simple_stt_settings.rs), the drafts its pages edit and save       *)
(* (state.svelte.ts), the recommended-model setup that waits for downloads *)
(* (model_setup.rs), the downloads themselves (models.rs), the capture     *)
(* service, which reloads the file on request, and the processes outside   *)
(* Settings: the shell's supervisors, which only read, its toggles and     *)
(* `simple-stt-ctl`, and the user's editor.                                *)
(*                                                                         *)
(* A configuration is reduced to three of its settings: the set of models  *)
(* it assigns (none and one stand for the mode "single model", more for    *)
(* "follow keyboard"), the cleanup switch and its screenshot switch, which *)
(* normalisation turns off with the cleanup.  AppConfig::load writes back  *)
(* what it has read, so that every reader of the file is a writer of it,   *)
(* in two steps that other processes come between.                         *)
(***************************************************************************)
EXTENDS Naturals, FiniteSets

CONSTANTS
    Models,     \* model files; all of them are recommended ones
    Installed,  \* those that are there from the start
    Servers,    \* Settings processes
    Pages,      \* browser pages, each with at most one request at a time
    Outside,    \* threads and processes that load the file outside Settings
    Downloads,  \* download threads of the capture service
    Capture,    \* the capture service
    Nobody,     \* no process, or no page
    NoFile, Malformed,  \* the file does not exist, or does not parse
    NoHash,     \* a page that has not been loaded
    NoRecord, Done,     \* no setup was accepted, or it is over
    MaxAsked,   \* bound: reload requests on their way
    Budget      \* how often each thing happens: a bound for the checker

ASSUME ConfigAssumption ==
    /\ MaxAsked \in Nat
    /\ Capture \notin Pages \cup Outside
    /\ Pages \cap Outside = {}
    /\ Nobody \notin Servers \cup Pages
    /\ Pages \cap {"nobody", "reader", "outside"} = {}
    /\ Budget \in [{"any", "launch", "event", "load", "post", "download"} -> Nat]

VARIABLES
    file,      \* the configuration file
    record,    \* recommended-model-setup.json
    disk,      \* the file under each model's name
    parts,     \* the partial files of downloads, by name
    dl,        \* each download thread: what it fetches, and how far it is
    assigned,  \* the models in the capture service's own configuration
    asked,     \* reload requests the capture service has not taken
    proc,      \* each Settings process
    instance,  \* the holder of settings-instance.lock
    session,   \* the process named in settings-session.json
    guard,     \* the page whose request holds a process's config_lock
    pc, task,  \* where each actor is, and in which operation
    copy,      \* the configuration an actor holds in memory
    found,     \* the pending setup a request has read, while it applies it
    home,      \* the server each page was opened from
    view,      \* each page's draft, and what it was made from
    changer,   \* who last changed a setting; "reader": a load, after a save in Settings
    left       \* what is left of the budget

stores  == <<file, record, changer>>
models  == <<disk, parts, dl>>
servers == <<proc, instance, session, guard>>
actors  == <<pc, task, copy, found, home, view>>
vars    == <<stores, models, assigned, asked, servers, actors, left>>

Actors == Pages \cup Outside \cup {Capture}

Config  == [models : SUBSET Models, cleanup : BOOLEAN, screenshot : BOOLEAN]
Default == [models |-> {}, cleanup |-> FALSE, screenshot |-> FALSE]

ASSUME FileAssumption == NoFile \notin Config

\* normalize_json as far as the settings depend on each other.
Tidy(c) == [c EXCEPT !.screenshot = @ /\ c.cleanup]

\* Configurations with one setting changed, and what is saved for them.
OneChanged(c) ==
    {[c EXCEPT !.models = ms] : ms \in SUBSET Models}
        \cup {[c EXCEPT !.cleanup = ~@], [c EXCEPT !.screenshot = ~@]}
OneSaved(c) == {Tidy(d) : d \in OneChanged(c)}

Pending == [choice : SUBSET Models, baseline : SUBSET Models]

\* A page: the file whose hash it holds, its draft, the configuration it takes
\* for the saved one, and, for the properties only, the one the draft was made
\* from (NoFile when the file had changed before its hash was taken).
Unopened == [hash |-> NoHash, draft |-> Default, base |-> NoFile, made |-> NoFile]

Spend(kind) ==
    /\ left[kind] > 0 /\ left["any"] > 0
    /\ left' = [left EXCEPT ![kind] = @ - 1, !["any"] = @ - 1]

----------------------------------------------------------------------------
(* Writing the file, as one rename of a complete temporary file.           *)

Same(c) == IF file = NoFile THEN c = Default
                            ELSE file \in Config /\ Tidy(file) = c

\* The page's server holds the instance lock: a thread may outlive it.
InService(h) == instance = home[h]

Writes(a, c) ==
    /\ file' = c
    /\ changer' = IF Same(c) THEN changer
                  ELSE IF pc[a] # "writing back"
                       THEN IF a \in Pages THEN IF InService(a) THEN a ELSE "outside" ELSE "outside"
                  ELSE IF changer \in Pages THEN "reader" ELSE "outside"

GoesTo(a, label) == pc' = [pc EXCEPT ![a] = label] /\ UNCHANGED task

\* An operation is over, and what it held in memory is gone.
Rests(a) ==
    /\ pc'   = [pc EXCEPT ![a] = "idle"]
    /\ task' = [task EXCEPT ![a] = "none"]
    /\ copy' = [copy EXCEPT ![a] = Default]

Begins(a, t, label) ==
    /\ pc'   = [pc EXCEPT ![a] = label]
    /\ task' = [task EXCEPT ![a] = t]

LockFree(p) == guard[p] = Nobody

Unlocks(h) == guard' = [guard EXCEPT ![home[h]] = Nobody]

\* A request the service never takes stands for one that could not be sent,
\* and so do those beyond the bound.
AsksReload == asked' = IF asked < MaxAsked THEN asked + 1 ELSE asked

----------------------------------------------------------------------------
(* AppConfig::load_from: read, normalise, write back.                      *)

\* A request of a page that is under its server's config_lock.
UnderLock(a) == a \in Pages /\ task[a] # "action"

\* A file that does not parse is left as it is, and the operation fails; a page
\* that was opened shows the error, with the defaults for a draft and the hash
\* of what was read first.
ReadFails(a) ==
    /\ pc[a] = "reading" /\ file = Malformed
    /\ Rests(a)
    /\ IF UnderLock(a) THEN Unlocks(a) ELSE UNCHANGED guard
    /\ view' = IF task[a] = "state" THEN [view EXCEPT ![a] = [Unopened EXCEPT !.hash = copy[a]]]
                                    ELSE view
    /\ UNCHANGED <<stores, models, assigned, asked, proc, instance, session, found, home, left>>

Reads(a) ==
    /\ pc[a] = "reading" /\ file # Malformed
    /\ copy' = [copy EXCEPT ![a] = IF file = NoFile THEN Default ELSE Tidy(file)]
    /\ GoesTo(a, "writing back")
    /\ UNCHANGED <<stores, models, assigned, asked, servers, found, home, view, left>>

WritesBack(a) ==
    /\ pc[a] = "writing back"
    /\ Writes(a, copy[a])
    /\ IF task[a] \in {"show", "reload", "action"} THEN Rests(a)
       ELSE /\ GoesTo(a, CASE task[a] = "change" -> "changing"
                           [] task[a] = "accept" -> "accepting"
                           [] task[a] \in {"state", "latest"} -> "finalizing")
            /\ UNCHANGED copy
    /\ assigned' = IF task[a] = "reload" THEN copy[a].models ELSE assigned
    /\ UNCHANGED <<record, models, asked, servers, found, home, view, left>>

----------------------------------------------------------------------------
(* Outside Settings.                                                       *)

\* The shell's supervisors (every 200 and 500 ms), its shortcut threads and
\* `ctl config-show` load the file; its toggles and `ctl config-save` change it.
Loads(a, t) ==
    /\ a \in Outside /\ pc[a] = "idle"
    /\ Spend("event")
    /\ Begins(a, t, "reading")
    /\ UNCHANGED <<stores, models, assigned, asked, servers, copy, found, home, view>>

\* A change is saved without looking at the file again.
Changes(a) ==
    /\ pc[a] = "changing"
    /\ \E c \in OneSaved(copy[a]) : Writes(a, c)
    /\ AsksReload
    /\ Rests(a)
    /\ UNCHANGED <<record, models, assigned, servers, found, home, view, left>>

\* The user's editor, `ctl config-reset`, or deleting the file.
Edits ==
    /\ Spend("event")
    /\ file' \in {NoFile, Malformed, Default}
               \cup (IF file \in Config THEN OneChanged(file) ELSE {})
    /\ changer' = "outside"
    /\ UNCHANGED <<record, models, assigned, asked, servers, actors>>

----------------------------------------------------------------------------
(* The capture service.                                                    *)

Reloads ==
    /\ asked > 0 /\ pc[Capture] = "idle"
    /\ asked' = asked - 1
    /\ Begins(Capture, "reload", "reading")
    /\ UNCHANGED <<stores, models, assigned, servers, copy, found, home, view, left>>

\* The service is killed and started again: its downloads stop where they are,
\* and it loads the file anew.
Restarts ==
    /\ Spend("event")
    /\ asked' = 0
    /\ dl' = [d \in Downloads |-> [model |-> dl[d].model, phase |-> "idle"]]
    /\ Begins(Capture, "reload", "reading")
    /\ UNCHANGED <<stores, disk, parts, assigned, servers, copy, found, home, view>>

SharedPart(d, m) == m

\* Every download writes to a partial file with a random name of its own.
PartName(d, m) == d

Downloading(d, phase) == dl' = [dl EXCEPT ![d].phase = phase]

DownloadBegins(d) ==
    /\ dl[d].phase = "idle"
    /\ Spend("download")
    /\ \E m \in Models :
           /\ disk[m] = "absent"
           /\ dl' = [dl EXCEPT ![d] = [model |-> m, phase |-> "receiving"]]
           /\ parts' = [parts EXCEPT ![PartName(d, m)] = "torn"]
    /\ UNCHANGED <<stores, disk, assigned, asked, servers, actors>>

\* The last byte is written and synced, and the checksum agrees.
DownloadReceived(d) ==
    /\ dl[d].phase = "receiving"
    /\ parts' = [parts EXCEPT ![PartName(d, dl[d].model)] = "whole"]
    /\ Downloading(d, "renaming")
    /\ UNCHANGED <<stores, disk, assigned, asked, servers, actors, left>>

DownloadFails(d) ==
    /\ dl[d].phase \in {"receiving", "renaming"}
    /\ Spend("event")
    /\ parts' = [parts EXCEPT ![PartName(d, dl[d].model)] = "absent"]
    /\ Downloading(d, "idle")
    /\ UNCHANGED <<stores, disk, assigned, asked, servers, actors>>

DownloadLands(d) ==
    /\ dl[d].phase = "renaming"
    /\ LET part == PartName(d, dl[d].model) IN
           /\ parts' = [parts EXCEPT ![part] = "absent"]
           /\ disk' = IF parts[part] = "absent" THEN disk
                      ELSE [disk EXCEPT ![dl[d].model] = parts[part]]
    /\ Downloading(d, "idle")
    /\ UNCHANGED <<stores, assigned, asked, servers, actors, left>>

\* The service refuses to remove a model its own configuration assigns.
Removes ==
    /\ pc[Capture] = "idle"
    /\ Spend("event")
    /\ \E m \in Models \ assigned :
           disk[m] # "absent" /\ disk' = [disk EXCEPT ![m] = "absent"]
    /\ UNCHANGED <<stores, parts, dl, assigned, asked, servers, actors>>

----------------------------------------------------------------------------
(* One Settings server at a time.                                          *)

\* reusable_session_url: the named server answers, and is not closing.
Reusable == session # Nobody /\ proc[session] = "serving"

Launches(p) ==
    /\ proc[p] = "absent"
    /\ Spend("launch")
    /\ proc' = [proc EXCEPT ![p] = "launching"]
    /\ UNCHANGED <<stores, models, assigned, asked, instance, session, guard, actors>>

LaunchLocks(p) ==
    /\ proc[p] = "launching" /\ instance = Nobody /\ ~Reusable
    /\ instance' = p
    /\ proc' = [proc EXCEPT ![p] = "starting"]
    /\ UNCHANGED <<stores, models, assigned, asked, session, guard, actors, left>>

\* The browser is sent to the running server, or ten seconds have passed.
LaunchEnds(p) ==
    /\ proc[p] = "launching" /\ (Reusable \/ instance # Nobody)
    /\ proc' = [proc EXCEPT ![p] = "absent"]
    /\ UNCHANGED <<stores, models, assigned, asked, instance, session, guard, actors, left>>

Serves(p) ==
    /\ proc[p] = "starting"
    /\ session' = p
    /\ proc' = [proc EXCEPT ![p] = "serving"]
    /\ UNCHANGED <<stores, models, assigned, asked, instance, guard, actors, left>>

Closes(p) ==
    /\ proc[p] = "serving" /\ \E h \in Pages : home[h] = p
    /\ Spend("event")
    /\ proc' = [proc EXCEPT ![p] = "closing"]
    /\ UNCHANGED <<stores, models, assigned, asked, instance, session, guard, actors>>

Busy(p) == {h \in Pages : home[h] = p /\ pc[h] # "idle"}

\* After /api/close, or fifteen minutes without a request, run() returns: the
\* session file is removed and the instance lock free, whatever is still at work.
Ends(p) ==
    /\ \/ proc[p] = "closing" /\ UNCHANGED left
       \/ proc[p] = "serving" /\ Spend("event")
    /\ session' = IF session = p THEN Nobody ELSE session
    /\ instance' = Nobody
    /\ proc' = [proc EXCEPT ![p] = "ended"]
    /\ UNCHANGED <<stores, models, assigned, asked, guard, actors>>

\* The process is gone, the requests it was at work on with it, and its pages
\* have a token that no other server knows.
Gone(p) ==
    /\ proc' = [proc EXCEPT ![p] = "absent"]
    /\ instance' = IF instance = p THEN Nobody ELSE instance
    /\ guard' = [guard EXCEPT ![p] = Nobody]
    /\ pc'   = [a \in Actors |-> IF a \in Busy(p) THEN "idle" ELSE pc[a]]
    /\ task' = [a \in Actors |-> IF a \in Busy(p) THEN "none" ELSE task[a]]
    /\ copy' = [a \in Actors |-> IF a \in Busy(p) THEN Default ELSE copy[a]]
    /\ found' = [h \in Pages |-> IF home[h] = p THEN NoRecord ELSE found[h]]
    /\ home' = [h \in Pages |-> IF home[h] = p THEN Nobody ELSE home[h]]
    /\ view' = [h \in Pages |-> IF home[h] = p THEN Unopened ELSE view[h]]
    /\ UNCHANGED <<stores, models, assigned, asked, session>>

\* The end of the process, some time after that of run().
Dies(p) == proc[p] = "ended" /\ Gone(p) /\ UNCHANGED left

\* A crash leaves the session file behind; the system drops the lock.
Crashes(p) == proc[p] # "absent" /\ Spend("event") /\ Gone(p)

----------------------------------------------------------------------------
(* Requests to the Settings server, under its config_lock.  One that was    *)
(* received before run() returned may get the lock after that.              *)

Locks(h, p, t, label) ==
    /\ proc[p] \in {"serving", "closing", "ended"} /\ LockFree(p)
    /\ guard' = [guard EXCEPT ![p] = h]
    /\ Begins(h, t, label)
    /\ UNCHANGED <<stores, models, assigned, asked, proc, instance, session, found>>

\* A page is opened or refreshed.
StateBegins(h, p) ==
    /\ pc[h] = "idle"
    /\ Locks(h, p, "state", "reading")
    /\ Spend("load")
    /\ copy' = [copy EXCEPT ![h] = file]
    /\ home' = [home EXCEPT ![h] = p]
    /\ view' = IF home[h] = p THEN view ELSE [view EXCEPT ![h] = Unopened]

AcceptBegins(h, p) ==
    /\ pc[h] = "idle" /\ home[h] = p /\ view[h].hash # NoHash
    /\ Locks(h, p, "accept", "reading")
    /\ Spend("post")
    /\ UNCHANGED <<copy, home, view>>

\* A cleanup action that comes without a configuration loads it with no lock.
ActionBegins(h, p) ==
    /\ pc[h] = "idle" /\ home[h] = p /\ view[h].hash # NoHash
    /\ proc[p] \in {"serving", "closing"}
    /\ Spend("event")
    /\ Begins(h, "action", "reading")
    /\ UNCHANGED <<stores, models, assigned, asked, servers, copy, found, home, view>>

\* The user has changed the draft, or saves it again after a refusal.
SaveBegins(h, p) ==
    /\ pc[h] = "idle" /\ home[h] = p /\ view[h].hash # NoHash
    /\ Locks(h, p, "save", "checking")
    /\ Spend("post")
    /\ \E c \in OneChanged(view[h].draft) \cup {view[h].draft} :
           view' = [view EXCEPT ![h].draft = c]
    /\ UNCHANGED <<copy, home>>

AnyHash(h) == TRUE

HashAgrees(h) == file = view[h].hash

\* "config changed outside Settings; reload before saving": refused, and the
\* page looks at the file once, unless it showed a file that did not parse.
SaveChecks(h) ==
    /\ pc[h] = "checking"
    /\ \/ HashAgrees(h) /\ GoesTo(h, "saving") /\ UNCHANGED <<copy, guard>>
       \/ /\ ~HashAgrees(h) /\ Unlocks(h)
          /\ IF task[h] = "save" /\ view[h].base \in Config
             THEN GoesTo(h, "refused") /\ UNCHANGED copy
             ELSE Rests(h)
    /\ UNCHANGED <<stores, models, assigned, asked, proc, instance, session,
                   found, home, view, left>>

\* The page's whole draft is written, whatever the file holds.
SaveWrites(h) ==
    /\ pc[h] = "saving"
    /\ Writes(h, Tidy(view[h].draft))
    /\ copy' = [copy EXCEPT ![h] = Tidy(view[h].draft)]
    /\ GoesTo(h, "hashing")
    /\ UNCHANGED <<record, models, assigned, asked, servers, found, home, view, left>>

LatestBegins(h, p) ==
    /\ pc[h] = "refused" /\ home[h] = p
    /\ Locks(h, p, "latest", "reading")
    /\ UNCHANGED <<copy, home, view, left>>

ResaveBegins(h, p) ==
    /\ pc[h] = "again" /\ home[h] = p
    /\ Locks(h, p, "resave", "checking")
    /\ UNCHANGED <<copy, home, view, left>>

Accepts(h) ==
    /\ pc[h] = "accepting"
    /\ \E choice \in SUBSET Models :
           record' = [choice |-> choice, baseline |-> copy[h].models]
    /\ Rests(h) /\ Unlocks(h)
    /\ UNCHANGED <<file, changer, models, assigned, asked, proc, instance, session,
                   found, home, view, left>>

\* finalize_pending: what becomes of a pending choice.
NoBaseline(h) == FALSE

SelectionChanged(h) == copy[h].models # record.baseline
Downloaded == \A m \in record.choice : disk[m] # "absent"

Finalizes(h) ==
    /\ pc[h] = "finalizing"
    /\ \/ /\ record \notin Pending
          /\ GoesTo(h, "hashing") /\ UNCHANGED <<record, found>>
       \/ /\ record \in Pending /\ SelectionChanged(h)
          /\ GoesTo(h, "hashing") /\ record' = Done /\ UNCHANGED found
       \/ /\ record \in Pending /\ ~SelectionChanged(h) /\ ~Downloaded
          /\ GoesTo(h, "hashing") /\ UNCHANGED <<record, found>>
       \/ /\ record \in Pending /\ ~SelectionChanged(h) /\ Downloaded
          /\ GoesTo(h, "applying") /\ found' = [found EXCEPT ![h] = record] /\ UNCHANGED record
    /\ UNCHANGED <<file, changer, models, assigned, asked, servers, copy, home, view, left>>

Applied(h) == [copy[h] EXCEPT !.models = found[h].choice]

Applies(h) ==
    /\ pc[h] = "applying"
    /\ Writes(h, Applied(h))
    /\ copy' = [copy EXCEPT ![h] = Applied(h)]
    /\ found' = [found EXCEPT ![h] = NoRecord]
    /\ GoesTo(h, "recording")
    /\ UNCHANGED <<record, models, assigned, asked, servers, home, view, left>>

Records(h) ==
    /\ pc[h] = "recording"
    /\ record' = Done
    /\ AsksReload
    /\ GoesTo(h, "hashing")
    /\ UNCHANGED <<file, changer, models, assigned, servers, copy, found, home, view, left>>

\* What the answer shows, with the hash of the file as it is now.
Shown(c) == [hash |-> file, draft |-> c, base |-> c,
             made |-> IF file = c THEN c ELSE NoFile]

\* The shell's toggles change the cleanup switch: a draft is saved over that.
OnlyCleanup(c, d) == c.models = d.models /\ c.screenshot = d.screenshot

Retried(h) == copy[h] # view[h].base /\ OnlyCleanup(view[h].base, copy[h])

\* The old draft, with the new hash.
Kept(h) == [view[h] EXCEPT !.hash = file, !.base = copy[h],
                           !.made = IF file = copy[h] THEN @ ELSE NoFile]

\* The page has its answer; a save also asks for a reload.  The request fails
\* when the file is gone.
Hashes(h) ==
    /\ pc[h] = "hashing"
    /\ \/ file # NoFile /\ task[h] # "latest"
          /\ Rests(h) /\ view' = [view EXCEPT ![h] = Shown(copy[h])]
       \/ file # NoFile /\ task[h] = "latest" /\ Retried(h)
          /\ GoesTo(h, "again") /\ UNCHANGED copy /\ view' = [view EXCEPT ![h] = Kept(h)]
       \/ /\ file = NoFile \/ (task[h] = "latest" /\ ~Retried(h))
          /\ Rests(h) /\ UNCHANGED view
    /\ IF file # NoFile /\ task[h] \in {"save", "resave"} THEN AsksReload ELSE UNCHANGED asked
    /\ Unlocks(h)
    /\ UNCHANGED <<stores, models, assigned, proc, instance, session, found, home, left>>

----------------------------------------------------------------------------

Init ==
    /\ file = NoFile
    /\ record = NoRecord
    /\ disk = [m \in Models |-> IF m \in Installed THEN "whole" ELSE "absent"]
    /\ parts = [n \in Downloads \cup Models |-> "absent"]
    /\ dl \in [Downloads -> [model : Models, phase : {"idle"}]]
    /\ \A d, e \in Downloads : dl[d] = dl[e]
    /\ assigned = {} /\ asked = 0
    /\ proc = [p \in Servers |-> "absent"]
    /\ instance = Nobody /\ session = Nobody
    /\ guard = [p \in Servers |-> Nobody]
    /\ pc = [a \in Actors |-> "idle"]
    /\ task = [a \in Actors |-> "none"]
    /\ copy = [a \in Actors |-> Default]
    /\ found = [h \in Pages |-> NoRecord]
    /\ home = [h \in Pages |-> Nobody]
    /\ view = [h \in Pages |-> Unopened]
    /\ changer = "nobody"
    /\ left = Budget

Loading == \E a \in Actors : ReadFails(a) \/ Reads(a) \/ WritesBack(a)

OutsideStep == (\E a \in Outside : Loads(a, "show") \/ Loads(a, "change") \/ Changes(a)) \/ Edits

CaptureStep ==
    \/ Reloads \/ Restarts \/ Removes
    \/ \E d \in Downloads : \/ DownloadBegins(d) \/ DownloadReceived(d)
                            \/ DownloadFails(d) \/ DownloadLands(d)

ServerStep ==
    \E p \in Servers : \/ Launches(p) \/ LaunchLocks(p) \/ LaunchEnds(p) \/ Serves(p)
                       \/ Closes(p) \/ Ends(p) \/ Dies(p) \/ Crashes(p)

RequestStep ==
    \E h \in Pages :
        \/ \E p \in Servers : \/ StateBegins(h, p) \/ AcceptBegins(h, p) \/ ActionBegins(h, p)
                              \/ SaveBegins(h, p) \/ LatestBegins(h, p) \/ ResaveBegins(h, p)
        \/ SaveChecks(h) \/ SaveWrites(h) \/ Accepts(h)
        \/ Finalizes(h) \/ Applies(h) \/ Records(h) \/ Hashes(h)

Next == Loading \/ OutsideStep \/ CaptureStep \/ ServerStep \/ RequestStep

Spec == Init /\ [][Next]_vars

----------------------------------------------------------------------------
(* Properties.                                                             *)

StoresOK ==
    /\ file \in Config \cup {NoFile, Malformed}
    /\ record \in Pending \cup {NoRecord, Done}
    /\ changer \in Pages \cup {"nobody", "reader", "outside"}

ModelsOK ==
    /\ disk \in [Models -> {"absent", "whole", "torn"}]
    /\ parts \in [Downloads \cup Models -> {"absent", "whole", "torn"}]
    /\ dl \in [Downloads -> [model : Models, phase : {"idle", "receiving", "renaming"}]]
    /\ assigned \in SUBSET Models /\ asked \in Nat

ServersOK ==
    /\ proc \in [Servers -> {"absent", "launching", "starting", "serving", "closing", "ended"}]
    /\ instance \in Servers \cup {Nobody} /\ session \in Servers \cup {Nobody}
    /\ guard \in [Servers -> Pages \cup {Nobody}]

Labels == {"idle", "reading", "writing back", "changing", "accepting", "finalizing", "applying",
           "recording", "checking", "saving", "refused", "again", "hashing"}
Tasks  == {"none", "show", "reload", "change", "accept", "action", "state", "latest", "save",
           "resave"}

View == [hash : Config \cup {NoFile, Malformed, NoHash}, draft : Config,
         base : Config \cup {NoFile}, made : Config \cup {NoFile}]

ActorsOK ==
    /\ pc \in [Actors -> Labels] /\ task \in [Actors -> Tasks]
    /\ copy \in [Actors -> Config \cup {Malformed, NoFile}]
    /\ found \in [Pages -> Pending \cup {NoRecord}]
    /\ home \in [Pages -> Servers \cup {Nobody}]
    /\ view \in [Pages -> View]

\* Whoever is at work for a page holds the lock of the server it was opened
\* from, a cleanup action excepted.
Working(h) == pc[h] \notin {"idle", "refused", "again"} /\ task[h] # "action"
LocksHeld  == \A h \in Pages : Working(h) <=> home[h] # Nobody /\ guard[home[h]] = h

TypeOK == StoresOK /\ ModelsOK /\ ServersOK /\ ActorsOK /\ LocksHeld

\* A save replaces what its draft was made from, but for the cleanup switch; not
\* so when the file had changed before its hash was taken.
SavesItsOrigin(h) ==
    pc[h] = "saving" /\ pc'[h] = "hashing" =>
        view[h].made = NoFile \/ (file \in Config /\ OnlyCleanup(view[h].made, file))

\* What is written back, or changed by the setup, is what was read.
ReplacesWhatItRead(h) ==
    Working(h) /\ <<pc[h], pc'[h]>> \in {<<"writing back", "finalizing">>,
                                         <<"writing back", "accepting">>, <<"applying", "recording">>}
        => file = copy[h]

\* A request of Settings never replaces a configuration that a page has saved
\* and that it has not seen, although a save writes the whole of a draft that may
\* be as old as its page: the hash is what tells, and config_lock and the
\* instance lock keep check and write together.  What another page did to the
\* cleanup switch may be undone, since a refused page saves its old draft again
\* with the new hash when no more than that has changed; and processes outside
\* Settings, lock-free actions and threads that outlive their server's instance
\* lock are no part of this.
NoBlindWrite ==
    [][\A h \in Pages : InService(h) /\ changer \in Pages =>
           SavesItsOrigin(h) /\ ReplacesWhatItRead(h)]_vars

\* The recommended-model setup never replaces a selection that was saved in
\* Settings after the setup was accepted, however long its downloads take and
\* wherever Settings was interrupted: what it replaces is the selection it was
\* accepted for, or one that a process outside Settings, or a thread that
\* outlived its server, has just written.
SetupKeepsChoice ==
    [][\A h \in Pages :
           InService(h) /\ changer \in Pages /\ pc[h] = "applying" /\ pc'[h] = "recording" =>
               file \in Config /\ file.models = found[h].baseline]_vars

\* The code does not hold this: a save replaces what its page's draft was made
\* from.  A page whose save was refused saves the same draft with the new hash
\* when only the cleanup switch has changed, and undoes that change; the hash of
\* /api/state is taken after the configuration it goes with was read; and no
\* lock keeps other processes out between the check and the write.
SavesOverItsOrigin ==
    [][\A h \in Pages : pc[h] = "saving" /\ pc'[h] = "hashing" /\ view[h].base \in Config
                         => file = view[h].made]_vars

\* The code does not hold this: only the process with the instance lock works on
\* requests.  run() returns, and frees the lock, with request threads at work.
OneServerWorks == \A h \in Pages : Working(h) => InService(h)

\* A file under a model's name is complete, whatever downloads of that model run
\* at once, fail, or are cut off by the end of the service: `is_file` is enough
\* for the setup to assign it, and for a later download to be skipped.
ModelsAreWhole == \A m \in Models : disk[m] # "torn"

\* What was saved in Settings is not lost to a process that only loads the
\* configuration.  It is violated: a load writes back what it has read, over
\* whatever was saved in between.
LoadingKeepsSaves == changer # "reader"

=============================================================================
