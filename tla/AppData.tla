-------------------------------- MODULE AppData --------------------------------
(***************************************************************************)
(* What the app keeps of its servers (session.rs, profiles.rs, secrets.rs, *)
(* commands/session.rs, commands/backup.rs): the profiles file, the        *)
(* credentials, the active session and whose queue the playback controller *)
(* has, together with the image caches.                                    *)
(*                                                                         *)
(* bootstrap_app_state and connect_server_profile are async and run in     *)
(* workers; delete_server_profile, import and export run on the main       *)
(* thread, which is one.  Nothing is locked but the session and the        *)
(* controller, each for a moment: a command reads the file, asks a server, *)
(* and writes the file it read, changed.                                   *)
(***************************************************************************)
EXTENDS ImageCache

CONSTANTS Workers, Main,
          Accounts,         \* of a server: its address and a user name
          FirstProfile, FirstAccount,   \* what the app was used with before
          Backups           \* transonic-backup.json, if there is one

\* account[p] is None for a profile that the file does not have; last is the one
\* with isLastActive, which is a flag of its entry.
Credentials == [Profiles -> Accounts \cup {None}]
Contents == [account: Credentials, last: Profiles \cup {None}]
NoProfiles == [account |-> [p \in Profiles |-> None], last |-> None]
Known(file) == {p \in Profiles : file.account[p] # None}
Listed(file) == file \in Contents /\ file.last \in Known(file) \cup {None}

ASSUME AppAssumption ==
    /\ Main \notin Workers
    /\ None \notin Accounts
    /\ FirstProfile \in Profiles /\ FirstAccount \in Accounts
    /\ \A b \in Backups : Listed(b.file) /\ b.secrets \in Credentials

VARIABLES
    stored,     \* profiles-v1.json
    backup,     \* transonic-backup.json
    job,        \* per worker, and of the main thread: the command it runs
    player,     \* the playback controller: profile, whose songs are in its queue
    saved,      \* playback-state.json
    used,       \* history: ids of profiles (random, so never given twice)
    gone        \* history: profiles that were deleted

appVars == <<session, secrets, stored, backup, job, player, saved, used, gone>>
vars == <<windows, run, calls, cacheVars, appVars>>

Actors == Workers \cup {Main}

\* store_connected_profile
Connected(file, p, account) == [file EXCEPT !.account[p] = account, !.last = p]
\* remove_profile
Without(file, p) ==
    [file EXCEPT !.account[p] = None, !.last = IF @ = p THEN None ELSE @]
\* has_duplicate_profile_identity
HasDuplicate(file, p, account) == \E q \in Profiles \ {p} : file.account[q] = account

NoSession == [profile |-> None, account |-> None]
NoPlayer == [profile |-> None, queue |-> {}, deferred |-> FALSE]
NoSaved == [profile |-> None, queue |-> {}]
NoBackup == [file |-> NoProfiles, secrets |-> NoProfiles.account]

\* at: the next step; profile: the one it is about, existing: named by the
\* payload; ok: the server answered, or the deleted profile is active; file: the
\* profiles as read, and then as they are to be written.
Job == [kind: {"none", "connect", "bootstrap", "autoImport", "delete", "import"},
        at: {"idle", "load", "api", "secret", "truncate", "write", "session", "reset",
             "owner", "restore", "put", "images"},
        profile: Profiles \cup {None}, account: Accounts \cup {None},
        existing: BOOLEAN, ok: BOOLEAN, file: Contents]
NoJob == [kind |-> "none", at |-> "idle", profile |-> None, account |-> None,
          existing |-> FALSE, ok |-> FALSE, file |-> NoProfiles]

Idle == \A a \in Actors : job[a].at = "idle"
\* Commands take turns with calls for images, too.
CanBegin(a) ==
    /\ job[a].at = "idle" /\ calls < MaxCalls
    /\ Idle \/ Open("overlap")
    /\ Open("removal") \/ \A t \in Tasks : call[t].at \notin Running

\* What this step of a leaves alone.
Only(a, j) == job' = [job EXCEPT ![a] = j]
Ends(a) == Only(a, NoJob)
At(a, step) == job[a].at = step
SameData == UNCHANGED <<session, secrets, stored, backup, player, saved, used, gone>>
Same(v) == UNCHANGED <<windows, run, calls, cacheVars, v>>

-----------------------------------------------------------------------------
\* connect_server_profile

\* Of a new profile, or of one that the caller names.
BeginConnect(a) ==
    /\ CanBegin(a)
    /\ \E p \in used \cup {None}, account \in Accounts :
         Only(a, [NoJob EXCEPT !.kind = "connect", !.at = "load", !.profile = p,
                               !.account = account, !.existing = p # None])
    /\ calls' = calls + 1
    /\ SameData /\ UNCHANGED <<windows, run, cacheVars>>

\* load_profiles: a file that was torn is an error from now on.
LoadForConnect(a) ==
    /\ At(a, "load") /\ job[a].kind = "connect"
    /\ IF stored.torn \/ (job[a].existing /\ job[a].profile \notin Known(stored.file))
         THEN Ends(a)
         ELSE Only(a, [job[a] EXCEPT !.at = "api", !.file = stored.file])
    /\ SameData /\ Same(<<>>)

\* The server accepts the credentials.  The profile gets its id, and is changed
\* in the file that was read before.
ConnectAccepted(a) ==
    /\ At(a, "api") /\ job[a].kind = "connect"
    /\ IF HasDuplicate(job[a].file, job[a].profile, job[a].account)
         THEN Ends(a) /\ UNCHANGED used
         ELSE \E p \in IF job[a].existing THEN {job[a].profile} ELSE Profiles \ used :
                /\ Only(a, [job[a] EXCEPT !.at = "secret", !.ok = TRUE, !.profile = p,
                                          !.file = Connected(@, p, job[a].account)])
                /\ used' = used \cup {p}
    /\ UNCHANGED <<session, secrets, stored, backup, player, saved, gone>> /\ Same(<<>>)

\* It does not; a profile that was named has its state noted.
ConnectRefused(a) ==
    /\ At(a, "api") /\ job[a].kind = "connect"
    /\ IF job[a].existing THEN Only(a, [job[a] EXCEPT !.at = "truncate"]) ELSE Ends(a)
    /\ SameData /\ Same(<<>>)

\* save_secret, before the file names the profile.
SaveSecret(a) ==
    /\ At(a, "secret") /\ job[a].kind = "connect"
    /\ secrets' = [secrets EXCEPT ![job[a].profile] = job[a].account]
    /\ Only(a, [job[a] EXCEPT !.at = "truncate"])
    /\ UNCHANGED <<session, stored, backup, player, saved, used, gone>> /\ Same(<<>>)

-----------------------------------------------------------------------------
\* save_profiles_file truncates the file and writes it.

Truncate(a) ==
    /\ At(a, "truncate")
    /\ stored' = [stored EXCEPT !.torn = TRUE]
    /\ Only(a, [job[a] EXCEPT !.at = "write"])
    /\ UNCHANGED <<session, secrets, backup, player, saved, used, gone>> /\ Same(<<>>)

Write(a) ==
    /\ At(a, "write")
    /\ stored' = [torn |-> FALSE, file |-> job[a].file]
    /\ IF job[a].kind = "connect" /\ ~job[a].ok
         THEN Ends(a)
         ELSE Only(a, [job[a] EXCEPT !.at = IF job[a].kind = "autoImport" THEN "load"
                                            ELSE "session",
                                     !.kind = IF @ = "autoImport" THEN "bootstrap" ELSE @])
    /\ UNCHANGED <<session, secrets, backup, player, saved, used, gone>> /\ Same(<<>>)

\* set_active_session
SetSession(a) ==
    /\ At(a, "session")
    /\ LET j == job[a]
           session1 ==
             CASE j.kind \in {"connect", "bootstrap"} /\ j.ok ->
                    [profile |-> j.profile, account |-> j.account]
               [] j.kind = "delete" /\ ~j.ok -> session
               [] OTHER -> NoSession
       IN /\ session' = session1
          /\ CASE j.kind = "import" -> Ends(a)
               [] j.kind = "bootstrap" /\ j.ok -> Only(a, [j EXCEPT !.at = "restore"])
               [] j.kind = "delete" /\ session1 # NoSession -> Ends(a)
               [] OTHER -> Only(a, [j EXCEPT !.at = "reset"])
          /\ gone' = IF j.kind = "delete" THEN gone \cup {j.profile} ELSE gone
    /\ UNCHANGED <<secrets, stored, backup, player, saved, used>> /\ Same(<<>>)

\* An operation fails: the command ends with an error, what it did stays done.  An
\* import saves the settings before it ends the session.
JobFails(a) ==
    /\ Open("fault")
    /\ \/ job[a].at \in {"secret", "truncate", "write"}
       \/ At(a, "session") /\ job[a].kind = "import"
    /\ IF job[a].kind = "autoImport"
         THEN Only(a, [NoJob EXCEPT !.kind = "bootstrap", !.at = "load"])
         ELSE Ends(a)
    /\ SameData /\ Same(<<>>)

\* reset_playback_state: the controller has no profile then, so the empty queue
\* is not saved.
Reset(a) ==
    /\ At(a, "reset")
    /\ player' = NoPlayer
    /\ IF job[a].kind = "connect" THEN Only(a, [job[a] EXCEPT !.at = "owner"]) ELSE Ends(a)
    /\ UNCHANGED <<session, secrets, stored, backup, saved, used, gone>> /\ Same(<<>>)

\* set_active_profile_id
SetOwner(a) ==
    /\ At(a, "owner")
    /\ player' = [player EXCEPT !.profile = job[a].profile, !.deferred = FALSE]
    /\ Ends(a)
    /\ UNCHANGED <<session, secrets, stored, backup, saved, used, gone>> /\ Same(<<>>)

-----------------------------------------------------------------------------
\* bootstrap_app_state, when the frontend starts

\* Mutant: the profile keeps its user name, whomever the server knows.
BootstrapAnsweredOnly(a) ==
    /\ At(a, "api") /\ job[a].kind = "bootstrap"
    /\ \E ok \in BOOLEAN :
         Only(a, [job[a] EXCEPT !.at = "truncate", !.ok = ok, !.file.last = job[a].profile])
    /\ SameData /\ Same(<<>>)

\* Mutant: the file's queue is taken whose ever it is.
PutAnyQueue(a) ==
    /\ At(a, "put")
    /\ player' = [profile |-> job[a].profile, deferred |-> FALSE, queue |-> saved.queue]
    /\ Ends(a)
    /\ UNCHANGED <<session, secrets, stored, backup, saved, used, gone>> /\ Same(<<>>)

\* maybe_auto_import_server_backup, if there are no profiles; its errors are logged.
BeginBootstrap(a) ==
    /\ CanBegin(a)
    /\ Only(a, IF ~stored.torn /\ Known(stored.file) = {} /\ backup # NoBackup
                 THEN [NoJob EXCEPT !.kind = "autoImport", !.at = "secret", !.file = backup.file]
                 ELSE [NoJob EXCEPT !.kind = "bootstrap", !.at = "load"])
    /\ calls' = calls + 1
    /\ SameData /\ UNCHANGED <<windows, run, cacheVars>>

\* There may be a session already, no profile that was last active, or no
\* credentials for it; otherwise the server is asked.
LoadForBootstrap(a) ==
    /\ At(a, "load") /\ job[a].kind = "bootstrap"
    /\ LET p == stored.file.last
           read == [job[a] EXCEPT !.file = stored.file, !.profile = p]
       IN CASE stored.torn -> Ends(a)
            [] ~stored.torn /\ session # NoSession ->
                 Only(a, [job[a] EXCEPT !.at = "restore", !.profile = session.profile])
            [] ~stored.torn /\ session = NoSession /\ p = None ->
                 Only(a, [job[a] EXCEPT !.at = "reset"])
            [] ~stored.torn /\ session = NoSession /\ p # None /\ secrets[p] = None ->
                 Only(a, [read EXCEPT !.at = "truncate"])
            [] OTHER -> Only(a, [read EXCEPT !.at = "api", !.account = secrets[p]])
    /\ SameData /\ Same(<<>>)

\* Credentials of another account than the file says are refused, or they are the
\* API key of another user, whose profile it is then.
BootstrapAnswered(a) ==
    /\ At(a, "api") /\ job[a].kind = "bootstrap"
    /\ LET j == job[a]
       IN \E ok \in BOOLEAN :
            Only(a, [j EXCEPT !.at = "truncate", !.ok = ok,
                              !.file = IF ok THEN Connected(@, j.profile, j.account)
                                       ELSE [@ EXCEPT !.last = j.profile]])
    /\ SameData /\ Same(<<>>)

\* restore_playback_state leaves the controller alone if it has the profile; if
\* Connect is on, the queue is left to it (defer_state_restore).
Restore(a) ==
    /\ At(a, "restore")
    /\ LET p == job[a].profile
       IN \/ /\ player' = [player EXCEPT !.profile = p, !.deferred = TRUE]
             /\ Ends(a)
          \/ /\ IF player.profile = p /\ ~player.deferred
                  THEN Ends(a)
                  ELSE Only(a, [job[a] EXCEPT !.at = "put"])
             /\ UNCHANGED player
    /\ UNCHANGED <<session, secrets, stored, backup, saved, used, gone>> /\ Same(<<>>)

\* The file of another profile is left aside, and the controller's queue as it is.
PutQueue(a) ==
    /\ At(a, "put")
    /\ LET p == job[a].profile
       IN player' = [profile |-> p, deferred |-> FALSE,
                     queue |-> IF saved.profile = p THEN saved.queue ELSE player.queue]
    /\ Ends(a)
    /\ UNCHANGED <<session, secrets, stored, backup, saved, used, gone>> /\ Same(<<>>)

-----------------------------------------------------------------------------
\* delete_server_profile: the images, the credentials, the file, the session

BeginDelete ==
    /\ CanBegin(Main)
    /\ \E p \in used :
         /\ stored.torn \/ p \in Known(stored.file)
         /\ BeginRemoval(p, TRUE)
         /\ Only(Main, [NoJob EXCEPT !.kind = "delete", !.at = "images", !.profile = p])
    /\ SameData /\ UNCHANGED <<windows, run>>

LoadForDelete ==
    /\ At(Main, "images") /\ removal.at \in {"removed", "failed"}
    /\ IF removal.at = "failed" \/ stored.torn
         THEN Ends(Main)
         ELSE LET p == job[Main].profile
              IN Only(Main, [job[Main] EXCEPT !.at = "secret", !.ok = session.profile = p,
                                              !.file = Without(stored.file, p)])
    /\ removal' = NoRemoval
    /\ SameData /\ UNCHANGED <<windows, run, calls, dir, flight, call>>

DeleteSecret ==
    /\ At(Main, "secret") /\ job[Main].kind = "delete"
    /\ secrets' = [secrets EXCEPT ![job[Main].profile] = None]
    /\ Only(Main, [job[Main] EXCEPT !.at = "truncate"])
    /\ UNCHANGED <<session, stored, backup, player, saved, used, gone>> /\ Same(<<>>)

-----------------------------------------------------------------------------
\* import_server_backup, replacing what there is, and export_server_backup

BeginImport ==
    /\ CanBegin(Main) /\ removal.at = "idle"
    /\ ~stored.torn /\ backup # NoBackup
    /\ Open("import") \/ player.queue = {}
    /\ Only(Main, [NoJob EXCEPT !.kind = "import", !.at = "secret", !.file = backup.file])
    /\ calls' = calls + 1
    /\ SameData /\ UNCHANGED <<windows, run, cacheVars>>

\* The credentials of every profile of the backup.
ImportSecrets(a) ==
    /\ At(a, "secret") /\ job[a].kind \in {"import", "autoImport"}
    /\ secrets' = [p \in Profiles |->
                     IF p \in Known(job[a].file) THEN backup.secrets[p] ELSE secrets[p]]
    /\ gone' = gone \ Known(job[a].file)
    /\ Only(a, [job[a] EXCEPT !.at = "truncate"])
    /\ UNCHANGED <<session, stored, backup, player, saved, used>> /\ Same(<<>>)

Export ==
    /\ CanBegin(Main) /\ removal.at = "idle"
    /\ ~stored.torn
    /\ \A p \in Known(stored.file) : secrets[p] # None
    /\ backup' = [file |-> stored.file,
                  secrets |-> [p \in Profiles |->
                                 IF p \in Known(stored.file) THEN secrets[p] ELSE None]]
    /\ calls' = calls + 1
    /\ UNCHANGED <<session, secrets, stored, job, player, saved, used, gone>>
    /\ UNCHANGED <<windows, run, cacheVars>>

-----------------------------------------------------------------------------
\* persist_state
Saved(p) ==
    IF p.profile # None /\ ~p.deferred THEN [profile |-> p.profile, queue |-> p.queue]
    ELSE saved

\* The user plays, or queues, songs of the server he is shown.
Play ==
    /\ Idle \/ Open("overlap")
    /\ session # NoSession
    /\ \E queue \in {{session.profile}, player.queue \cup {session.profile}} :
         player' = [player EXCEPT !.queue = queue, !.deferred = FALSE]
    /\ saved' = Saved(player')
    /\ UNCHANGED <<session, secrets, stored, backup, job, used, gone>> /\ Same(<<>>)

\* The program is left when nothing runs (sync_and_persist), or dies, and is
\* started again.
Stop(leave) ==
    /\ run < MaxRuns
    /\ IF leave THEN Idle /\ \A t \in Tasks : call[t].at \in {"idle", "done"}
       ELSE Open("crash")
    /\ CacheStops
    /\ run' = run + 1
    /\ saved' = IF leave THEN Saved(player) ELSE saved
    /\ session' = NoSession
    /\ player' = NoPlayer
    /\ job' = [a \in Actors |-> NoJob]
    /\ UNCHANGED <<windows, calls, secrets, stored, backup, used, gone>>

-----------------------------------------------------------------------------
ConnectStep(a) ==
    \/ LoadForConnect(a) \/ ConnectAccepted(a) \/ ConnectRefused(a) \/ SaveSecret(a)
    \/ Truncate(a) \/ Write(a) \/ SetSession(a) \/ Reset(a) \/ SetOwner(a) \/ JobFails(a)
BootstrapStep(a) ==
    \/ LoadForBootstrap(a) \/ BootstrapAnswered(a) \/ Restore(a) \/ PutQueue(a)
    \/ ImportSecrets(a)
JobStep(a) ==
    \/ ConnectStep(a) \/ BootstrapStep(a)
    \/ a = Main /\ (LoadForDelete \/ DeleteSecret)

\* Which of the free threads serves a call makes no difference.
FirstOf(free) == IF free = {} THEN {} ELSE {CHOOSE one \in free : TRUE}

Images_(A) == A /\ UNCHANGED <<windows, run, appVars>>
Task(t) == TaskStep(t) /\ UNCHANGED <<windows, run, calls, appVars>>
Remove == RemovalStep /\ UNCHANGED <<windows, run, calls, appVars>>

Next ==
    \/ /\ Idle \/ Open("removal")
       /\ \E t \in FirstOf({s \in Tasks : call[s].at = "idle"}), kind \in Kinds, i \in Images :
            Images_(Begin(t, kind, i))
    \/ \E t \in Tasks : Task(t)
    \/ At(Main, "idle") /\ Images_(ClearCoverArt)
    \/ Remove
    \/ \E i \in Images : Expire(i) /\ UNCHANGED <<windows, run, calls, appVars>>
    \/ \E a \in FirstOf({w \in Workers : At(w, "idle")}) : BeginConnect(a) \/ BeginBootstrap(a)
    \/ \E a \in Actors : JobStep(a)
    \/ BeginDelete \/ BeginImport \/ Export
    \/ Play
    \/ \E leave \in BOOLEAN : Stop(leave)

\* Installed, started or in use.
Init ==
    /\ windows \in {{}} \cup {{window} : window \in Windows}
    /\ run = 1 /\ calls = 0
    /\ CacheInit
    /\ backup \in Backups \cup {NoBackup}
    /\ job = [a \in Actors |-> NoJob]
    /\ gone = {}
    /\ LET p == FirstProfile
           before == Connected(NoProfiles, p, FirstAccount)
           playing == [profile |-> p, queue |-> {p}]
       IN \/ /\ stored = [torn |-> FALSE, file |-> NoProfiles]
             /\ secrets = NoProfiles.account
             /\ session = NoSession /\ player = NoPlayer /\ saved = NoSaved
             /\ used = Known(backup.file)
             /\ dir = [i \in Images |-> NoDirectory]
          \/ /\ stored = [torn |-> FALSE, file |-> before]
             /\ secrets = before.account
             /\ saved = playing
             /\ used = Known(backup.file) \cup {p}
             /\ \/ session = NoSession /\ player = NoPlayer
                \/ /\ session = [profile |-> p, account |-> FirstAccount]
                   /\ player = [profile |-> p, queue |-> {p}, deferred |-> FALSE]

\* The threads of the calls run, and servers answer or time out.
Fairness == \A t \in Tasks : WF_vars(Task(t))

Spec == Init /\ [][Next]_vars /\ Fairness

-----------------------------------------------------------------------------
(***************************************************************************)
(* Properties.                                                             *)
(***************************************************************************)
Closed(some) == windows \cap some = {}

\* Whatever profile is active between two commands can be restored at the next
\* start: the file is whole, says it was last active, and the credentials kept
\* for it are those of the account in the file and in the session
\* (connect_server_profile, bootstrap_app_state and what they save in turn).
SessionIsRestorable ==
    (session # NoSession /\ Idle /\ Closed({"overlap", "fault"})) =>
        /\ ~stored.torn /\ stored.file.last = session.profile
        /\ session.account = stored.file.account[session.profile]
        /\ session.account = secrets[session.profile]

\* A queue is never taken over by another profile, in the controller or in the
\* file it is saved to (reset_playback_state, set_active_profile_id,
\* restore_playback_state).
QueueOfProfile ==
    Closed({"overlap", "import"}) =>
        /\ player.profile # None => player.queue \subseteq {player.profile}
        /\ saved.profile # None => saved.queue \subseteq {saved.profile}

\* Of a deleted profile nothing comes back: no entry, no credentials, no session,
\* no image (delete_server_profile), until a backup brings it again.
DeletedIsGone ==
    Closed({"overlap", "removal"}) => \A p \in gone :
        /\ stored.file.account[p] = None /\ stored.file.last # p /\ secrets[p] = None
        /\ Idle => session.profile # p /\ player.profile # p
        /\ \A i \in Images : OwnerOf[i] = p => ~dir[i].exists
=============================================================================
