------------------------------ MODULE ImageCache ------------------------------
(***************************************************************************)
(* The caches of cover art and artist images (cover_art_cache.rs,          *)
(* artist_image_cache.rs) and the commands that use them.  An image has a  *)
(* directory with its file, a metadata file that names it and says how old *)
(* it is, and what a store that was cut short left behind.  Calls run in   *)
(* threads of their own and meet in the directory, one file operation at a *)
(* time, and in in_flight: the first call that must fetch an image leads,  *)
(* others wait for its result.                                             *)
(*                                                                         *)
(* Whose session it is and which credentials are stored is up to AppData.  *)
(***************************************************************************)
EXTENDS Integers, Sequences, FiniteSets

CONSTANTS None,
          Tasks,        \* threads that serve calls for images
          Profiles,
          Images,
          CoverArt,     \* images of CoverArtCache; the others are of ArtistImageCache
          OwnerOf,      \* the profile an image is stored for
          Larger,       \* the larger sizes that a caller accepts instead of an image
          Before,       \* what may be cached when a behaviour begins
          MaxRuns,      \* bound: starts of the program
          MaxCalls      \* bound: commands

ASSUME CacheAssumption ==
    /\ None \notin Tasks \cup Profiles \cup Images
    /\ CoverArt \subseteq Images
    /\ OwnerOf \in [Images -> Profiles] /\ Larger \in [Images -> Seq(CoverArt)]
    /\ \A i \in CoverArt : \A n \in 1 .. Len(Larger[i]) : OwnerOf[Larger[i][n]] = OwnerOf[i]
    /\ Before \subseteq [Images -> {"absent", "stale", "fresh"}]
    /\ MaxRuns \in Nat \ {0} /\ MaxCalls \in Nat

(***************************************************************************)
(* What may go wrong around the program; a behaviour opens one kind:       *)
(*   "panic"    a leader panics (decoding an image)                        *)
(*   "fault"    an operation on a file or the key ring fails               *)
(*   "crash"    the program dies in the middle of something                *)
(*   "removal"  a profile's images are removed while calls for some run    *)
(*   "overlap"  commands that read and write the profiles overlap          *)
(*   "import"   a backup is imported while a queue is loaded               *)
(***************************************************************************)
Windows == {"panic", "fault", "crash", "removal", "overlap", "import"}

VARIABLES
    windows,    \* the windows this behaviour opens
    run,        \* which start of the program it is; its process id
    calls,      \* history: commands begun
    session,    \* ActiveSessionState: profile and account
    secrets,    \* the key ring: the account a profile's credentials are for
    dir,        \* per image: its directory
    flight,     \* in_flight: per image, the task that leads
    call,       \* per task: the call it serves in this run
    removal     \* remove_profile, on the main thread

cacheVars == <<dir, flight, call, removal>>

NoFile == 0     \* also: nothing is cached
Error == -1
\* art.<version>.<ext>, or art.<ext> (1), which a store replaces (an image keeps
\* its type); then the
\* temporary files, one per process, which sort behind.
MaxVersion == MaxCalls + 1
Finals == 1 .. MaxVersion
TempFile(r) == MaxVersion + r
Names == 1 .. MaxVersion + MaxRuns

NoMeta == [name |-> NoFile, fresh |-> FALSE]
Meta == [name: Finals \cup {NoFile}, fresh: BOOLEAN]

\* version: that of the last store; cut and kept are histories: a store was cut
\* short and none has ended since; an image was stored and not removed.
Directory == [exists: BOOLEAN, meta: Meta, metaTemp: BOOLEAN,
              files: [Names -> {"none", "torn", "whole"}],
              version: 0 .. MaxVersion, cut: BOOLEAN, kept: BOOLEAN]

NoFiles == [n \in Names |-> "none"]
NoDirectory == [exists |-> FALSE, meta |-> NoMeta, metaTemp |-> FALSE,
                files |-> NoFiles, version |-> 0, cut |-> FALSE, kept |-> FALSE]
Cached(age) ==
    IF age = "absent" THEN NoDirectory
    ELSE [NoDirectory EXCEPT !.exists = TRUE, !.meta = [name |-> 1, fresh |-> age = "fresh"],
                             !.files[1] = "whole", !.version = 1, !.kept = TRUE]

Kinds == {"cover", "cached", "artist"}  \* get_cover_art, _cached, get_artist_image
Reading == {"meta", "file", "list"}
Storing == {"mkdir", "temp", "fill", "replace", "rename", "metaTemp", "metaReplace",
            "metaRename", "sweep"}
Leading == {"fetch", "leave"} \cup Storing
Running == Reading \cup Leading \cup {"client", "acquire", "wait"}

\* image: the one looked at, exact: the one asked for; todo: larger ones to look
\* at; only: no more than looking; meta: what was read; found: stale_path;
\* over: history, another call or a removal took or cut a file of the image since
\* this call, or the one it follows, read the directory.
Call == [kind: Kinds \cup {None}, at: {"idle", "done"} \cup Running,
         image: Images \cup {None}, exact: Images \cup {None}, todo: Seq(CoverArt),
         looking: BOOLEAN, meta: Meta, found: Names \cup {NoFile},
         follows: Tasks \cup {None}, over: BOOLEAN, result: Names \cup {NoFile, Error}]

NoCall == [kind |-> None, at |-> "idle", image |-> None, exact |-> None, todo |-> <<>>,
           looking |-> FALSE, meta |-> NoMeta, found |-> NoFile, follows |-> None,
           over |-> FALSE, result |-> NoFile]

\* What is left of a call that was answered; followers read the result.
Done(result) == [NoCall EXCEPT !.at = "done", !.result = result]

NoRemoval == [at |-> "idle", profile |-> None, todo |-> {}, deleting |-> FALSE]
Removal == [at: {"idle", "cover", "artist", "removed", "failed"},
            profile: Profiles \cup {None}, todo: SUBSET Images, deleting: BOOLEAN]

Open(window) == window \in windows
Present(i, name) == name # NoFile /\ dir[i].files[name] # "none"
PresentIn(i) == {n \in Names : dir[i].files[n] # "none"}
Removing(i) == removal.at \in {"cover", "artist"} /\ OwnerOf[i] = removal.profile

-----------------------------------------------------------------------------
\* get_cover_art and get_cover_art_cached look for a fresh image, also a larger
\* one; get_artist_image asks at once.  The image is one of the session's profile
\* (normalize_cover_art_request).
Begin(t, kind, i) ==
    /\ call[t].at = "idle" /\ calls < MaxCalls
    /\ session.profile = OwnerOf[i]
    /\ kind = "artist" <=> i \notin CoverArt
    /\ Open("removal") \/ ~Removing(i)
    /\ call' = [call EXCEPT ![t] =
                   [NoCall EXCEPT !.kind = kind, !.at = "meta", !.image = i, !.exact = i,
                                  !.looking = kind # "artist",
                                  !.todo = IF kind = "artist" THEN <<>> ELSE Larger[i]]]
    /\ calls' = calls + 1
    /\ UNCHANGED <<dir, flight, removal>>

\* What read_entry found, and what the caller does with it: a fresh image is
\* the answer; resolve_cached_cover_art goes on to the next size,
\* resolve_cover_art to in_flight.
Found(c, name, fresh) ==
    LET r == [c EXCEPT !.meta = NoMeta]
    IN CASE fresh -> Done(name)
         [] ~fresh /\ ~c.looking -> [r EXCEPT !.at = "acquire", !.found = name]
         [] ~fresh /\ c.looking /\ c.todo # <<>> ->
                [r EXCEPT !.at = "meta", !.image = Head(c.todo), !.todo = Tail(c.todo),
                          !.over = FALSE]
         [] OTHER ->
                IF c.kind = "cached" THEN Done(NoFile)
                ELSE [r EXCEPT !.at = "client", !.image = c.exact]

\* read_entry reads the metadata, ...
ReadMeta(t) ==
    /\ call[t].at = "meta"
    /\ LET meta == dir[call[t].image].meta
       IN call' = [call EXCEPT ![t].at = IF meta = NoMeta THEN "list" ELSE "file",
                               ![t].meta = meta]
    /\ UNCHANGED <<dir, flight, removal>>

\* ... looks for the file it names, ...
ReadFile(t) ==
    /\ call[t].at = "file"
    /\ LET c == call[t]
       IN call' = [call EXCEPT ![t] =
                      IF Present(c.image, c.meta.name)
                          THEN Found(c, c.meta.name, c.meta.fresh)
                          ELSE [c EXCEPT !.at = "list", !.meta = NoMeta]]
    /\ UNCHANGED <<dir, flight, removal>>

\* ... or takes the last one of the directory (fallback_entry_without_metadata),
\* be it a temporary file.  How those of two processes sort is left open.
Last(files) ==
    IF files = {} THEN {NoFile}
    ELSE IF files \subseteq Finals THEN {n \in files : \A m \in files : m <= n}
    ELSE files \ Finals

ReadDir(t) ==
    /\ call[t].at = "list"
    /\ \E name \in Last(PresentIn(call[t].image)) :
         call' = [call EXCEPT ![t] = Found(call[t], name, FALSE)]
    /\ UNCHANGED <<dir, flight, removal>>

\* build_client_from_session, with the session of the beginning.
BuildClient(t) ==
    /\ call[t].at = "client"
    /\ call' = [call EXCEPT ![t] =
                   IF secrets[OwnerOf[call[t].image]] = None
                       THEN Done(Error)
                       ELSE [@ EXCEPT !.at = "meta", !.looking = FALSE, !.over = FALSE]]
    /\ UNCHANGED <<dir, flight, removal>>

Acquire(t) ==
    /\ call[t].at = "acquire"
    /\ LET i == call[t].image
       IN IF flight[i] = None
            THEN /\ flight' = [flight EXCEPT ![i] = t]
                 /\ call' = [call EXCEPT ![t].at = "fetch"]
            ELSE /\ call' = [call EXCEPT ![t].at = "wait", ![t].follows = flight[i],
                                         ![t].over = call[flight[i]].over]
                 /\ UNCHANGED flight
    /\ UNCHANGED <<dir, removal>>

\* A follower wakes once its leader has completed the flight.
Completes(leader, i) == call[leader].at = "leave" \/ flight[i] # leader

Wait(t) ==
    /\ call[t].at = "wait"
    /\ Completes(call[t].follows, call[t].image)
    /\ call' = [call EXCEPT ![t] = Done(call[call[t].follows].result)]
    /\ UNCHANGED <<dir, flight, removal>>

-----------------------------------------------------------------------------
\* The leader.

\* Mutant: an error of the request returns before the flight is completed.
FetchFailsEarly(t) ==
    /\ call[t].at = "fetch"
    /\ call' = [call EXCEPT ![t] = Done(Error)]
    /\ UNCHANGED <<dir, flight, removal>>

\* Mutant: the directory is emptied before the new image is there.
MakeEmptyDir(t) ==
    /\ call[t].at = "mkdir"
    /\ LET i == call[t].image
       IN dir' = [dir EXCEPT ![i].exists = TRUE, ![i].files = NoFiles,
                             ![i].version = IF i \in CoverArt THEN @ + 1 ELSE 1]
    /\ call' = [call EXCEPT ![t].at = "temp"]
    /\ UNCHANGED <<flight, removal>>

\* Mutant: the sweep does not spare the new image.
StaleAll(t) == PresentIn(call[t].image)

\* Mutant: delete_server_profile leaves the images of artists.
EndRemovalOfCovers ==
    /\ removal.at \in {"cover", "artist"} /\ removal.todo = {}
    /\ removal' = IF ~removal.deleting THEN NoRemoval ELSE [removal EXCEPT !.at = "removed"]
    /\ UNCHANGED <<dir, flight, call>>

\* refresh_entry's result completes the flight.
Completed(t, result) ==
    [call EXCEPT ![t].at = "leave", ![t].result = result, ![t].found = NoFile]

\* The calls that read the image of t, or hold what they read of it, and do not
\* wait for t: a file is taken, or cut short, from under them.
Overtaken(c, i, by) ==
    [s \in Tasks |->
        IF /\ s # by /\ c[s].at \in Running /\ c[s].image = i
           /\ by = None \/ c[s].follows # by
            THEN [c[s] EXCEPT !.over = TRUE] ELSE c[s]]

Fetched(t) ==
    /\ call[t].at = "fetch"
    /\ call' = [call EXCEPT ![t].at = "mkdir", ![t].found = NoFile]
    /\ UNCHANGED <<dir, flight, removal>>

\* The fetch fails: what was found stale is served, if it is still there.
FetchFails(t) ==
    /\ call[t].at = "fetch"
    /\ LET stale == call[t].found
       IN call' = Completed(t, IF Present(call[t].image, stale) THEN stale ELSE Error)
    /\ UNCHANGED <<dir, flight, removal>>

\* A panic (of a decoder, in maybe_transcode_to_jpeg) ends the call with an error
\* and leaves the flight running.
Panic(t) ==
    /\ call[t].at = "temp" /\ call[t].image \in CoverArt /\ Open("panic")
    /\ call' = [call EXCEPT ![t] = Done(Error)]
    /\ UNCHANGED <<dir, flight, removal>>

\* The type of what was fetched names no extension.
Unsupported(t) ==
    /\ call[t].at = "temp"
    /\ call' = Completed(t, Error)
    /\ UNCHANGED <<dir, flight, removal>>

Temp == TempFile(run)
\* The name of the file that t stores.
Final(i) == dir[i].version

\* store_entry: the directory, and the name of the new file (bounded by MaxVersion).
MakeDir(t) ==
    /\ call[t].at = "mkdir"
    /\ LET i == call[t].image
       IN /\ i \in CoverArt => dir[i].version < MaxVersion
          /\ dir' = [dir EXCEPT ![i].exists = TRUE,
                                ![i].version = IF i \in CoverArt THEN @ + 1 ELSE 1]
    /\ call' = [call EXCEPT ![t].at = "temp"]
    /\ UNCHANGED <<flight, removal>>

\* fs::write creates or truncates the temporary file, and then fills it.  It
\* fails if the directory was removed meanwhile.
WriteTemp(t) ==
    /\ call[t].at = "temp"
    /\ LET i == call[t].image
       IN IF dir[i].exists
            THEN /\ dir' = [dir EXCEPT ![i].files[Temp] = "torn"]
                 /\ call' = [IF Present(i, Temp) THEN Overtaken(call, i, t) ELSE call
                               EXCEPT ![t].at = "fill"]
            ELSE /\ call' = Completed(t, Error)
                 /\ UNCHANGED dir
    /\ UNCHANGED <<flight, removal>>

FillTemp(t) ==
    /\ call[t].at = "fill"
    /\ LET i == call[t].image
       IN dir' = [dir EXCEPT ![i].files[Temp] = IF @ = "torn" THEN "whole" ELSE @]
    /\ call' = [call EXCEPT ![t].at = "replace"]
    /\ UNCHANGED <<flight, removal>>

\* replace_file removes what has the name already, which an image of a version
\* of its own never finds.
Replace(t) ==
    /\ call[t].at = "replace"
    /\ LET i == call[t].image
       IN /\ dir' = [dir EXCEPT ![i].files[Final(i)] = "none"]
          /\ call' = [IF Present(i, Final(i)) THEN Overtaken(call, i, t) ELSE call
                        EXCEPT ![t].at = "rename"]
    /\ UNCHANGED <<flight, removal>>

Rename(t) ==
    /\ call[t].at = "rename"
    /\ LET i == call[t].image
       IN IF Present(i, Temp)
            THEN /\ dir' = [dir EXCEPT ![i].files[Temp] = "none",
                                       ![i].files[Final(i)] = dir[i].files[Temp],
                                       ![i].kept = TRUE]
                 /\ call' = [Overtaken(call, i, t) EXCEPT ![t].at = "metaTemp"]
            ELSE /\ call' = Completed(t, Error)
                 /\ UNCHANGED dir
    /\ UNCHANGED <<flight, removal>>

\* The metadata is written and moved in the same way.
WriteMeta(t) ==
    /\ call[t].at = "metaTemp"
    /\ LET i == call[t].image
       IN IF dir[i].exists
            THEN /\ dir' = [dir EXCEPT ![i].metaTemp = TRUE]
                 /\ call' = [call EXCEPT ![t].at = "metaReplace"]
            ELSE /\ call' = Completed(t, Error)
                 /\ UNCHANGED dir
    /\ UNCHANGED <<flight, removal>>

ReplaceMeta(t) ==
    /\ call[t].at = "metaReplace"
    /\ dir' = [dir EXCEPT ![call[t].image].meta = NoMeta]
    /\ call' = [call EXCEPT ![t].at = "metaRename"]
    /\ UNCHANGED <<flight, removal>>

RenameMeta(t) ==
    /\ call[t].at = "metaRename"
    /\ LET i == call[t].image
       IN IF dir[i].metaTemp
            THEN /\ dir' = [dir EXCEPT ![i].metaTemp = FALSE,
                                       ![i].meta = [name |-> Final(i), fresh |-> TRUE]]
                 /\ call' = [call EXCEPT ![t].at = "sweep"]
            ELSE /\ call' = Completed(t, Error)
                 /\ UNCHANGED dir
    /\ UNCHANGED <<flight, removal>>

\* remove_stale_artifacts removes every other image, one after the other.
Stale(t) == PresentIn(call[t].image) \ {Final(call[t].image)}

Sweep(t) ==
    /\ call[t].at = "sweep"
    /\ LET i == call[t].image
       IN IF Stale(t) = {}
            THEN /\ call' = Completed(t, Final(i))
                 /\ dir' = [dir EXCEPT ![i].cut = FALSE]
            ELSE \E n \in Stale(t) :
                   /\ dir' = [dir EXCEPT ![i].files[n] = "none"]
                   /\ call' = Overtaken(call, i, t)
    /\ UNCHANGED <<flight, removal>>

\* A file operation fails and with it the store; stale images are not served
\* then.  A write leaves what it wrote so far; a rename of art.<ext> fails when
\* the old image is gone already.
StoreFails(t) ==
    /\ call[t].at \in Storing /\ Open("fault")
    /\ LET i == call[t].image
       IN dir' = [dir EXCEPT ![i].cut = @ \/ call[t].at = "fill",
                             ![i].kept = @ /\ (i \in CoverArt \/ call[t].at # "rename")]
    /\ call' = Completed(t, Error)
    /\ UNCHANGED <<flight, removal>>

\* The flight is taken out of the table after it was completed.
Leave(t) ==
    /\ call[t].at = "leave"
    /\ flight' = [flight EXCEPT ![call[t].image] = None]
    /\ call' = [call EXCEPT ![t] = Done(@.result)]
    /\ UNCHANGED <<dir, removal>>

-----------------------------------------------------------------------------
\* remove_profile, entry by entry.

InCache(cache) == IF cache = "cover" THEN CoverArt ELSE Images \ CoverArt
ImagesOf(profile, cache) ==
    {i \in InCache(cache) : OwnerOf[i] = profile /\ dir[i].exists}

BeginRemoval(profile, deleting) ==
    /\ removal.at = "idle" /\ calls < MaxCalls
    /\ Open("removal") \/ \A t \in Tasks : call[t].at \in {"idle", "done"}
    /\ removal' = [at |-> "cover", profile |-> profile,
                   todo |-> ImagesOf(profile, "cover"), deleting |-> deleting]
    /\ calls' = calls + 1
    /\ UNCHANGED <<dir, flight, call>>

\* clear_cover_art_cache
ClearCoverArt == session.profile # None /\ BeginRemoval(session.profile, FALSE)

\* remove_dir_all: files of a directory, then the directory.
Unlink(i) ==
    /\ removal.at \in {"cover", "artist"} /\ i \in removal.todo
    /\ \/ \E n \in PresentIn(i) :
            /\ dir' = [dir EXCEPT ![i].files[n] = "none", ![i].kept = FALSE]
            /\ call' = Overtaken(call, i, None)
       \/ /\ dir[i].meta # NoMeta
          /\ dir' = [dir EXCEPT ![i].meta = NoMeta, ![i].kept = FALSE]
          /\ UNCHANGED call
       \/ /\ dir[i].metaTemp
          /\ dir' = [dir EXCEPT ![i].metaTemp = FALSE, ![i].kept = FALSE]
          /\ UNCHANGED call
    /\ UNCHANGED <<flight, removal>>

IsEmpty(i) == PresentIn(i) = {} /\ dir[i].meta = NoMeta /\ ~dir[i].metaTemp

RemoveDir(i) ==
    /\ removal.at \in {"cover", "artist"} /\ i \in removal.todo
    /\ IsEmpty(i)
    /\ dir' = [dir EXCEPT ![i].exists = FALSE, ![i].cut = FALSE]
    /\ removal' = [removal EXCEPT !.todo = @ \ {i}]
    /\ UNCHANGED <<flight, call>>

\* The directory of the profile goes last, unless a leader has put something
\* into it again.  delete_server_profile has both caches removed.
EndRemoval ==
    /\ removal.at \in {"cover", "artist"} /\ removal.todo = {}
    /\ removal' =
         IF ~removal.deleting THEN NoRemoval
         ELSE IF ImagesOf(removal.profile, removal.at) # {} THEN [removal EXCEPT !.at = "failed"]
         ELSE IF removal.at = "artist" THEN [removal EXCEPT !.at = "removed"]
         ELSE [removal EXCEPT !.at = "artist", !.todo = ImagesOf(removal.profile, "artist")]
    /\ UNCHANGED <<dir, flight, call>>

\* A directory is not empty when it is to go.
RemovalFails(i) ==
    /\ removal.at \in {"cover", "artist"} /\ i \in removal.todo
    /\ ~IsEmpty(i) /\ (flight[i] # None \/ Open("fault"))
    /\ removal' = IF removal.deleting THEN [removal EXCEPT !.at = "failed", !.todo = {}]
                  ELSE NoRemoval
    /\ UNCHANGED <<dir, flight, call>>

\* A week goes by.
Expire(i) ==
    /\ dir[i].meta.fresh
    /\ dir' = [dir EXCEPT ![i].meta.fresh = FALSE]
    /\ UNCHANGED <<flight, call, removal>>

-----------------------------------------------------------------------------
\* What a task does by itself, and what it answers.
Read(t) == ReadMeta(t) \/ ReadFile(t) \/ ReadDir(t)
Store(t) ==
    \/ MakeDir(t) \/ WriteTemp(t) \/ FillTemp(t) \/ Replace(t) \/ Rename(t)
    \/ WriteMeta(t) \/ ReplaceMeta(t) \/ RenameMeta(t) \/ Sweep(t) \/ StoreFails(t)
TaskStep(t) ==
    \/ Read(t) \/ BuildClient(t) \/ Acquire(t) \/ Wait(t)
    \/ Fetched(t) \/ FetchFails(t) \/ Panic(t) \/ Unsupported(t)
    \/ Store(t) \/ Leave(t)
RemovalStep ==
    \/ EndRemoval
    \/ \E i \in Images : Unlink(i) \/ RemoveDir(i) \/ RemovalFails(i)

-----------------------------------------------------------------------------
(***************************************************************************)
(* Properties.                                                             *)
(***************************************************************************)

\* A call is answered with an image that is whole, or one that another store or a
\* removal has taken away since it was seen; a torn one is served only where a
\* store was cut short and no image could be fetched since (the fallback of
\* read_entry takes temporary files, and refresh_entry serves what it found), or
\* where another store writes anew the temporary file that was found.
ServedIsWhole ==
    [][\A t \in Tasks :
         (call[t].at \in Running /\ call'[t].at = "done" /\ call'[t].result \in Names) =>
           LET d == dir[call[t].image]
           IN \/ d.files[call'[t].result] = "whole"
              \/ d.files[call'[t].result] = "none" /\ call[t].over
              \/ d.files[call'[t].result] = "torn" /\ d.cut
              \/ /\ d.files[call'[t].result] = "torn" /\ call'[t].result \notin Finals
                 /\ call[t].over]_call

\* An image once stored is in its directory in full, under some name that a
\* reader finds, until it is removed: through stores that replace it, fail half
\* way or die with the program (store_entry, replace_file, remove_stale_artifacts).
ImageSurvives == \A i \in Images : dir[i].kept => \E n \in Names : dir[i].files[n] = "whole"

\* Every call for an image is answered, whoever leads: flights are completed and
\* taken out of the table (resolve_cover_art), unless a leader panics.
CallsEnd ==
    \A t \in Tasks : (call[t].at \in Running /\ ~Open("panic")) ~> call[t].at \notin Running

-----------------------------------------------------------------------------
\* The program dies or is left: files stay, torn ones too.
CacheStops ==
    /\ dir' = [i \in Images |->
                 [dir[i] EXCEPT !.cut = @ \/ \E t \in Tasks : /\ call[t].image = i
                                                              /\ call[t].at = "fill"]]
    /\ flight' = [i \in Images |-> None]
    /\ call' = [t \in Tasks |-> NoCall]
    /\ removal' = NoRemoval

CacheInit ==
    /\ \E before \in Before : dir = [i \in Images |-> Cached(before[i])]
    /\ flight = [i \in Images |-> None]
    /\ call = [t \in Tasks |-> NoCall]
    /\ removal = NoRemoval
=============================================================================
