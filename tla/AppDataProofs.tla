----------------------------- MODULE AppDataProofs -----------------------------
(***************************************************************************)
(* Proofs about AppData, for any tasks, profiles and images and any number *)
(* of calls and starts of the program: at most one task stores an image,   *)
(* and an image that was stored is not lost; a queue stays with its        *)
(* profile, the active profile can be restored at the next start, of a     *)
(* deleted profile nothing comes back, and a call is answered with an      *)
(* image that is whole.                                                    *)
(***************************************************************************)
EXTENDS AppData, TLAPS

-----------------------------------------------------------------------------
\* The inductive invariant.

CacheTypes ==
    /\ run \in 1 .. MaxRuns
    /\ dir \in [Images -> Directory]
    /\ flight \in [Images -> Tasks \cup {None}]
    /\ call \in [Tasks -> Call]

\* A task that leads is the one in_flight has for its image.
Leads ==
    \A t \in Tasks :
        /\ call[t].at \in Running => call[t].image \in Images /\ call[t].exact \in Images
        /\ call[t].at \in Leading => flight[call[t].image] = t
        /\ call[t].at = "wait" => call[t].follows \in Tasks

\* How far the store of t has come, and what it finds in the directory then:
\* what it wrote, unless a removal took it (and kept with it).
Phase(t, i) ==
    LET d == dir[i]
        at == call[t].at
    IN /\ at = "fill" =>
            d.files[Temp] \in {"torn", "none"} /\ (d.kept => d.files[Temp] = "torn")
       /\ at \in {"replace", "rename"} =>
            d.files[Temp] \in {"whole", "none"} /\ (d.kept => d.files[Temp] = "whole")
       /\ at \in {"metaTemp", "metaReplace", "metaRename", "sweep"} =>
            (d.kept => d.files[Final(i)] = "whole")
       /\ at \in Storing \ {"mkdir"} => Final(i) \in Finals
       /\ at \in {"temp", "fill", "replace", "rename"} /\ i \in CoverArt =>
            d.files[Final(i)] = "none"

\* A kept image is whole under a name that the next store does not begin by
\* truncating, except where an artist's image is about to be renamed.
StoredAt(i) ==
    LET d == dir[i]
    IN /\ \A r \in 1 .. MaxRuns : r > run => d.files[TempFile(r)] = "none"
       /\ i \in CoverArt => \A n \in Finals : n > d.version => d.files[n] = "none"
       /\ d.kept =>
            \/ \E n \in Names \ {Temp} : d.files[n] = "whole"
            \/ /\ i \notin CoverArt
               /\ \E t \in Tasks : call[t].at = "rename" /\ call[t].image = i
       /\ \A t \in Tasks : call[t].image = i => Phase(t, i)

Stored == \A i \in Images : StoredAt(i)

CacheInv == CacheTypes /\ Leads /\ Stored

-----------------------------------------------------------------------------
\* What the steps are made of.

LEMMA NameFacts ==
    /\ Finals \subseteq Names /\ 1 \in Finals /\ MaxVersion \in Nat
    /\ \A r \in 1 .. MaxRuns : TempFile(r) \in Names \ Finals
    /\ \A r, s \in 1 .. MaxRuns : TempFile(r) = TempFile(s) => r = s
  BY CacheAssumption DEF Finals, Names, TempFile, MaxVersion

LEMMA NothingTypes ==
    /\ NoMeta \in Meta
    /\ NoCall \in Call
    /\ \A result \in Names \cup {NoFile, Error} : Done(result) \in Call
  <1>1. NoMeta \in Meta
    BY DEF NoMeta, Meta
  <1>0. <<>> \in Seq(CoverArt)
    OBVIOUS
  <1>2. NoCall \in Call
    BY <1>0, <1>1 DEF NoCall, Call
  <1>3. ASSUME NEW result \in Names \cup {NoFile, Error} PROVE Done(result) \in Call
    BY <1>0, <1>1 DEF NoCall, Call, Done
  <1> QED BY <1>1, <1>2, <1>3

LEMMA DirectoryTypes ==
    NoDirectory \in Directory /\ \A age : Cached(age) \in Directory
  <1>1. NoFiles \in [Names -> {"none", "torn", "whole"}]
    BY DEF NoFiles
  <1>2. NoDirectory \in Directory
    BY <1>1, NothingTypes, NameFacts DEF NoDirectory, Directory
  <1>3. ASSUME NEW age PROVE Cached(age) \in Directory
    <2>1. CASE age = "absent"
      BY <1>2, <2>1 DEF Cached
    <2>2. CASE age # "absent"
      <3>1. [name |-> 1, fresh |-> age = "fresh"] \in Meta
        BY NameFacts DEF Meta
      <3>2. [NoFiles EXCEPT ![1] = "whole"] \in [Names -> {"none", "torn", "whole"}]
        BY <1>1
      <3>3. Cached(age) = [exists |-> TRUE, meta |-> [name |-> 1, fresh |-> age = "fresh"],
                           metaTemp |-> FALSE, files |-> [NoFiles EXCEPT ![1] = "whole"],
                           version |-> 1, cut |-> FALSE, kept |-> TRUE]
        BY <2>2 DEF Cached, NoDirectory
      <3>4. 1 \in 0 .. MaxVersion
        BY NameFacts DEF Finals
      <3> QED BY <3>1, <3>2, <3>3, <3>4 DEF Directory
    <2> QED BY <2>1, <2>2
  <1> QED BY <1>2, <1>3

\* A step of others changes nothing of a call but its mark.
LEMMA OvertakenTypes ==
    ASSUME NEW c \in [Tasks -> Call], NEW i, NEW by
    PROVE  /\ Overtaken(c, i, by) \in [Tasks -> Call]
           /\ \A s \in Tasks : /\ Overtaken(c, i, by)[s].at = c[s].at
                               /\ Overtaken(c, i, by)[s].image = c[s].image
                               /\ Overtaken(c, i, by)[s].exact = c[s].exact
                               /\ Overtaken(c, i, by)[s].follows = c[s].follows
  <1>1. ASSUME NEW s \in Tasks
        PROVE  /\ [c[s] EXCEPT !.over = TRUE] \in Call
               /\ [c[s] EXCEPT !.over = TRUE].at = c[s].at
               /\ [c[s] EXCEPT !.over = TRUE].image = c[s].image
               /\ [c[s] EXCEPT !.over = TRUE].exact = c[s].exact
               /\ [c[s] EXCEPT !.over = TRUE].follows = c[s].follows
    BY DEF Call
  <1> QED BY <1>1 DEF Overtaken

-----------------------------------------------------------------------------
\* Steps that store nothing.

LEMMA StoredUnchanged ==
    ASSUME CacheInv, NEW t \in Tasks, dir' = dir, run' = run,
           call[t].at # "rename", call'[t].at \notin Storing \ {"mkdir"},
           \A s \in Tasks \ {t} : call'[s].at = call[s].at /\ call'[s].image = call[s].image
    PROVE  Stored'
  <1> SUFFICES ASSUME NEW i \in Images PROVE StoredAt(i)'
    BY DEF Stored
  <1>1. ASSUME NEW s \in Tasks, call'[s].image = i PROVE Phase(s, i)'
    <2>1. CASE s = t
      BY <2>1 DEF Phase, Storing
    <2>2. CASE s # t
      BY <1>1, <2>2 DEF CacheInv, Stored, StoredAt, Phase, Temp, Final
    <2> QED BY <2>1, <2>2
  <1>2. ASSUME NEW s \in Tasks, call[s].at = "rename", call[s].image = i
        PROVE  call'[s].at = "rename" /\ call'[s].image = i
    BY <1>2 DEF Storing
  <1> QED BY <1>1, <1>2 DEF CacheInv, Stored, StoredAt, Temp

LEMMA FoundTypes ==
    ASSUME NEW c \in Call, NEW name \in Names \cup {NoFile}, NEW fresh \in BOOLEAN,
           c.image \in Images, c.exact \in Images
    PROVE  /\ Found(c, name, fresh) \in Call
           /\ Found(c, name, fresh).at \in {"done", "acquire", "meta", "client"}
           /\ Found(c, name, fresh).at # "done" =>
                 Found(c, name, fresh).image \in Images /\ Found(c, name, fresh).exact \in Images
  <1> DEFINE r == [c EXCEPT !.meta = NoMeta]
  <1>1. r \in Call /\ r.image = c.image /\ r.exact = c.exact /\ r.looking = c.looking
    BY NothingTypes DEF Call
  <1>2. Done(name) \in Call /\ Done(NoFile) \in Call
    BY NothingTypes
  <1>3. Done(name).at = "done" /\ Done(NoFile).at = "done"
    BY DEF Done, NoCall
  <1>4. CASE fresh
    BY <1>2, <1>3, <1>4 DEF Found
  <1>5. CASE ~fresh /\ ~c.looking
    <2>1. Found(c, name, fresh) = [r EXCEPT !.at = "acquire", !.found = name]
      BY <1>1, <1>5 DEF Found
    <2> HIDE DEF r
    <2>2. "acquire" \in {"idle", "done"} \cup Running
      BY DEF Running
    <2> QED BY <1>1, <2>1, <2>2 DEF Call
  <1>6. CASE ~fresh /\ c.looking /\ c.todo # <<>>
    <2>1. Found(c, name, fresh) =
            [r EXCEPT !.at = "meta", !.image = Head(c.todo), !.todo = Tail(c.todo), !.over = FALSE]
      BY <1>1, <1>6 DEF Found
    <2>2. Head(c.todo) \in CoverArt /\ Tail(c.todo) \in Seq(CoverArt)
      BY <1>6 DEF Call
    <2>3. Head(c.todo) \in Images
      BY <2>2, CacheAssumption
    <2> HIDE DEF r
    <2>4. "meta" \in {"idle", "done"} \cup Running
      BY DEF Running, Reading
    <2> QED BY <1>1, <2>1, <2>2, <2>3, <2>4 DEF Call
  <1>7. CASE ~fresh /\ c.looking /\ c.todo = <<>>
    <2>1. Found(c, name, fresh) = IF c.kind = "cached" THEN Done(NoFile)
                                  ELSE [r EXCEPT !.at = "client", !.image = c.exact]
      BY <1>1, <1>7 DEF Found
    <2> HIDE DEF r
    <2>2. "client" \in {"idle", "done"} \cup Running
      BY DEF Running
    <2>3. CASE c.kind = "cached"
      BY <1>2, <1>3, <2>1, <2>3
    <2>4. CASE c.kind # "cached"
      <3>1. Found(c, name, fresh) = [r EXCEPT !.at = "client", !.image = c.exact]
        BY <2>1, <2>4
      <3> QED BY <1>1, <2>2, <3>1 DEF Call
    <2> QED BY <2>3, <2>4
  <1> QED BY <1>4, <1>5, <1>6, <1>7

\* A step of t that leaves the directories alone.
LEMMA CallStep ==
    ASSUME CacheInv, NEW t \in Tasks, NEW c \in Call, dir' = dir, run' = run,
           call' = [call EXCEPT ![t] = c],
           call[t].at # "rename", c.at \notin Storing \ {"mkdir"},
           c.at \in Running => c.image \in Images /\ c.exact \in Images,
           flight' \in [Images -> Tasks \cup {None}],
           c.at \in Leading => flight'[c.image] = t, c.at = "wait" => c.follows \in Tasks,
           \A s \in Tasks \ {t} : call[s].at \in Leading => flight'[call[s].image] = s
    PROVE  CacheInv'
  <1>1. CacheTypes'
    BY DEF CacheInv, CacheTypes
  <1>2. call'[t] = c /\ \A s \in Tasks \ {t} : call'[s] = call[s]
    BY DEF CacheInv, CacheTypes
  <1>3. Leads'
    BY <1>2 DEF CacheInv, Leads
  <1>4. Stored'
    BY <1>2, StoredUnchanged
  <1> QED BY <1>1, <1>3, <1>4 DEF CacheInv

LEMMA BeginStep ==
    ASSUME CacheInv, run' = run,
           NEW t \in Tasks, NEW kind \in Kinds, NEW i \in Images, Begin(t, kind, i)
    PROVE  CacheInv'
  <1> DEFINE todo == IF kind = "artist" THEN <<>> ELSE Larger[i]
             c == [NoCall EXCEPT !.kind = kind, !.at = "meta", !.image = i, !.exact = i,
                                 !.looking = kind # "artist", !.todo = todo]
  <1>1. todo \in Seq(CoverArt)
    BY CacheAssumption
  <1>2. "meta" \in Running /\ "meta" \notin Leading
    BY DEF Running, Reading, Leading, Storing
  <1>3. call' = [call EXCEPT ![t] = c] /\ call[t].at = "idle"
    BY DEF Begin
  <1> HIDE DEF todo
  <1>4. c \in Call /\ c.at = "meta" /\ c.image = i /\ c.exact = i
    <2>1. "meta" \in {"idle", "done"} \cup Running
      BY <1>2
    <2> DEFINE looks == kind # "artist"
    <2>2. looks \in BOOLEAN
      OBVIOUS
    <2>3. c = [NoCall EXCEPT !.kind = kind, !.at = "meta", !.image = i, !.exact = i,
                             !.looking = looks, !.todo = todo]
      OBVIOUS
    <2> HIDE DEF looks, c
    <2> QED BY <1>1, <2>1, <2>2, <2>3, NothingTypes DEF Call
  <1> HIDE DEF c
  <1>5. flight' = flight /\ dir' = dir
    BY DEF Begin
  <1>6. call[t].at # "rename" /\ c.at # "wait" /\ c.at \notin Storing /\ c.at \notin Leading
    BY <1>2, <1>3, <1>4 DEF Leading, Storing
  <1>7. /\ flight' \in [Images -> Tasks \cup {None}]
        /\ \A s \in Tasks : call[s].at \in Leading => flight'[call[s].image] = s
    BY <1>5 DEF CacheInv, CacheTypes, Leads
  <1> QED BY <1>3, <1>4, <1>5, <1>6, <1>7, CallStep

LEMMA ReadStep ==
    ASSUME CacheInv, run' = run, NEW t \in Tasks, Read(t)
    PROVE  CacheInv'
  <1> DEFINE i == call[t].image
             d == dir[i]
  <1>1. call[t].at \in Reading /\ flight' = flight /\ dir' = dir
    BY DEF Read, ReadMeta, ReadFile, ReadDir, Reading
  <1>2. i \in Images /\ call[t].exact \in Images /\ call[t] \in Call /\ d \in Directory
    BY <1>1 DEF CacheInv, CacheTypes, Leads, Running
  <1>3. Reading \subseteq Running /\ Reading \cap Leading = {} /\ Storing \subseteq Leading
    BY DEF Reading, Running, Leading, Storing
  <1>4. ASSUME NEW c \in Call, c.at \in Reading \cup {"done", "acquire", "client"},
               c.at # "done" => c.image \in Images /\ c.exact \in Images,
               call' = [call EXCEPT ![t] = c]
        PROVE  CacheInv'
    <2>1. c.at \notin Leading
      BY <1>4 DEF Reading, Leading, Storing
    <2>2. "done" \notin Running
      BY DEF Running, Reading, Leading, Storing
    <2>3. call[t].at # "rename" /\ c.at # "wait" /\ c.at \notin Storing
      BY <1>1, <1>3, <1>4, <2>1 DEF Reading
    <2>4. /\ flight' \in [Images -> Tasks \cup {None}]
          /\ \A s \in Tasks : call[s].at \in Leading => flight'[call[s].image] = s
      BY <1>1 DEF CacheInv, CacheTypes, Leads
    <2> QED BY <1>1, <1>4, <2>1, <2>2, <2>3, <2>4, CallStep
  <1> HIDE DEF i, d
  <1>5. CASE ReadMeta(t)
    <2>1. d.meta \in Meta
      BY <1>2 DEF Directory
    <2> DEFINE c == [call[t] EXCEPT !.at = IF d.meta = NoMeta THEN "list" ELSE "file",
                                    !.meta = d.meta]
    <2>2. call' = [call EXCEPT ![t] = c]
      BY <1>5 DEF ReadMeta, i, d
    <2>3. c.at \in Reading /\ c.image = i /\ c.exact = call[t].exact
      BY <1>2 DEF Call, Reading, i
    <2>4. c \in Call
      <3>1. IF d.meta = NoMeta THEN "list" \in Running ELSE "file" \in Running
        BY DEF Reading, Running
      <3> QED BY <1>2, <2>1, <3>1 DEF Call
    <2> HIDE DEF c
    <2> QED BY <1>2, <1>4, <2>2, <2>3, <2>4
  <1>6. CASE ReadFile(t)
    <2> DEFINE c == [call[t] EXCEPT !.at = "list", !.meta = NoMeta]
               f == Found(call[t], call[t].meta.name, call[t].meta.fresh)
    <2>1. call' = [call EXCEPT ![t] = IF Present(i, call[t].meta.name) THEN f ELSE c]
      BY <1>6 DEF ReadFile, i
    <2>2. c \in Call /\ c.at \in Reading /\ c.image = i /\ c.exact = call[t].exact
      BY <1>2, NothingTypes DEF Call, Reading, Running, i
    <2>3. call[t].meta.name \in Names \cup {NoFile} /\ call[t].meta.fresh \in BOOLEAN
      BY <1>2, NameFacts DEF Call, Meta
    <2>4. /\ f \in Call /\ f.at \in {"done", "acquire", "meta", "client"}
          /\ f.at # "done" => f.image \in Images /\ f.exact \in Images
      BY <1>2, <2>3, FoundTypes DEF i
    <2> HIDE DEF c, f
    <2>5. CASE Present(i, call[t].meta.name)
      BY <1>4, <2>1, <2>4, <2>5 DEF Reading
    <2>6. CASE ~Present(i, call[t].meta.name)
      BY <1>2, <1>4, <2>1, <2>2, <2>6
    <2> QED BY <2>5, <2>6
  <1>7. CASE ReadDir(t)
    <2>1. PICK name \in Last(PresentIn(i)) : call' = [call EXCEPT ![t] = Found(call[t], name, FALSE)]
      BY <1>7 DEF ReadDir, i
    <2>2. name \in Names \cup {NoFile}
      BY <2>1 DEF Last, PresentIn
    <2> DEFINE f == Found(call[t], name, FALSE)
    <2>3. /\ f \in Call /\ f.at \in {"done", "acquire", "meta", "client"}
          /\ f.at # "done" => f.image \in Images /\ f.exact \in Images
      BY <1>2, <2>2, FoundTypes DEF i
    <2> HIDE DEF f
    <2>4. call' = [call EXCEPT ![t] = f]
      BY <2>1 DEF f
    <2> QED BY <1>4, <2>3, <2>4 DEF Reading
  <1> QED BY <1>5, <1>6, <1>7 DEF Read

LEMMA SteppedTypes ==
    ASSUME NEW c \in Call, NEW at \in {"idle", "done"} \cup Running
    PROVE  /\ [c EXCEPT !.at = at] \in Call
           /\ [c EXCEPT !.at = at].at = at
           /\ [c EXCEPT !.at = at].image = c.image
           /\ [c EXCEPT !.at = at].exact = c.exact
  BY DEF Call

\* A call that leads or was answered, its image as before.
CompletedCall(c, result) == [c EXCEPT !.at = "leave", !.result = result, !.found = NoFile]

LEMMA CompletedTypes ==
    ASSUME NEW c \in Call, NEW result \in Names \cup {NoFile, Error}
    PROVE  /\ CompletedCall(c, result) \in Call
           /\ CompletedCall(c, result).at = "leave"
           /\ CompletedCall(c, result).image = c.image
           /\ CompletedCall(c, result).exact = c.exact
  <1>1. "leave" \in {"idle", "done"} \cup Running
    BY DEF Running, Leading
  <1> DEFINE d == CompletedCall(c, result)
  <1>2. d \in Call
    BY <1>1 DEF Call, CompletedCall
  <1>3. d.at = "leave"
    BY DEF Call, CompletedCall
  <1>4. d.image = c.image /\ d.exact = c.exact
    BY DEF Call, CompletedCall
  <1> HIDE DEF d
  <1> QED BY <1>2, <1>3, <1>4 DEF d

\* The leader of an image is one.
LEMMA OneLeader ==
    ASSUME CacheInv, NEW t \in Tasks, call[t].at \in Leading
    PROVE  /\ call[t].image \in Images /\ call[t].exact \in Images /\ call[t] \in Call
           /\ flight[call[t].image] = t
           /\ \A s \in Tasks \ {t} : call[s].at \in Leading => call[s].image # call[t].image
  BY DEF CacheInv, CacheTypes, Leads, Running

\* A leader goes on, or ends in a panic, and leaves its directory alone.
LEMMA LeaderCallStep ==
    ASSUME CacheInv, NEW t \in Tasks, call[t].at \in Leading, call[t].at # "rename",
           NEW c \in Call, dir' = dir, run' = run, flight' = flight,
           call' = [call EXCEPT ![t] = c],
           c.at \in {"mkdir", "leave", "done"},
           c.at # "done" => c.image = call[t].image /\ c.exact = call[t].exact
    PROVE  CacheInv'
  <1>1. c.at \notin Storing \ {"mkdir"} /\ "done" \notin Running /\ "done" \notin Leading
    BY DEF Storing, Running, Leading, Reading
  <1>2. /\ call[t].image \in Images /\ call[t].exact \in Images
        /\ flight[call[t].image] = t
        /\ \A s \in Tasks \ {t} : call[s].at \in Leading => flight[call[s].image] = s
    BY OneLeader DEF CacheInv, Leads
  <1>3. flight' \in [Images -> Tasks \cup {None}]
    BY DEF CacheInv, CacheTypes
  <1>4. c.at # "wait"
    OBVIOUS
  <1>5. c.at \in Running => c.image \in Images /\ c.exact \in Images
    BY <1>1, <1>2
  <1>6. c.at \in Leading => flight'[c.image] = t
    BY <1>1, <1>2
  <1> QED BY <1>1, <1>2, <1>3, <1>4, <1>5, <1>6, CallStep

LEMMA AnswerStep ==
    ASSUME CacheInv, run' = run, NEW t \in Tasks,
           BuildClient(t) \/ Acquire(t) \/ Wait(t) \/ Fetched(t) \/ FetchFails(t)
              \/ Panic(t) \/ Unsupported(t) \/ Leave(t)
    PROVE  CacheInv'
  <1> DEFINE i == call[t].image
  <1>1. call[t] \in Call /\ dir' = dir
    BY DEF CacheInv, CacheTypes, BuildClient, Acquire, Wait, Fetched, FetchFails, Panic,
           Unsupported, Leave
  <1>2. call[t].at \in Running => i \in Images /\ call[t].exact \in Images
    BY DEF CacheInv, Leads
  <1>3. ASSUME NEW result \in Names \cup {NoFile, Error}
        PROVE  Done(result) \in Call /\ Done(result).at = "done"
    BY NothingTypes DEF Done, NoCall
  <1>4. /\ {"meta", "client", "acquire", "wait", "fetch", "mkdir", "leave"} \subseteq Running
        /\ {"meta", "client", "acquire", "wait", "done", "idle"} \cap Leading = {}
        /\ {"fetch", "mkdir", "leave", "temp"} \subseteq Leading /\ "done" \notin Running
        /\ {"meta", "client", "acquire", "wait", "fetch", "leave", "done"} \cap Storing = {}
    BY DEF Running, Reading, Leading, Storing
  <1> HIDE DEF i
  <1>5. CASE BuildClient(t)
    <2> DEFINE c == [call[t] EXCEPT !.at = "meta", !.looking = FALSE, !.over = FALSE]
    <2>1. /\ call' = [call EXCEPT ![t] = IF secrets[OwnerOf[i]] = None THEN Done(Error) ELSE c]
          /\ call[t].at = "client" /\ flight' = flight
      BY <1>5 DEF BuildClient, i
    <2>2. c \in Call /\ c.at = "meta" /\ c.image = i /\ c.exact = call[t].exact
      <3>1. "meta" \in {"idle", "done"} \cup Running
        BY <1>4
      <3> QED BY <1>1, <3>1 DEF Call, i
    <2> HIDE DEF c
    <2>3. CASE secrets[OwnerOf[i]] = None
      BY <1>1, <1>3, <1>4, <2>1, <2>3, CallStep DEF CacheInv, CacheTypes, Leads
    <2>4. CASE secrets[OwnerOf[i]] # None
      BY <1>1, <1>2, <1>4, <2>1, <2>2, <2>4, CallStep DEF CacheInv, CacheTypes, Leads
    <2> QED BY <2>3, <2>4
  <1>6. CASE Acquire(t)
    <2>1. call[t].at = "acquire" /\ i \in Images
      BY <1>2, <1>4, <1>6 DEF Acquire
    <2>2. CASE flight[i] = None
      <3> DEFINE c == [call[t] EXCEPT !.at = "fetch"]
      <3>1. call' = [call EXCEPT ![t] = c] /\ flight' = [flight EXCEPT ![i] = t]
        BY <1>1, <1>6, <2>2 DEF Acquire, i
      <3>2. c \in Call /\ c.at = "fetch" /\ c.image = i /\ c.exact = call[t].exact
        BY <1>1, <1>4, SteppedTypes DEF i
      <3> HIDE DEF c
      <3>3. \A s \in Tasks \ {t} : call[s].at \in Leading => call[s].image # i
        BY <2>2, CacheAssumption DEF CacheInv, Leads
      <3>4. flight \in [Images -> Tasks \cup {None}]
        BY DEF CacheInv, CacheTypes
      <3>5. \A s \in Tasks \ {t} : call[s].at \in Leading => flight'[call[s].image] = s
        BY <3>1, <3>3 DEF CacheInv, CacheTypes, Leads
      <3> QED BY <1>1, <1>2, <1>4, <2>1, <3>1, <3>2, <3>4, <3>5, CallStep
    <2>3. CASE flight[i] # None
      <3> PICK over \in BOOLEAN : over = call[flight[i]].over
        <4>1. flight[i] \in Tasks
          BY <2>1, <2>3 DEF CacheInv, CacheTypes
        <4>2. call[flight[i]] \in Call
          BY <4>1 DEF CacheInv, CacheTypes
        <4> QED BY <4>2 DEF Call
      <3> DEFINE c == [call[t] EXCEPT !.at = "wait", !.follows = flight[i], !.over = over]
      <3>1. call' = [call EXCEPT ![t] = c] /\ flight' = flight
        BY <1>1, <1>6, <2>3 DEF Acquire, i
      <3>2. /\ c \in Call /\ c.at = "wait" /\ c.image = i /\ c.exact = call[t].exact
            /\ c.follows \in Tasks
        <4>1. flight[i] \in Tasks
          BY <2>1, <2>3 DEF CacheInv, CacheTypes
        <4>2. "wait" \in {"idle", "done"} \cup Running
          BY <1>4
        <4> QED BY <1>1, <4>1, <4>2 DEF Call, i
      <3> HIDE DEF c
      <3> QED BY <1>1, <1>2, <1>4, <2>1, <3>1, <3>2, CallStep DEF CacheInv, CacheTypes, Leads
    <2> QED BY <2>2, <2>3
  <1>7. CASE Wait(t)
    <2>1. /\ call' = [call EXCEPT ![t] = Done(call[call[t].follows].result)]
          /\ call[t].at = "wait" /\ flight' = flight
      BY <1>7 DEF Wait
    <2>2. call[call[t].follows].result \in Names \cup {NoFile, Error}
      <3>1. call[t].follows \in Tasks
        BY <2>1 DEF CacheInv, Leads
      <3>2. call[call[t].follows] \in Call
        BY <3>1 DEF CacheInv, CacheTypes
      <3> QED BY <3>2 DEF Call
    <2> QED BY <1>1, <1>3, <1>4, <2>1, <2>2, CallStep DEF CacheInv, CacheTypes, Leads
  <1>8. CASE Fetched(t)
    <2> DEFINE c == [call[t] EXCEPT !.at = "mkdir", !.found = NoFile]
    <2>1. call' = [call EXCEPT ![t] = c] /\ call[t].at = "fetch" /\ flight' = flight
      BY <1>1, <1>8 DEF Fetched
    <2>2. c \in Call /\ c.at = "mkdir" /\ c.image = call[t].image /\ c.exact = call[t].exact
      <3>1. "mkdir" \in {"idle", "done"} \cup Running
        BY <1>4
      <3> QED BY <1>1, <3>1 DEF Call
    <2> HIDE DEF c
    <2> QED BY <1>1, <1>4, <2>1, <2>2, LeaderCallStep
  <1>9. CASE FetchFails(t)
    <2>1. PICK result \in Names \cup {NoFile, Error} :
            call' = [call EXCEPT ![t] = CompletedCall(call[t], result)]
      <3>1. call[t].found \in Names \cup {NoFile}
        BY <1>1 DEF Call
      <3> QED BY <1>9, <3>1 DEF FetchFails, Completed, CompletedCall
    <2>2. call[t].at = "fetch" /\ flight' = flight
      BY <1>9 DEF FetchFails
    <2> QED BY <1>1, <1>4, <2>1, <2>2, CompletedTypes, LeaderCallStep
  <1>10. CASE Panic(t)
    <2>1. call' = [call EXCEPT ![t] = Done(Error)] /\ call[t].at = "temp" /\ flight' = flight
      BY <1>10 DEF Panic
    <2> QED BY <1>1, <1>3, <1>4, <2>1, LeaderCallStep
  <1>11. CASE Unsupported(t)
    <2>1. /\ call' = [call EXCEPT ![t] = CompletedCall(call[t], Error)]
          /\ call[t].at = "temp" /\ flight' = flight
      BY <1>11 DEF Unsupported, Completed, CompletedCall
    <2> QED BY <1>1, <1>4, <2>1, CompletedTypes, LeaderCallStep
  <1>12. CASE Leave(t)
    <2>1. /\ call' = [call EXCEPT ![t] = Done(call[t].result)] /\ call[t].at = "leave"
          /\ flight' = [flight EXCEPT ![i] = None]
      BY <1>1, <1>12 DEF Leave, i
    <2>2. call[t].result \in Names \cup {NoFile, Error}
      BY <1>1 DEF Call
    <2>3. \A s \in Tasks \ {t} : call[s].at \in Leading => flight'[call[s].image] = s
      BY <1>4, <2>1, OneLeader DEF CacheInv, CacheTypes, Leads, i
    <2>4. flight' \in [Images -> Tasks \cup {None}]
      BY <2>1 DEF CacheInv, CacheTypes
    <2> DEFINE c == Done(call[t].result)
    <2>5. call' = [call EXCEPT ![t] = c] /\ c \in Call /\ c.at = "done"
      BY <1>3, <2>1, <2>2
    <2> HIDE DEF c
    <2>6. c.at # "wait" /\ c.at \notin Storing /\ c.at \notin Running /\ c.at \notin Leading
      BY <1>4, <2>5
    <2> QED BY <1>1, <2>1, <2>3, <2>4, <2>5, <2>6, CallStep
  <1> QED BY <1>5, <1>6, <1>7, <1>8, <1>9, <1>10, <1>11, <1>12

-----------------------------------------------------------------------------
\* Steps of a store.

\* The temporary file of this run is no image and of no other run.
LEMMA TempFacts ==
    ASSUME CacheTypes
    PROVE  /\ Temp \in Names /\ Temp \notin Finals /\ Temp # NoFile
           /\ \A r \in 1 .. MaxRuns : r > run => TempFile(r) # Temp
  BY NameFacts DEF CacheTypes, Temp, Names, NoFile, TempFile

\* While a task leads, another than it is about to rename no image.
LEMMA KeptThere ==
    ASSUME CacheInv, NEW t \in Tasks, call[t].at \in Leading, call[t].at # "rename",
           dir[call[t].image].kept
    PROVE  \E n \in Names \ {Temp} : dir[call[t].image].files[n] = "whole"
  <1>1. ASSUME NEW s \in Tasks, call[s].at = "rename", call[s].image = call[t].image
        PROVE  FALSE
    <2>1. "rename" \in Leading
      BY DEF Leading, Storing
    <2> QED BY <1>1, <2>1, OneLeader
  <1> QED BY <1>1, OneLeader DEF CacheInv, Stored, StoredAt

\* The step is of t alone, which goes on at "at"; others are marked at most.
Moved(t, at) ==
    /\ call' \in [Tasks -> Call]
    /\ \A s \in Tasks \ {t} : /\ call'[s].at = call[s].at
                              /\ call'[s].image = call[s].image
                              /\ call'[s].exact = call[s].exact
                              /\ call'[s].follows = call[s].follows
    /\ call'[t].at = at
    /\ call'[t].image = call[t].image /\ call'[t].exact = call[t].exact

LEMMA MovedTypes ==
    ASSUME CacheTypes, NEW t \in Tasks, NEW at \in Storing \cup {"leave"}, NEW o,
           o = call \/ o = Overtaken(call, call[t].image, t),
           call' = [o EXCEPT ![t].at = at]
    PROVE  Moved(t, at)
  <1>1. /\ o \in [Tasks -> Call]
        /\ \A s \in Tasks : /\ o[s].at = call[s].at /\ o[s].image = call[s].image
                           /\ o[s].exact = call[s].exact /\ o[s].follows = call[s].follows
    <2>1. call \in [Tasks -> Call]
      BY DEF CacheTypes
    <2>2. CASE o = call
      BY <2>1, <2>2
    <2>3. CASE o = Overtaken(call, call[t].image, t)
      BY <2>1, <2>3, OvertakenTypes
    <2> QED BY <2>2, <2>3
  <1> DEFINE c == [o[t] EXCEPT !.at = at]
  <1>2. c \in Call /\ c.at = at /\ c.image = call[t].image /\ c.exact = call[t].exact
    <2>1. at \in {"idle", "done"} \cup Running
      BY DEF Running, Leading
    <2> QED BY <1>1, <2>1, SteppedTypes
  <1>3. call' = [o EXCEPT ![t] = c]
    OBVIOUS
  <1> HIDE DEF c
  <1> QED BY <1>1, <1>2, <1>3 DEF Moved

LEMMA MovedCompleted ==
    ASSUME CacheTypes, NEW t \in Tasks, NEW result \in Names \cup {NoFile, Error},
           call' = Completed(t, result)
    PROVE  Moved(t, "leave")
  <1>1. call \in [Tasks -> Call] /\ call[t] \in Call
    BY DEF CacheTypes
  <1> DEFINE c == CompletedCall(call[t], result)
  <1>2. call' = [call EXCEPT ![t] = c]
    BY <1>1 DEF Completed, CompletedCall
  <1>3. c \in Call /\ c.at = "leave" /\ c.image = call[t].image /\ c.exact = call[t].exact
    BY <1>1, CompletedTypes
  <1> HIDE DEF c
  <1> QED BY <1>1, <1>2, <1>3 DEF Moved

\* The leader t changes the directory of its image i to d: what is left to show is
\* about i and t alone.
LEMMA LeaderStep ==
    ASSUME CacheInv, run' = run, flight' = flight,
           NEW t \in Tasks, call[t].at \in Storing,
           NEW i, i = call[t].image, NEW d \in Directory, dir' = [dir EXCEPT ![i] = d],
           NEW at \in Storing \cup {"leave"}, Moved(t, at),
           \A r \in 1 .. MaxRuns : r > run => d.files[TempFile(r)] = "none",
           i \in CoverArt => \A n \in Finals : n > d.version => d.files[n] = "none",
           d.kept => \/ \E n \in Names \ {Temp} : d.files[n] = "whole"
                     \/ i \notin CoverArt /\ at = "rename",
           Phase(t, i)'
    PROVE  CacheInv'
  <1> USE DEF Moved
  <1>1. /\ i \in Images /\ call[t].exact \in Images /\ flight[i] = t
        /\ \A s \in Tasks \ {t} : call[s].at \in Leading => call[s].image # i
    BY OneLeader DEF Leading
  <1>2. dir'[i] = d /\ (\A j \in Images \ {i} : dir'[j] = dir[j]) /\ dir' \in [Images -> Directory]
    BY <1>1 DEF CacheInv, CacheTypes
  <1>3. CacheTypes'
    BY <1>2 DEF CacheInv, CacheTypes
  <1>4. Leads'
    <2>1. "wait" \notin Storing \cup {"leave"}
      BY DEF Storing
    <2> QED BY <1>1, <2>1 DEF CacheInv, Leads
  <1>5. ASSUME NEW j \in Images \ {i} PROVE StoredAt(j)'
    <2>1. ASSUME NEW s \in Tasks, call'[s].image = j
          PROVE  s # t /\ call'[s].at = call[s].at /\ call[s].image = j
      BY <1>5, <2>1
    <2>2. ASSUME NEW s \in Tasks, call'[s].image = j PROVE Phase(s, j)'
      BY <1>2, <2>1, <2>2 DEF CacheInv, Stored, StoredAt, Phase, Temp, Final
    <2>3. ASSUME NEW s \in Tasks, call[s].at = "rename", call[s].image = j
          PROVE  call'[s].at = "rename" /\ call'[s].image = j
      BY <1>5, <2>3
    <2> QED BY <1>2, <2>2, <2>3 DEF CacheInv, Stored, StoredAt, Temp
  <1>6. StoredAt(i)'
    <2>1. ASSUME NEW s \in Tasks, call'[s].image = i PROVE Phase(s, i)'
      <3>1. CASE s = t
        BY <3>1
      <3>2. CASE s # t
        <4>1. call'[s].at \notin Storing
          BY <1>1, <2>1, <3>2 DEF Leading
        <4> QED BY <4>1 DEF Phase, Storing
      <3> QED BY <3>1, <3>2
    <2>2. Temp' = Temp
      BY DEF Temp
    <2> QED BY <1>2, <2>1, <2>2 DEF StoredAt
  <1> QED BY <1>3, <1>4, <1>5, <1>6 DEF CacheInv, Stored
\* What the leader of a store knows of its image.
LEMMA StoreFacts ==
    ASSUME CacheInv, NEW t \in Tasks, call[t].at \in Storing, NEW i, i = call[t].image
    PROVE  /\ CacheTypes /\ i \in Images /\ dir[i] \in Directory
           /\ Phase(t, i)
           /\ \A r \in 1 .. MaxRuns : r > run => dir[i].files[TempFile(r)] = "none"
           /\ i \in CoverArt => \A n \in Finals : n > dir[i].version => dir[i].files[n] = "none"
           /\ dir[i].kept /\ call[t].at # "rename" =>
                 \E n \in Names \ {Temp} : dir[i].files[n] = "whole"
           /\ dir[i].kept /\ i \in CoverArt =>
                 \E n \in Names \ {Temp} : dir[i].files[n] = "whole"
  <1>1. call[t].at \in Leading
    BY DEF Leading
  <1>2. i \in Images
    BY <1>1, OneLeader
  <1>3. CacheTypes /\ dir[i] \in Directory
    BY <1>2 DEF CacheInv, CacheTypes
  <1>4. StoredAt(i)
    BY <1>2 DEF CacheInv, Stored
  <1> QED BY <1>1, <1>2, <1>3, <1>4, KeptThere DEF StoredAt

LEMMA MakeDirStep ==
    ASSUME CacheInv, run' = run, NEW t \in Tasks, MakeDir(t)
    PROVE  CacheInv'
  <1> PICK i : i = call[t].image
    OBVIOUS
  <1> DEFINE v == IF i \in CoverArt THEN dir[i].version + 1 ELSE 1
             d == [dir[i] EXCEPT !.exists = TRUE, !.version = v]
  <1>1. call[t].at = "mkdir" /\ call[t].at \in Storing /\ flight' = flight
    BY DEF MakeDir, Storing
  <1>2. i \in Images /\ dir[i] \in Directory /\ CacheTypes
    BY <1>1, StoreFacts
  <1>3. Moved(t, "temp")
    BY <1>2, MovedTypes DEF MakeDir, Storing
  <1>4. v \in Finals /\ (i \in CoverArt => v > dir[i].version)
    BY <1>2, NameFacts DEF MakeDir, Directory, Finals
  <1> HIDE DEF v
  <1>5. /\ d \in Directory /\ d.files = dir[i].files /\ d.kept = dir[i].kept
        /\ d.version = v
    <2>1. v \in 0 .. MaxVersion
      BY <1>4, NameFacts DEF Finals
    <2> QED BY <1>2, <2>1 DEF Directory
  <1>6. dir' = [dir EXCEPT ![i] = d]
    BY <1>2 DEF MakeDir, v, CacheTypes, Directory
  <1> HIDE DEF d
  <1>7. /\ i \in CoverArt => \A n \in Finals : n > v => d.files[n] = "none"
        /\ i \in CoverArt => d.files[v] = "none"
    <2>1. dir[i].version \in Nat /\ Finals \subseteq Nat
      BY <1>2, NameFacts DEF Directory, Finals
    <2> QED BY <1>1, <1>4, <1>5, <2>1, StoreFacts
  <1>8. Phase(t, i)'
    <2>1. dir'[i] = d /\ call'[t].at = "temp"
      BY <1>2, <1>3, <1>6 DEF CacheTypes, Moved
    <2>2. Final(i)' = v
      BY <1>5, <2>1 DEF Final
    <2> QED BY <1>4, <1>5, <1>7, <2>1, <2>2 DEF Phase
  <1>9. d.kept => \E n \in Names \ {Temp} : d.files[n] = "whole"
    <2>1. dir[i].kept => \E n \in Names \ {Temp} : dir[i].files[n] = "whole"
      BY <1>1, StoreFacts
    <2> QED BY <1>5, <2>1
  <1>10. \A r \in 1 .. MaxRuns : r > run => d.files[TempFile(r)] = "none"
    <2>1. \A r \in 1 .. MaxRuns : r > run => dir[i].files[TempFile(r)] = "none"
      BY <1>1, StoreFacts
    <2> QED BY <1>5, <2>1
  <1>11. "temp" \in Storing \cup {"leave"} /\ i = call[t].image
    BY DEF Storing
  <1> QED BY <1>1, <1>3, <1>5, <1>6, <1>7, <1>8, <1>9, <1>10, <1>11, LeaderStep

\* A leader ends its store without another change of the directory.
LEMMA GivesUp ==
    ASSUME CacheInv, run' = run, flight' = flight, dir' = dir, NEW t \in Tasks,
           call[t].at \in Storing, NEW result \in Names \cup {NoFile, Error},
           call' = Completed(t, result),
           call[t].at = "rename" => ~dir[call[t].image].kept
    PROVE  CacheInv'
  <1> PICK i : i = call[t].image
    OBVIOUS
  <1> DEFINE d == dir[i]
  <1>1. i \in Images /\ d \in Directory /\ CacheTypes
    BY StoreFacts
  <1>2. Moved(t, "leave")
    BY <1>1, MovedCompleted
  <1>3. dir' = [dir EXCEPT ![i] = d]
    BY <1>1 DEF CacheTypes
  <1>4. Phase(t, i)'
    BY <1>2 DEF Phase, Moved, Storing
  <1>5. "leave" \in Storing \cup {"leave"} /\ i = call[t].image
    OBVIOUS
  <1>6. /\ \A r \in 1 .. MaxRuns : r > run => d.files[TempFile(r)] = "none"
        /\ i \in CoverArt => \A n \in Finals : n > d.version => d.files[n] = "none"
        /\ d.kept => \E n \in Names \ {Temp} : d.files[n] = "whole"
    BY StoreFacts
  <1> HIDE DEF d
  <1> QED BY <1>1, <1>2, <1>3, <1>4, <1>5, <1>6, LeaderStep

\* A leader changes one file of its image, or its mark of being kept.
LEMMA FileStep ==
    ASSUME CacheInv, run' = run, flight' = flight, NEW t \in Tasks,
           call[t].at \in Storing, NEW i, i = call[t].image,
           NEW n \in Names, NEW content \in {"none", "torn", "whole"},
           NEW d, d = [dir[i] EXCEPT !.files[n] = content],
           dir' = [dir EXCEPT ![i] = d],
           \A r \in 1 .. MaxRuns : r > run => TempFile(r) # n,
           n \in Finals => content = "none",
           NEW at \in Storing, Moved(t, at),
           d.kept => \/ \E m \in Names \ {Temp} : d.files[m] = "whole"
                     \/ i \notin CoverArt /\ at = "rename",
           Phase(t, i)'
    PROVE  CacheInv'
  <1>1. i \in Images /\ dir[i] \in Directory /\ CacheTypes
    BY StoreFacts
  <1>2. /\ d \in Directory /\ d.version = dir[i].version /\ d.kept = dir[i].kept
        /\ d.files = [dir[i].files EXCEPT ![n] = content]
    BY <1>1 DEF Directory
  <1>3. /\ d.files[n] = content
        /\ \A m \in Names : m # n => d.files[m] = dir[i].files[m]
    BY <1>1, <1>2 DEF Directory
  <1>4. \A r \in 1 .. MaxRuns : r > run => d.files[TempFile(r)] = "none"
    BY <1>3, StoreFacts, NameFacts
  <1>5. i \in CoverArt => \A m \in Finals : m > d.version => d.files[m] = "none"
    BY <1>2, <1>3, StoreFacts, NameFacts
  <1>6. at \in Storing \cup {"leave"}
    OBVIOUS
  <1> QED BY <1>2, <1>4, <1>5, <1>6, LeaderStep

LEMMA WriteTempStep ==
    ASSUME CacheInv, run' = run, NEW t \in Tasks, WriteTemp(t)
    PROVE  CacheInv'
  <1> PICK i : i = call[t].image
    OBVIOUS
  <1>1. call[t].at = "temp" /\ call[t].at \in Storing /\ flight' = flight
    BY DEF WriteTemp, Storing
  <1>2. i \in Images /\ dir[i] \in Directory /\ CacheTypes /\ Phase(t, i)
    BY <1>1, StoreFacts
  <1>3. CASE ~dir[i].exists
    BY <1>1, <1>3, GivesUp DEF WriteTemp
  <1>4. CASE dir[i].exists
    <2> DEFINE d == [dir[i] EXCEPT !.files[Temp] = "torn"]
    <2>1. Moved(t, "fill")
      BY <1>2, <1>4, MovedTypes DEF WriteTemp, Storing
    <2>2. dir' = [dir EXCEPT ![i] = d]
      BY <1>2, <1>4 DEF WriteTemp, CacheTypes
    <2>3. Temp \in Names /\ Temp \notin Finals /\ \A r \in 1 .. MaxRuns : r > run => TempFile(r) # Temp
      BY <1>2, TempFacts
    <2>4. /\ d.files[Temp] = "torn" /\ d.version = dir[i].version /\ d.kept = dir[i].kept
          /\ \A m \in Names : m # Temp => d.files[m] = dir[i].files[m]
      BY <1>2, <2>3 DEF Directory
    <2>5. d.kept => \E m \in Names \ {Temp} : d.files[m] = "whole"
      BY <1>1, <2>4, StoreFacts
    <2>6. dir'[i] = d /\ call'[t].at = "fill" /\ Temp' = Temp
      BY <1>2, <2>1, <2>2 DEF CacheTypes, Moved, Temp
    <2> HIDE DEF d
    <2>7. Phase(t, i)'
      BY <1>1, <1>2, <2>3, <2>4, <2>6, NameFacts DEF Phase, Final
    <2>8. "fill" \in Storing
      BY DEF Storing
    <2> QED BY <1>1, <2>1, <2>2, <2>3, <2>5, <2>7, <2>8, FileStep DEF d
  <1> QED BY <1>3, <1>4

LEMMA FillTempStep ==
    ASSUME CacheInv, run' = run, NEW t \in Tasks, FillTemp(t)
    PROVE  CacheInv'
  <1> PICK i : i = call[t].image
    OBVIOUS
  <1> PICK content : content = IF dir[i].files[Temp] = "torn" THEN "whole" ELSE dir[i].files[Temp]
    OBVIOUS
  <1> DEFINE d == [dir[i] EXCEPT !.files[Temp] = content]
  <1>1. call[t].at = "fill" /\ call[t].at \in Storing /\ flight' = flight
    BY DEF FillTemp, Storing
  <1>2. i \in Images /\ dir[i] \in Directory /\ CacheTypes /\ Phase(t, i)
    BY <1>1, StoreFacts
  <1>3. Moved(t, "replace")
    BY <1>2, MovedTypes DEF FillTemp, Storing
  <1>4. Temp \in Names /\ Temp \notin Finals /\ \A r \in 1 .. MaxRuns : r > run => TempFile(r) # Temp
    BY <1>2, TempFacts
  <1>5. dir' = [dir EXCEPT ![i] = d]
    BY <1>2, <1>4 DEF FillTemp, CacheTypes, Directory
  <1>6. /\ d.files[Temp] = content /\ d.version = dir[i].version /\ d.kept = dir[i].kept
        /\ \A m \in Names : m # Temp => d.files[m] = dir[i].files[m]
    BY <1>2, <1>4 DEF Directory
  <1>7. content \in {"whole", "none"} /\ (dir[i].kept => content = "whole")
    BY <1>1, <1>2 DEF Phase
  <1>8. d.kept => \E m \in Names \ {Temp} : d.files[m] = "whole"
    BY <1>1, <1>6, StoreFacts
  <1>9. dir'[i] = d /\ call'[t].at = "replace" /\ Temp' = Temp
    BY <1>2, <1>3, <1>5 DEF CacheTypes, Moved, Temp
  <1> HIDE DEF d
  <1>10. Phase(t, i)'
    BY <1>1, <1>2, <1>4, <1>6, <1>7, <1>9, NameFacts DEF Phase, Final, Storing
  <1>11. "replace" \in Storing
    BY DEF Storing
  <1> QED BY <1>1, <1>3, <1>4, <1>5, <1>7, <1>8, <1>10, <1>11, FileStep DEF d

LEMMA ReplaceStep ==
    ASSUME CacheInv, run' = run, NEW t \in Tasks, Replace(t)
    PROVE  CacheInv'
  <1> PICK i : i = call[t].image
    OBVIOUS
  <1> PICK n : n = Final(i)
    OBVIOUS
  <1> DEFINE d == [dir[i] EXCEPT !.files[n] = "none"]
  <1>1. call[t].at = "replace" /\ call[t].at \in Storing /\ flight' = flight
    BY DEF Replace, Storing
  <1>2. i \in Images /\ dir[i] \in Directory /\ CacheTypes /\ Phase(t, i)
    BY <1>1, StoreFacts
  <1>3. Moved(t, "rename")
    <2> PICK o : o = IF Present(i, Final(i)) THEN Overtaken(call, i, t) ELSE call
      OBVIOUS
    <2>1. call' = [o EXCEPT ![t].at = "rename"]
      BY DEF Replace
    <2> QED BY <1>2, <2>1, MovedTypes DEF Storing
  <1>4. n \in Finals /\ n \in Names
    BY <1>1, <1>2, NameFacts DEF Phase, Storing
  <1>5. dir' = [dir EXCEPT ![i] = d]
    BY <1>2, <1>4 DEF Replace, CacheTypes, Directory
  <1>6. /\ d.files[n] = "none" /\ d.version = dir[i].version /\ d.kept = dir[i].kept
        /\ \A m \in Names : m # n => d.files[m] = dir[i].files[m]
    BY <1>2, <1>4 DEF Directory
  <1>7. Temp \in Names /\ Temp \notin Finals
    BY <1>2, TempFacts
  <1>8. d.kept => \/ \E m \in Names \ {Temp} : d.files[m] = "whole"
                  \/ i \notin CoverArt
    <2>1. ASSUME i \in CoverArt PROVE dir[i].files[n] = "none"
      BY <1>1, <1>2, <2>1 DEF Phase
    <2> QED BY <1>1, <1>6, <2>1, StoreFacts
  <1>9. dir'[i] = d /\ call'[t].at = "rename" /\ Temp' = Temp
    BY <1>2, <1>3, <1>5 DEF CacheTypes, Moved, Temp
  <1>10. \A r \in 1 .. MaxRuns : r > run => TempFile(r) # n
    BY <1>4, NameFacts
  <1> HIDE DEF d
  <1>11. Phase(t, i)'
    BY <1>1, <1>2, <1>4, <1>6, <1>7, <1>9, NameFacts DEF Phase, Final, Storing
  <1>12. "rename" \in Storing
    BY DEF Storing
  <1> QED BY <1>1, <1>3, <1>4, <1>5, <1>8, <1>10, <1>11, <1>12, FileStep DEF d

\* The temporary file of an image has its name.
LEMMA RenamedDirectory ==
    ASSUME CacheTypes, NEW i \in Images, NEW n,
           dir' = [dir EXCEPT ![i].files[Temp] = "none", ![i].files[n] = "whole", ![i].kept = TRUE]
    PROVE  dir' = [dir EXCEPT ![i] =
                      [dir[i] EXCEPT !.files = [dir[i].files EXCEPT ![Temp] = "none", ![n] = "whole"],
                                     !.kept = TRUE]]
  <1> DEFINE d == [dir[i] EXCEPT !.files = [dir[i].files EXCEPT ![Temp] = "none", ![n] = "whole"],
                                 !.kept = TRUE]
             d1 == [dir[i] EXCEPT !.files[Temp] = "none"]
             d2 == [d1 EXCEPT !.files[n] = "whole"]
  <1>1. dir \in [Images -> Directory] /\ dir[i] \in Directory
    BY DEF CacheTypes
  <1>2. dir' = [[[dir EXCEPT ![i] = d1] EXCEPT ![i].files[n] = "whole"] EXCEPT ![i].kept = TRUE]
    BY <1>1
  <1>3. [[dir EXCEPT ![i] = d1] EXCEPT ![i].files[n] = "whole"] = [dir EXCEPT ![i] = d2]
    BY <1>1
  <1>4. [d2 EXCEPT !.kept = TRUE] = d
    BY <1>1 DEF Directory
  <1> HIDE DEF d, d1, d2
  <1>5. dir' = [[dir EXCEPT ![i] = d2] EXCEPT ![i].kept = TRUE]
    BY <1>2, <1>3
  <1>6. dir' = [dir EXCEPT ![i] = [d2 EXCEPT !.kept = TRUE]]
    BY <1>1, <1>5
  <1>7. dir' = [dir EXCEPT ![i] = d]
    BY <1>4, <1>6
  <1> QED BY <1>7 DEF d

LEMMA RenameStep ==
    ASSUME CacheInv, run' = run, NEW t \in Tasks, Rename(t)
    PROVE  CacheInv'
  <1> PICK i : i = call[t].image
    OBVIOUS
  <1> PICK n : n = Final(i)
    OBVIOUS
  <1>1. call[t].at = "rename" /\ call[t].at \in Storing /\ flight' = flight
    BY DEF Rename, Storing
  <1>2. i \in Images /\ dir[i] \in Directory /\ CacheTypes /\ Phase(t, i)
    BY <1>1, StoreFacts
  <1>3. /\ Temp \in Names /\ Temp \notin Finals /\ Temp # NoFile
        /\ \A r \in 1 .. MaxRuns : r > run => TempFile(r) # Temp
    BY <1>2, TempFacts
  <1>4. n \in Finals /\ n \in Names
    BY <1>1, <1>2, NameFacts DEF Phase, Storing
  <1>5. CASE ~Present(i, Temp)
    <2>1. ~dir[i].kept
      BY <1>1, <1>2, <1>3, <1>5 DEF Phase, Present
    <2> QED BY <1>1, <1>5, <2>1, GivesUp DEF Rename
  <1>6. CASE Present(i, Temp)
    <2> DEFINE files == [dir[i].files EXCEPT ![Temp] = "none", ![n] = "whole"]
               d == [dir[i] EXCEPT !.files = files, !.kept = TRUE]
    <2>1. dir[i].files[Temp] = "whole"
      BY <1>1, <1>2, <1>6 DEF Phase, Present
    <2>2. Moved(t, "metaTemp")
      BY <1>2, <1>6, MovedTypes DEF Rename, Storing
    <2>3. dir' = [dir EXCEPT ![i] = d]
      <3>1. dir' = [dir EXCEPT ![i].files[Temp] = "none", ![i].files[n] = "whole", ![i].kept = TRUE]
        BY <1>6, <2>1 DEF Rename
      <3> QED BY <1>2, <3>1, RenamedDirectory
    <2>4. /\ files \in [Names -> {"none", "torn", "whole"}]
          /\ files[n] = "whole" /\ files[Temp] = "none"
          /\ \A m \in Names \ {n, Temp} : files[m] = dir[i].files[m]
      BY <1>2, <1>3, <1>4 DEF Directory
    <2> HIDE DEF files
    <2>5. d \in Directory /\ d.files = files /\ d.version = n
      BY <1>2, <2>4 DEF Directory, Final
    <2>6. dir'[i] = d /\ call'[t].at = "metaTemp" /\ Temp' = Temp
      BY <1>2, <2>2, <2>3 DEF CacheTypes, Moved, Temp
    <2> HIDE DEF d
    <2>7. Phase(t, i)'
      BY <1>4, <2>4, <2>5, <2>6 DEF Phase, Final
    <2>8. "metaTemp" \in Storing \cup {"leave"}
      BY DEF Storing
    <2>9. \E m \in Names \ {Temp} : d.files[m] = "whole"
      BY <1>3, <1>4, <2>4, <2>5
    <2>10. \A r \in 1 .. MaxRuns : r > run => d.files[TempFile(r)] = "none"
      BY <1>1, <1>3, <1>4, <2>4, <2>5, StoreFacts, NameFacts
    <2>11. i \in CoverArt => \A m \in Finals : m > d.version => d.files[m] = "none"
      <3>1. \A m \in Finals : m > n => m # n
        BY <1>4 DEF Finals
      <3> QED BY <1>1, <1>3, <2>4, <2>5, <3>1, StoreFacts, NameFacts DEF Final
    <2> QED BY <1>1, <2>2, <2>3, <2>5, <2>7, <2>8, <2>9, <2>10, <2>11, LeaderStep
  <1> QED BY <1>5, <1>6

\* The files stay, and the store goes on to the next step of its metadata or ends.
LEMMA SameFilesStep ==
    ASSUME CacheInv, run' = run, flight' = flight, NEW t \in Tasks,
           call[t].at \in Storing, NEW i, i = call[t].image,
           NEW d \in Directory, dir' = [dir EXCEPT ![i] = d],
           d.files = dir[i].files, d.version = dir[i].version,
           d.kept => dir[i].kept /\ (i \in CoverArt \/ call[t].at # "rename"),
           NEW at \in {"metaReplace", "metaRename", "sweep", "leave"}, Moved(t, at),
           at # "leave" => call[t].at \in {"metaTemp", "metaReplace", "metaRename", "sweep"}
    PROVE  CacheInv'
  <1>1. i \in Images /\ CacheTypes /\ Phase(t, i)
    BY StoreFacts
  <1>2. dir'[i] = d /\ call'[t].at = at /\ Temp' = Temp
    BY <1>1 DEF CacheTypes, Moved, Temp
  <1>3. Phase(t, i)'
    BY <1>1, <1>2 DEF Phase, Final, Storing
  <1>4. d.kept => \E m \in Names \ {Temp} : d.files[m] = "whole"
    BY StoreFacts
  <1>5. /\ \A r \in 1 .. MaxRuns : r > run => d.files[TempFile(r)] = "none"
        /\ i \in CoverArt => \A n \in Finals : n > d.version => d.files[n] = "none"
    BY StoreFacts
  <1>6. at \in Storing \cup {"leave"}
    BY DEF Storing
  <1> QED BY <1>3, <1>4, <1>5, <1>6, LeaderStep

LEMMA MetaStep ==
    ASSUME CacheInv, run' = run, NEW t \in Tasks,
           WriteMeta(t) \/ ReplaceMeta(t) \/ RenameMeta(t)
    PROVE  CacheInv'
  <1> PICK i : i = call[t].image
    OBVIOUS
  <1>1. /\ call[t].at \in {"metaTemp", "metaReplace", "metaRename"} /\ call[t].at \in Storing
        /\ flight' = flight
    BY DEF WriteMeta, ReplaceMeta, RenameMeta, Storing
  <1>2. i \in Images /\ dir[i] \in Directory /\ CacheTypes /\ Phase(t, i)
    BY <1>1, StoreFacts
  <1>3. ASSUME NEW d \in Directory, dir' = [dir EXCEPT ![i] = d],
               d.files = dir[i].files, d.version = dir[i].version, d.kept = dir[i].kept,
               NEW at \in {"metaReplace", "metaRename", "sweep"}, call' = [call EXCEPT ![t].at = at]
        PROVE  CacheInv'
    <2>1. Moved(t, at)
      BY <1>2, <1>3, MovedTypes DEF Storing
    <2> QED BY <1>1, <1>3, <2>1, SameFilesStep
  <1>4. CASE WriteMeta(t)
    <2>1. CASE dir[i].exists
      <3> DEFINE d == [dir[i] EXCEPT !.metaTemp = TRUE]
      <3>1. d \in Directory /\ d.files = dir[i].files /\ d.version = dir[i].version /\ d.kept = dir[i].kept
        BY <1>2 DEF Directory
      <3>2. dir' = [dir EXCEPT ![i] = d] /\ call' = [call EXCEPT ![t].at = "metaReplace"]
        BY <1>2, <1>4, <2>1 DEF WriteMeta, CacheTypes
      <3> HIDE DEF d
      <3> QED BY <1>3, <3>1, <3>2
    <2>2. CASE ~dir[i].exists
      BY <1>1, <1>4, <2>2, GivesUp DEF WriteMeta
    <2> QED BY <2>1, <2>2
  <1>5. CASE ReplaceMeta(t)
    <2> DEFINE d == [dir[i] EXCEPT !.meta = NoMeta]
    <2>1. d \in Directory /\ d.files = dir[i].files /\ d.version = dir[i].version /\ d.kept = dir[i].kept
      BY <1>2, NothingTypes DEF Directory
    <2>2. dir' = [dir EXCEPT ![i] = d] /\ call' = [call EXCEPT ![t].at = "metaRename"]
      BY <1>2, <1>5 DEF ReplaceMeta, CacheTypes
    <2> HIDE DEF d
    <2> QED BY <1>3, <2>1, <2>2
  <1>6. CASE RenameMeta(t)
    <2>1. CASE dir[i].metaTemp
      <3> PICK meta : meta = [name |-> Final(i), fresh |-> TRUE]
        OBVIOUS
      <3> DEFINE d == [dir[i] EXCEPT !.metaTemp = FALSE, !.meta = meta]
      <3>1. meta \in Meta
        BY <1>1, <1>2 DEF Phase, Meta, Storing
      <3>2. d \in Directory /\ d.files = dir[i].files /\ d.version = dir[i].version /\ d.kept = dir[i].kept
        BY <1>2, <3>1 DEF Directory
      <3>3. dir' = [dir EXCEPT ![i] = d] /\ call' = [call EXCEPT ![t].at = "sweep"]
        BY <1>2, <1>6, <2>1 DEF RenameMeta, CacheTypes
      <3> HIDE DEF d
      <3> QED BY <1>3, <3>2, <3>3
    <2>2. CASE ~dir[i].metaTemp
      BY <1>1, <1>6, <2>2, GivesUp DEF RenameMeta
    <2> QED BY <2>1, <2>2
  <1> QED BY <1>4, <1>5, <1>6

LEMMA SweepStep ==
    ASSUME CacheInv, run' = run, NEW t \in Tasks, Sweep(t)
    PROVE  CacheInv'
  <1> PICK i : i = call[t].image
    OBVIOUS
  <1>1. call[t].at = "sweep" /\ call[t].at \in Storing /\ flight' = flight
    BY DEF Sweep, Storing
  <1>2. i \in Images /\ dir[i] \in Directory /\ CacheTypes /\ Phase(t, i)
    BY <1>1, StoreFacts
  <1>3. Final(i) \in Finals /\ Final(i) \in Names
    BY <1>1, <1>2, NameFacts DEF Phase, Storing
  <1>4. CASE Stale(t) = {}
    <2> DEFINE d == [dir[i] EXCEPT !.cut = FALSE]
    <2>1. d \in Directory /\ d.files = dir[i].files /\ d.version = dir[i].version /\ d.kept = dir[i].kept
      BY <1>2 DEF Directory
    <2>2. dir' = [dir EXCEPT ![i] = d] /\ call' = Completed(t, Final(i))
      BY <1>2, <1>4 DEF Sweep, CacheTypes
    <2>3. Moved(t, "leave")
      BY <1>2, <1>3, <2>2, MovedCompleted
    <2> HIDE DEF d
    <2> QED BY <1>1, <2>1, <2>2, <2>3, SameFilesStep
  <1>5. CASE Stale(t) # {}
    <2>1. PICK n \in Stale(t) : /\ dir' = [dir EXCEPT ![i].files[n] = "none"]
                                /\ call' = Overtaken(call, i, t)
      BY <1>5 DEF Sweep
    <2>2. n \in Names /\ n # Final(i) /\ dir[i].files[n] # "none"
      BY <2>1 DEF Stale, PresentIn
    <2> DEFINE d == [dir[i] EXCEPT !.files[n] = "none"]
    <2>3. dir' = [dir EXCEPT ![i] = d]
      BY <1>2, <2>1 DEF CacheTypes
    <2>4. Moved(t, "sweep")
      <3>1. call \in [Tasks -> Call]
        BY <1>2 DEF CacheTypes
      <3> QED BY <1>1, <2>1, <3>1, OvertakenTypes DEF Moved
    <2>5. /\ d.version = dir[i].version /\ d.kept = dir[i].kept
          /\ d.files[Final(i)] = dir[i].files[Final(i)]
      BY <1>2, <1>3, <2>2 DEF Directory
    <2>6. dir'[i] = d /\ call'[t].at = "sweep"
      BY <1>2, <2>3, <2>4 DEF CacheTypes, Moved
    <2>7. d.kept => d.files[Final(i)] = "whole"
      BY <1>1, <1>2, <2>5 DEF Phase
    <2>8. d.kept => \E m \in Names \ {Temp} : d.files[m] = "whole"
      BY <1>2, <1>3, <2>7, TempFacts
    <2> HIDE DEF d
    <2>9. Phase(t, i)'
      BY <1>3, <2>5, <2>6, <2>7 DEF Phase, Final
    <2>10. \A r \in 1 .. MaxRuns : r > run => TempFile(r) # n
      BY <1>1, <2>2, StoreFacts
    <2>11. "sweep" \in Storing
      BY DEF Storing
    <2> QED BY <1>1, <2>2, <2>3, <2>4, <2>8, <2>9, <2>10, <2>11, FileStep DEF d
  <1> QED BY <1>4, <1>5

LEMMA StoreFailsStep ==
    ASSUME CacheInv, run' = run, NEW t \in Tasks, StoreFails(t)
    PROVE  CacheInv'
  <1> PICK i : i = call[t].image
    OBVIOUS
  <1> PICK cut \in BOOLEAN : cut = (dir[i].cut \/ call[t].at = "fill")
    OBVIOUS
  <1> PICK kept \in BOOLEAN : kept = (dir[i].kept /\ (i \in CoverArt \/ call[t].at # "rename"))
    OBVIOUS
  <1> DEFINE d == [dir[i] EXCEPT !.cut = cut, !.kept = kept]
  <1>1. call[t].at \in Storing /\ flight' = flight
    BY DEF StoreFails
  <1>2. i \in Images /\ dir[i] \in Directory /\ CacheTypes
    BY <1>1, StoreFacts
  <1>3. d \in Directory /\ d.files = dir[i].files /\ d.version = dir[i].version /\ d.kept = kept
    BY <1>2 DEF Directory
  <1>4. dir' = [dir EXCEPT ![i] = d]
    BY <1>2 DEF StoreFails, CacheTypes, Directory
  <1>5. Moved(t, "leave")
    BY <1>2, MovedCompleted DEF StoreFails
  <1> HIDE DEF d
  <1> QED BY <1>1, <1>3, <1>4, <1>5, SameFilesStep

LEMMA StoreStep ==
    ASSUME CacheInv, run' = run, NEW t \in Tasks, Store(t)
    PROVE  CacheInv'
  BY MakeDirStep, WriteTempStep, FillTempStep, ReplaceStep, RenameStep, MetaStep, SweepStep,
     StoreFailsStep DEF Store

-----------------------------------------------------------------------------
\* Steps of a removal, and of everything else.

LEMMA NothingStep ==
    ASSUME CacheInv, UNCHANGED <<run, dir, flight, call>>
    PROVE  CacheInv'
  BY DEF CacheInv, CacheTypes, Leads, Stored, StoredAt, Phase, Temp, Final

\* Files of an image are taken away, which is not kept then, or none is.
LEMMA TakenStep ==
    ASSUME CacheInv, run' = run, flight' = flight,
           NEW i \in Images, NEW d \in Directory, dir' = [dir EXCEPT ![i] = d],
           d.version = dir[i].version,
           \A n \in Names : d.files[n] \in {dir[i].files[n], "none"},
           d.kept => dir[i].kept /\ d.files = dir[i].files,
           call' \in [Tasks -> Call],
           \A s \in Tasks : /\ call'[s].at = call[s].at
                            /\ call'[s].image = call[s].image
                            /\ call'[s].exact = call[s].exact
                            /\ call'[s].follows = call[s].follows
    PROVE  CacheInv'
  <1>1. dir'[i] = d /\ (\A j \in Images \ {i} : dir'[j] = dir[j]) /\ dir' \in [Images -> Directory]
    BY DEF CacheInv, CacheTypes
  <1>2. CacheTypes'
    BY <1>1 DEF CacheInv, CacheTypes
  <1>3. Leads'
    BY DEF CacheInv, Leads
  <1>4. Temp' = Temp /\ Temp \in Names
    BY TempFacts DEF Temp, CacheInv
  <1>5. ASSUME NEW j \in Images \ {i} PROVE StoredAt(j)'
    <2>1. ASSUME NEW s \in Tasks, call'[s].image = j PROVE Phase(s, j)'
      BY <1>1, <1>4, <2>1 DEF CacheInv, Stored, StoredAt, Phase, Final
    <2> QED BY <1>1, <1>4, <2>1 DEF CacheInv, Stored, StoredAt
  <1>6. StoredAt(i)'
    <2>1. StoredAt(i)
      BY DEF CacheInv, Stored
    <2>2. ASSUME NEW s \in Tasks, call'[s].image = i PROVE Phase(s, i)'
      <3>1. Phase(s, i) /\ call'[s].at = call[s].at
        BY <2>1, <2>2 DEF StoredAt
      <3>2. d.files[Temp] \in {dir[i].files[Temp], "none"}
        BY <1>4
      <3>3. call[s].at \in Storing \ {"mkdir"} =>
              Final(i) \in Finals /\ d.files[Final(i)] \in {dir[i].files[Final(i)], "none"}
        BY <3>1, NameFacts DEF Phase
      <3> QED BY <1>1, <1>4, <3>1, <3>2, <3>3 DEF Phase, Final, Storing
    <2>3. \A r \in 1 .. MaxRuns : r > run => d.files[TempFile(r)] = "none"
      BY <2>1, NameFacts DEF StoredAt
    <2>4. i \in CoverArt => \A n \in Finals : n > d.version => d.files[n] = "none"
      BY <2>1, NameFacts DEF StoredAt
    <2> QED BY <1>1, <1>4, <2>1, <2>2, <2>3, <2>4 DEF StoredAt
  <1> QED BY <1>2, <1>3, <1>5, <1>6 DEF CacheInv, Stored

LEMMA UnlinkStep ==
    ASSUME CacheInv, run' = run, NEW i \in Images, Unlink(i)
    PROVE  CacheInv'
  <1>1. dir[i] \in Directory /\ dir \in [Images -> Directory] /\ call \in [Tasks -> Call]
    BY DEF CacheInv, CacheTypes
  <1>2. flight' = flight
    BY DEF Unlink
  <1>3. CASE \E n \in PresentIn(i) : /\ dir' = [dir EXCEPT ![i].files[n] = "none", ![i].kept = FALSE]
                                     /\ call' = Overtaken(call, i, None)
    <2>1. PICK n \in Names : /\ dir' = [dir EXCEPT ![i].files[n] = "none", ![i].kept = FALSE]
                             /\ call' = Overtaken(call, i, None)
      BY <1>3 DEF PresentIn
    <2> DEFINE d == [dir[i] EXCEPT !.files[n] = "none", !.kept = FALSE]
    <2>2. /\ d \in Directory /\ d.version = dir[i].version /\ ~d.kept
          /\ \A m \in Names : d.files[m] \in {dir[i].files[m], "none"}
      BY <1>1 DEF Directory
    <2>3. dir' = [dir EXCEPT ![i] = d]
      BY <1>1, <2>1
    <2> HIDE DEF d
    <2>4. /\ call' \in [Tasks -> Call]
          /\ \A s \in Tasks : /\ call'[s].at = call[s].at
                              /\ call'[s].image = call[s].image
                              /\ call'[s].exact = call[s].exact
                              /\ call'[s].follows = call[s].follows
      BY <1>1, <2>1, OvertakenTypes
    <2> QED BY <1>2, <2>2, <2>3, <2>4, TakenStep
  <1>4. CASE dir' = [dir EXCEPT ![i].meta = NoMeta, ![i].kept = FALSE] /\ call' = call
    <2> DEFINE d == [dir[i] EXCEPT !.meta = NoMeta, !.kept = FALSE]
    <2>1. d \in Directory /\ d.version = dir[i].version /\ ~d.kept /\ d.files = dir[i].files
      BY <1>1, NothingTypes DEF Directory
    <2>2. dir' = [dir EXCEPT ![i] = d]
      BY <1>1, <1>4
    <2> HIDE DEF d
    <2> QED BY <1>1, <1>2, <1>4, <2>1, <2>2, TakenStep
  <1>5. CASE dir' = [dir EXCEPT ![i].metaTemp = FALSE, ![i].kept = FALSE] /\ call' = call
    <2> DEFINE d == [dir[i] EXCEPT !.metaTemp = FALSE, !.kept = FALSE]
    <2>1. d \in Directory /\ d.version = dir[i].version /\ ~d.kept /\ d.files = dir[i].files
      BY <1>1 DEF Directory
    <2>2. dir' = [dir EXCEPT ![i] = d]
      BY <1>1, <1>5
    <2> HIDE DEF d
    <2> QED BY <1>1, <1>2, <1>5, <2>1, <2>2, TakenStep
  <1> QED BY <1>3, <1>4, <1>5 DEF Unlink

LEMMA RemoveDirStep ==
    ASSUME CacheInv, run' = run, NEW i \in Images, RemoveDir(i)
    PROVE  CacheInv'
  <1> DEFINE d == [dir[i] EXCEPT !.exists = FALSE, !.cut = FALSE]
  <1>1. dir[i] \in Directory /\ dir \in [Images -> Directory] /\ call \in [Tasks -> Call]
    BY DEF CacheInv, CacheTypes
  <1>2. /\ d \in Directory /\ d.version = dir[i].version /\ d.kept = dir[i].kept
        /\ d.files = dir[i].files
    BY <1>1 DEF Directory
  <1>3. dir' = [dir EXCEPT ![i] = d] /\ flight' = flight /\ call' = call
    BY <1>1 DEF RemoveDir
  <1> HIDE DEF d
  <1> QED BY <1>1, <1>2, <1>3, TakenStep

LEMMA ExpireStep ==
    ASSUME CacheInv, run' = run, NEW i \in Images, Expire(i)
    PROVE  CacheInv'
  <1> DEFINE meta == [dir[i].meta EXCEPT !.fresh = FALSE]
             d == [dir[i] EXCEPT !.meta = meta]
  <1>1. dir[i] \in Directory /\ dir \in [Images -> Directory] /\ call \in [Tasks -> Call]
    BY DEF CacheInv, CacheTypes
  <1>2. dir' = [dir EXCEPT ![i] = d] /\ flight' = flight /\ call' = call
    BY <1>1 DEF Expire
  <1>3. meta \in Meta
    BY <1>1 DEF Directory, Meta
  <1> HIDE DEF meta
  <1>4. /\ d \in Directory /\ d.version = dir[i].version /\ d.kept = dir[i].kept
        /\ d.files = dir[i].files
    BY <1>1, <1>3 DEF Directory
  <1> HIDE DEF d
  <1> QED BY <1>1, <1>2, <1>4, TakenStep

\* The program ends and is started again.
LEMMA StopStep ==
    ASSUME CacheInv, NEW leave \in BOOLEAN, Stop(leave)
    PROVE  CacheInv'
  <1> DEFINE cut(i) == dir[i].cut \/ \E t \in Tasks : call[t].image = i /\ call[t].at = "fill"
  <1>1. /\ run' = run + 1 /\ run < MaxRuns
        /\ dir' = [i \in Images |-> [dir[i] EXCEPT !.cut = cut(i)]]
        /\ flight' = [i \in Images |-> None] /\ call' = [t \in Tasks |-> NoCall]
    BY DEF Stop, CacheStops
  <1> HIDE DEF cut
  <1>2. ASSUME NEW i \in Images
        PROVE  /\ dir'[i] \in Directory /\ dir'[i].files = dir[i].files
               /\ dir'[i].version = dir[i].version /\ dir'[i].kept = dir[i].kept
    <2>1. dir[i] \in Directory /\ cut(i) \in BOOLEAN
      BY DEF CacheInv, CacheTypes, Directory, cut
    <2> QED BY <1>1, <2>1 DEF Directory
  <1>3. CacheTypes'
    <2>1. dir' \in [Images -> Directory]
      BY <1>1, <1>2
    <2>2. run' \in 1 .. MaxRuns
      BY <1>1, CacheAssumption DEF CacheInv, CacheTypes
    <2>3. flight' \in [Images -> Tasks \cup {None}] /\ call' \in [Tasks -> Call]
      BY <1>1, NothingTypes
    <2> QED BY <2>1, <2>2, <2>3 DEF CacheTypes
  <1>4. ASSUME NEW t \in Tasks PROVE call'[t].at = "idle"
    BY <1>1 DEF NoCall
  <1>5. Leads'
    BY <1>4 DEF Leads, Running, Reading, Leading, Storing
  <1>6. ASSUME NEW i \in Images PROVE StoredAt(i)'
    <2>1. StoredAt(i) /\ CacheTypes
      BY DEF CacheInv, Stored
    <2>2. run + 1 \in 1 .. MaxRuns /\ run + 1 > run
      BY <1>1, <2>1, CacheAssumption DEF CacheTypes
    <2>3. dir[i].files[TempFile(run + 1)] = "none"
      BY <2>1, <2>2 DEF StoredAt
    <2>4. Temp' = TempFile(run + 1) /\ Temp' # Temp /\ Temp \in Names
      BY <1>1, <2>1, <2>2, TempFacts DEF Temp
    <2>5. ASSUME NEW t \in Tasks PROVE Phase(t, i)'
      BY <1>4 DEF Phase, Storing
    <2>6. \A r \in 1 .. MaxRuns : r > run' => dir'[i].files[TempFile(r)] = "none"
      <3>1. \A r \in 1 .. MaxRuns : r > run' => r > run
        BY <1>1, <2>1 DEF CacheTypes
      <3> QED BY <1>2, <2>1, <3>1 DEF StoredAt
    <2>7. dir[i].kept => \E n \in Names : dir[i].files[n] = "whole"
      <3>1. ASSUME dir[i].kept, NEW t \in Tasks, call[t].at = "rename", call[t].image = i
            PROVE  dir[i].files[Temp] = "whole"
        BY <2>1, <3>1 DEF StoredAt, Phase
      <3> QED BY <2>1, <2>4, <3>1 DEF StoredAt
    <2>8. dir'[i].kept => \E n \in Names \ {Temp'} : dir'[i].files[n] = "whole"
      BY <1>2, <2>3, <2>4, <2>7
    <2>9. i \in CoverArt => \A n \in Finals : n > dir'[i].version => dir'[i].files[n] = "none"
      BY <1>2, <2>1 DEF StoredAt
    <2> QED BY <2>5, <2>6, <2>8, <2>9 DEF StoredAt
  <1> QED BY <1>3, <1>5, <1>6 DEF CacheInv, Stored

-----------------------------------------------------------------------------
\* The theorem.

LEMMA InitInv ==
    ASSUME Init
    PROVE  CacheInv
  <1>1. PICK age \in [Images -> {"absent", "stale", "fresh"}] :
          \A i \in Images : dir[i] = Cached(age[i])
    BY CacheAssumption DEF Init, CacheInit
  <1>2. dir \in [Images -> Directory]
    <2>1. \E before \in Before : dir = [i \in Images |-> Cached(before[i])]
      BY DEF Init, CacheInit
    <2> QED BY <2>1, DirectoryTypes
  <1>3. /\ run = 1 /\ flight = [i \in Images |-> None] /\ call = [t \in Tasks |-> NoCall]
    BY DEF Init, CacheInit
  <1>4. CacheTypes
    <2>1. run \in 1 .. MaxRuns
      BY <1>3, CacheAssumption
    <2>2. flight \in [Images -> Tasks \cup {None}] /\ call \in [Tasks -> Call]
      BY <1>3, NothingTypes
    <2> QED BY <1>2, <2>1, <2>2 DEF CacheTypes
  <1>5. \A t \in Tasks : call[t].at = "idle"
    BY <1>3 DEF NoCall
  <1>6. Leads
    BY <1>5 DEF Leads, Running, Reading, Leading, Storing
  <1>7. ASSUME NEW i \in Images PROVE StoredAt(i)
    <2>1. \A t \in Tasks : Phase(t, i)
      BY <1>5 DEF Phase, Storing
    <2>2. 1 \in Names \ {Temp} /\ \A r \in 1 .. MaxRuns : TempFile(r) # 1 /\ TempFile(r) \in Names
      BY <1>4, NameFacts, TempFacts
    <2>3. CASE age[i] = "absent"
      <3>1. dir[i].files = [n \in Names |-> "none"] /\ ~dir[i].kept
        <4>1. dir[i] = NoDirectory
          BY <1>1, <2>3 DEF Cached
        <4> QED BY <4>1 DEF NoDirectory, NoFiles
      <3> QED BY <2>1, <2>2, <3>1, NameFacts DEF StoredAt
    <2>4. CASE age[i] # "absent"
      <3>1. /\ dir[i].files = [[n \in Names |-> "none"] EXCEPT ![1] = "whole"]
            /\ dir[i].version = 1
        <4>1. dir[i] = [NoDirectory EXCEPT !.exists = TRUE,
                                           !.meta = [name |-> 1, fresh |-> age[i] = "fresh"],
                                           !.files[1] = "whole", !.version = 1, !.kept = TRUE]
          BY <1>1, <2>4 DEF Cached
        <4>2. dir[i].files = [NoFiles EXCEPT ![1] = "whole"]
          BY <4>1 DEF NoDirectory
        <4>3. dir[i].version = 1
          BY <4>1 DEF NoDirectory
        <4> QED BY <4>2, <4>3 DEF NoFiles
      <3>2. dir[i].files[1] = "whole" /\ \A n \in Names \ {1} : dir[i].files[n] = "none"
        BY <2>2, <3>1
      <3> QED BY <2>1, <2>2, <3>1, <3>2, NameFacts DEF StoredAt
    <2> QED BY <2>3, <2>4
  <1> QED BY <1>4, <1>6, <1>7 DEF CacheInv, Stored

\* The commands leave the images to their calls.
LEMMA JobLeaves ==
    ASSUME NEW a \in Actors, JobStep(a)
    PROVE  UNCHANGED <<run, dir, flight, call>>
  <1>1. CASE ConnectStep(a)
    BY <1>1 DEF ConnectStep, LoadForConnect, ConnectAccepted, ConnectRefused, SaveSecret,
       Truncate, Write, SetSession, Reset, SetOwner, JobFails, Same, cacheVars
  <1>2. CASE BootstrapStep(a)
    BY <1>2 DEF BootstrapStep, LoadForBootstrap, BootstrapAnswered, Restore, PutQueue,
       ImportSecrets, Same, cacheVars
  <1>3. CASE LoadForDelete
    BY <1>3 DEF LoadForDelete
  <1>4. CASE DeleteSecret
    BY <1>4 DEF DeleteSecret, Same, cacheVars
  <1> QED BY <1>1, <1>2, <1>3, <1>4 DEF JobStep

LEMMA JobInv ==
    ASSUME CacheInv, NEW a \in Actors, JobStep(a)
    PROVE  CacheInv'
  BY JobLeaves, NothingStep

LEMMA NextInv ==
    ASSUME CacheInv, [Next]_vars
    PROVE  CacheInv'
  <1>1. CASE \E t \in Tasks, kind \in Kinds, i \in Images : Images_(Begin(t, kind, i))
    BY <1>1, BeginStep DEF Images_
  <1>2. CASE \E t \in Tasks : Task(t)
    <2>1. PICK t \in Tasks : TaskStep(t) /\ run' = run
      BY <1>2 DEF Task
    <2> QED BY <2>1, ReadStep, StoreStep, AnswerStep DEF TaskStep
  <1>3. CASE Images_(ClearCoverArt)
    BY <1>3, NothingStep DEF Images_, ClearCoverArt, BeginRemoval
  <1>4. CASE Remove
    <2>1. run' = run
      BY <1>4 DEF Remove
    <2>2. CASE EndRemoval
      BY <2>1, <2>2, NothingStep DEF EndRemoval
    <2>3. CASE \E i \in Images : Unlink(i)
      BY <2>1, <2>3, UnlinkStep
    <2>4. CASE \E i \in Images : RemoveDir(i)
      BY <2>1, <2>4, RemoveDirStep
    <2>5. CASE \E i \in Images : RemovalFails(i)
      BY <2>1, <2>5, NothingStep DEF RemovalFails
    <2> QED BY <1>4, <2>2, <2>3, <2>4, <2>5 DEF Remove, RemovalStep
  <1>5. CASE \E i \in Images : Expire(i) /\ UNCHANGED <<windows, run, calls, appVars>>
    BY <1>5, ExpireStep
  <1>6. CASE \E a : BeginConnect(a) \/ BeginBootstrap(a)
    BY <1>6, NothingStep DEF BeginConnect, BeginBootstrap, cacheVars
  <1>7. CASE \E a \in Actors : JobStep(a)
    BY <1>7, JobInv
  <1>8. CASE BeginDelete \/ BeginImport \/ Export \/ Play
    BY <1>8, NothingStep DEF BeginDelete, BeginRemoval, BeginImport, Export, Play, Same, cacheVars
  <1>9. CASE \E leave \in BOOLEAN : Stop(leave)
    BY <1>9, StopStep
  <1>10. CASE UNCHANGED vars
    BY <1>10, NothingStep DEF vars, cacheVars
  <1>11. FirstOf({s \in Tasks : call[s].at = "idle"}) \subseteq Tasks
    BY DEF FirstOf
  <1> QED BY <1>1, <1>2, <1>3, <1>4, <1>5, <1>6, <1>7, <1>8, <1>9, <1>10, <1>11 DEF Next

\* ImageSurvives: an image once stored is in its directory in full, under some
\* name, until it is removed, whatever fails, dies or runs at the same time
\* (store_entry, replace_file, remove_stale_artifacts).
THEOREM StoredImageSurvives == Spec => []ImageSurvives
  <1>1. Init => CacheInv
    BY InitInv
  <1>2. CacheInv /\ [Next]_vars => CacheInv'
    BY NextInv
  <1>3. CacheInv => ImageSurvives
    <2> SUFFICES ASSUME CacheInv, NEW i \in Images, dir[i].kept
                 PROVE  \E n \in Names : dir[i].files[n] = "whole"
      BY DEF ImageSurvives
    <2>1. StoredAt(i) /\ Temp \in Names
      BY TempFacts DEF CacheInv, Stored
    <2>2. ASSUME NEW t \in Tasks, call[t].at = "rename", call[t].image = i
          PROVE  dir[i].files[Temp] = "whole"
      BY <2>1, <2>2 DEF StoredAt, Phase
    <2> QED BY <2>1, <2>2 DEF StoredAt
  <1> QED BY <1>1, <1>2, <1>3, PTL DEF Spec

\* An image is fetched and stored by one call at a time (resolve_cover_art):
\* its leader, whom in_flight has for it.
Alone ==
    \A s, t \in Tasks :
        (call[s].at \in Leading /\ call[t].at \in Leading /\ call[s].image = call[t].image) => s = t

THEOREM OneStoreAtATime == Spec => []Alone
  <1>1. Init => CacheInv
    BY InitInv
  <1>2. CacheInv /\ [Next]_vars => CacheInv'
    BY NextInv
  <1>3. CacheInv => Alone
    BY OneLeader DEF Alone
  <1> QED BY <1>1, <1>2, <1>3, PTL DEF Spec

-----------------------------------------------------------------------------
(***************************************************************************)
(* Profiles, credentials, session and queue.                               *)
(***************************************************************************)
\* The types of what the app keeps.
Sessions == {NoSession} \cup [profile: Profiles, account: Accounts]
Players == [profile: Profiles \cup {None}, queue: SUBSET Profiles, deferred: BOOLEAN]
\* What a job has by its step; u are the profiles that there were.
JobTypes(j, u) ==
    /\ j.at = "idle" => j = NoJob
    /\ j.at \in {"load", "api", "images"} => ~j.ok
    /\ j.kind = "autoImport" => ~j.ok
    /\ j.kind = "connect" =>
         j.account \in Accounts /\ (j.existing => j.profile \in Profiles)
    /\ j.kind = "delete" => j.profile \in u
    /\ j.at = "owner" => j.kind = "connect"
    /\ j.at = "images" => j.kind = "delete"
    /\ j.at \in {"api", "secret", "truncate", "write"} => Listed(j.file)
    /\ j.at = "api" /\ j.kind = "bootstrap" =>
         j.profile \in Known(j.file) /\ j.account \in Accounts
    /\ j.ok => j.profile \in Profiles /\ (j.kind # "delete" => j.account \in Accounts)

AppTypes ==
    /\ job \in [Actors -> Job]
    /\ session \in Sessions /\ secrets \in Credentials
    /\ stored \in [torn: BOOLEAN, file: Contents] /\ Listed(stored.file)
    /\ Listed(backup.file) /\ backup.secrets \in Credentials
    /\ player \in Players
    /\ saved \in [profile: Profiles \cup {None}, queue: SUBSET Profiles]
    /\ used \subseteq Profiles /\ gone \subseteq used
    /\ \A a \in Actors : JobTypes(job[a], used)

OthersIdle(a) == \A b \in Actors \ {a} : job[b].at = "idle"
OneJob == \E a \in Actors : OthersIdle(a)

\* Whose queue it is while the job j runs.
QueueFits(s, p, j) ==
    /\ j.at = "owner" => p = NoPlayer
    /\ j.at \in {"restore", "put"} => s # NoSession /\ j.profile = s.profile
    /\ j.at \in {"reset", "owner"} =>
         s = NoSession \/ (j.kind = "connect" /\ j.profile = s.profile)
    /\ j.kind = "bootstrap" /\ j.at \in {"api", "truncate", "write", "session"} =>
         s = NoSession
    /\ j.kind = "import" => p.queue = {}
    /\ j.at # "reset" => IF s = NoSession THEN p.queue = {}
                         ELSE p.queue \subseteq {s.profile}
    /\ j.at \notin {"reset", "owner", "restore", "put"} =>
         s = NoSession \/ p.profile = s.profile

\* The session's profile is the one that was last active, its account that of the
\* file and of the credentials.
Restorable(s, file, sec) ==
    s # NoSession => /\ file.last = s.profile
                     /\ s.account = file.account[s.profile]
                     /\ s.account = sec[s.profile]
ConnectedAs(j) == [profile |-> j.profile, account |-> j.account]

RestoreFits(s, st, sec, j) ==
    /\ j.at # "write" /\ s # NoSession => ~st.torn
    /\ j.at \in {"session", "api"} => ~st.torn
    /\ j.at \in {"idle", "load", "api", "images", "reset", "owner", "restore", "put"} =>
         Restorable(s, st.file, sec)
    /\ j.at = "api" => j.file = st.file
    /\ j.at = "api" /\ j.kind = "bootstrap" => j.account = sec[j.profile]
    /\ j.at = "session" => j.file = st.file
    /\ j.kind = "bootstrap" /\ j.at \in {"api", "truncate", "write", "session"} =>
         s = NoSession
    /\ j.kind = "autoImport" => s = NoSession
    /\ j.kind = "delete" /\ j.at \in {"secret", "truncate", "write", "session"} =>
         j.ok = (s.profile = j.profile)
    /\ j.kind = "connect" /\ j.at = "secret" =>
         j.ok /\ Restorable(ConnectedAs(j), j.file, [sec EXCEPT ![j.profile] = j.account])
    /\ j.kind = "delete" /\ ~j.ok /\ j.at \in {"secret", "truncate", "write", "session"} =>
         Restorable(s, j.file, sec)
    /\ j.kind = "connect" /\ ~j.ok /\ j.at \in {"truncate", "write"} =>
         Restorable(s, j.file, sec)
    /\ j.kind = "connect" /\ j.at = "session" => j.ok
    /\ j.kind \in {"connect", "bootstrap"} /\ j.ok /\ j.at \in {"truncate", "write", "session"}
       => Restorable(ConnectedAs(j), j.file, sec)

\* p is not named by the file.
NotIn(file, p) == file.account[p] = None /\ file.last # p

\* What is left of the deleted profiles g while the job j runs.
GoneFits(g, s, st, sec, p, j) ==
    /\ s.profile \notin g
    /\ \A q \in g : NotIn(st.file, q) /\ sec[q] = None
    /\ p.profile \in g => j.kind = "delete" /\ j.at = "reset"
    /\ j.kind \in {"connect", "bootstrap"} /\ j.at = "api" => j.file = st.file
    /\ \/ j.at \in {"truncate", "write", "session"}
       \/ j.at = "secret" /\ j.kind \in {"connect", "delete"}
       => \A q \in g : NotIn(j.file, q)
    /\ j.kind = "connect" /\ j.at = "api" /\ j.existing => j.profile \in Known(j.file)
    /\ \/ j.kind = "connect" /\ j.at \notin {"load", "api"}
       \/ j.kind = "bootstrap" /\ j.at \notin {"load", "api", "reset"}
       => j.profile \notin g
    /\ j.kind = "delete" /\ j.at \in {"secret", "truncate", "write", "session"} =>
         j.ok = (s.profile = j.profile) /\ NotIn(j.file, j.profile)
    /\ j.kind = "delete" /\ j.at \in {"truncate", "write", "session"} => sec[j.profile] = None
    /\ j.at = "session" => st.file = j.file
    /\ j.at \in {"restore", "put"} => s # NoSession /\ j.profile = s.profile
    /\ j.at \in {"reset", "owner"} =>
         s = NoSession \/ (j.kind = "connect" /\ j.profile = s.profile)
    /\ j.at \notin {"reset", "owner", "restore", "put"} =>
         s = NoSession \/ p.profile = s.profile
    /\ j.kind = "bootstrap" /\ j.at \in {"api", "truncate", "write", "session"} =>
         s = NoSession

\* The images of the profiles g are out of a call's sight.
Spares(c, g) ==
    c.at \in Running =>
        /\ OwnerOf[c.image] \notin g /\ OwnerOf[c.exact] \notin g
        /\ \A n \in 1 .. Len(c.todo) : OwnerOf[c.todo[n]] \notin g

\* None of a profile's images is there; a removal has the covers done first.
Bare(p) == \A i \in Images : OwnerOf[i] = p => ~dir[i].exists
Clearing ==
    /\ job[Main].at = "images" <=> removal.deleting
    /\ removal.deleting => removal.at # "idle" /\ removal.profile = job[Main].profile
    /\ removal.deleting /\ removal.at = "artist" =>
         \A i \in CoverArt : OwnerOf[i] = removal.profile => ~dir[i].exists
    /\ removal.deleting /\ removal.at = "removed" => Bare(removal.profile)

Deleting == {"secret", "truncate", "write", "session"}

\* Calls run between two commands only, for images of a profile that is there.
GoneImages ==
    /\ \A p \in gone : Bare(p)
    /\ \A t \in Tasks : Spares(call[t], gone) /\ (call[t].at \in Running => Idle)
    /\ \A a \in Actors : job[a].kind = "delete" => a = Main
    /\ Clearing
    /\ job[Main].kind = "delete" /\ job[Main].at \in Deleting => Bare(job[Main].profile)

-----------------------------------------------------------------------------
\* What the job steps are made of.

LEMMA NoJobFacts ==
    /\ NoJob \in Job /\ NoJob.at = "idle" /\ NoJob.kind = "none" /\ ~NoJob.ok
    /\ Listed(NoProfiles) /\ NoSession.profile = None
    /\ NoPlayer \in Players /\ NoPlayer.queue = {} /\ NoPlayer.profile = None
    /\ \A u : JobTypes(NoJob, u)
  <1>1. NoProfiles \in Contents /\ NoProfiles.last = None
    BY DEF NoProfiles, Contents, Credentials
  <1>2. NoJob \in Job /\ NoJob.at = "idle" /\ NoJob.kind = "none" /\ ~NoJob.ok
    <2>1. NoJob = [kind |-> "none", at |-> "idle", profile |-> None, account |-> None,
                   existing |-> FALSE, ok |-> FALSE, file |-> NoProfiles]
      BY DEF NoJob
    <2> QED BY <1>1, <2>1 DEF Job
  <1>3. \A u : JobTypes(NoJob, u)
    BY <1>2 DEF JobTypes
  <1> QED BY <1>1, <1>2, <1>3 DEF Listed, NoSession, NoPlayer, Players

\* Only one job changes.
Turn(a) == job' \in [Actors -> Job] /\ \A b \in Actors \ {a} : job'[b] = job[b]

LEMMA OnlyTurn ==
    ASSUME AppTypes, NEW a \in Actors, NEW j \in Job, Only(a, j), used \subseteq used',
           JobTypes(j, used')
    PROVE  /\ Turn(a) /\ job'[a] = j
           /\ \A b \in Actors : JobTypes(job'[b], used')
  <1>1. Turn(a) /\ job'[a] = j
    BY DEF AppTypes, Only, Turn
  <1>2. ASSUME NEW b \in Actors \ {a} PROVE JobTypes(job'[b], used')
    <2>1. job'[b] = job[b] /\ JobTypes(job[b], used)
      BY <1>1 DEF Turn, AppTypes
    <2> QED BY <2>1 DEF JobTypes
  <1> QED BY <1>1, <1>2

\* The step of a job that goes on, by its fields.
JobAt(j, at) == [j EXCEPT !.at = at]

LEMMA JobFields ==
    ASSUME NEW j \in Job, NEW at \in {"idle", "load", "api", "secret", "truncate", "write",
                                      "session", "reset", "owner", "restore", "put", "images"}
    PROVE  /\ JobAt(j, at) \in Job
           /\ JobAt(j, at).kind = j.kind /\ JobAt(j, at).at = at
           /\ JobAt(j, at).profile = j.profile
           /\ JobAt(j, at).account = j.account
           /\ JobAt(j, at).existing = j.existing
           /\ JobAt(j, at).ok = j.ok
           /\ JobAt(j, at).file = j.file
  BY DEF Job, JobAt

\* The job that runs, or one of those that do not, is the only one.
LEMMA OneMoves ==
    ASSUME AppTypes, AppTypes', NEW a \in Actors, OthersIdle(a), Turn(a)
    PROVE  /\ OneJob'
           /\ \A b \in Actors : OthersIdle(b)' => job'[b] = job'[a]
  <1>1. OthersIdle(a)'
    BY DEF OthersIdle, Turn
  <1>2. ASSUME NEW b \in Actors \ {a}, OthersIdle(b)' PROVE job'[b] = job'[a]
    <2>1. job'[a].at = "idle" /\ job'[b].at = "idle"
      BY <1>1, <1>2 DEF OthersIdle
    <2>2. JobTypes(job'[a], used') /\ JobTypes(job'[b], used')
      BY DEF AppTypes
    <2> QED BY <2>1, <2>2 DEF JobTypes
  <1> QED BY <1>1, <1>2 DEF OneJob

LEMMA FileFacts ==
    ASSUME NEW file, Listed(file), NEW p \in Profiles, NEW account \in Accounts
    PROVE  /\ Listed(Connected(file, p, account)) /\ Listed(Without(file, p))
           /\ Connected(file, p, account).last = p
           /\ Connected(file, p, account).account[p] = account
           /\ NotIn(Without(file, p), p)
           /\ \A q \in Profiles \ {p} :
                /\ Connected(file, p, account).account[q] = file.account[q]
                /\ Without(file, p).account[q] = file.account[q]
                /\ NotIn(file, q) => /\ NotIn(Connected(file, p, account), q)
                                     /\ NotIn(Without(file, p), q)
                /\ file.last = q => Without(file, p).last = q
  <1> DEFINE c == Connected(file, p, account)
             w == Without(file, p)
  <1>1. file \in Contents /\ file.account \in Credentials
    BY DEF Listed, Contents
  <1>2. c \in Contents /\ c.last = p /\ c.account = [file.account EXCEPT ![p] = account]
    BY <1>1 DEF Connected, Contents, Credentials
  <1>3. /\ w \in Contents /\ w.account = [file.account EXCEPT ![p] = None]
        /\ w.last = IF file.last = p THEN None ELSE file.last
    BY <1>1 DEF Without, Contents, Credentials
  <1> HIDE DEF c, w
  <1>4. c.account[p] = account /\ \A q \in Profiles \ {p} : c.account[q] = file.account[q]
    BY <1>1, <1>2 DEF Credentials
  <1>5. w.account[p] = None /\ \A q \in Profiles \ {p} : w.account[q] = file.account[q]
    BY <1>1, <1>3 DEF Credentials
  <1>6. None \notin Profiles /\ None \notin Accounts
    BY CacheAssumption, AppAssumption
  <1>7. Listed(c)
    BY <1>2, <1>4, <1>6 DEF Listed, Known
  <1>8. Listed(w)
    <2>1. file.last = None \/ (file.last \in Profiles /\ file.account[file.last] # None)
      BY DEF Listed, Known
    <2> QED BY <1>3, <1>5, <2>1 DEF Listed, Known
  <1>9. ASSUME NEW q \in Profiles \ {p}, NotIn(file, q) PROVE NotIn(c, q) /\ NotIn(w, q)
    BY <1>2, <1>3, <1>4, <1>5, <1>6, <1>9 DEF NotIn
  <1>10. NotIn(w, p)
    BY <1>3, <1>5, <1>6 DEF NotIn
  <1>11. ASSUME NEW q \in Profiles \ {p}, file.last = q PROVE w.last = q
    BY <1>3, <1>11
  <1> QED BY <1>2, <1>4, <1>5, <1>7, <1>8, <1>9, <1>10, <1>11 DEF c, w

\* What holds while the job of a is the only one.
QueueNow(a) ==
    /\ player.profile # None => player.queue \subseteq {player.profile}
    /\ saved.profile # None => saved.queue \subseteq {saved.profile}
    /\ QueueFits(session, player, job[a])
RestoreNow(a) == RestoreFits(session, stored, secrets, job[a])
GoneNow(a) == GoneFits(gone, session, stored, secrets, player, job[a])

Works(a) ==
    /\ Closed({"overlap", "import"}) => QueueNow(a)
    /\ Closed({"overlap", "fault"}) => RestoreNow(a)
    /\ Closed({"overlap", "removal"}) => GoneNow(a)

-----------------------------------------------------------------------------
\* The steps of the jobs.

LEMMA TruncateWorks ==
    ASSUME AppTypes, NEW a \in Actors, Works(a), Truncate(a)
    PROVE  AppTypes' /\ Turn(a) /\ Works(a)'
  <1> DEFINE j == job[a]
             k == JobAt(j, "write")
  <1>1. /\ j \in Job /\ j.at = "truncate" /\ JobTypes(j, used)
        /\ Only(a, k) /\ stored' = [stored EXCEPT !.torn = TRUE]
        /\ UNCHANGED <<windows, session, secrets, backup, player, saved, used, gone>>
    BY DEF JobAt, Truncate, At, Same, AppTypes
  <1>2. /\ k \in Job /\ k.at = "write" /\ k.kind = j.kind /\ k.profile = j.profile
        /\ k.account = j.account /\ k.existing = j.existing /\ k.ok = j.ok /\ k.file = j.file
    BY <1>1, JobFields
  <1> HIDE DEF k
  <1>3. JobTypes(k, used')
    BY <1>1, <1>2 DEF JobTypes
  <1>4. Turn(a) /\ job'[a] = k /\ \A b \in Actors : JobTypes(job'[b], used')
    BY <1>1, <1>2, <1>3, OnlyTurn
  <1>5. stored' \in [torn: BOOLEAN, file: Contents] /\ stored'.torn /\ stored'.file = stored.file
    BY <1>1 DEF AppTypes
  <1>6. AppTypes'
    BY <1>1, <1>4, <1>5 DEF AppTypes, Turn
  <1>7. QueueNow(a) => QueueNow(a)'
    BY <1>1, <1>2, <1>4 DEF QueueNow, QueueFits
  <1>8. RestoreNow(a) => RestoreNow(a)'
    BY <1>1, <1>2, <1>4, <1>5 DEF RestoreNow, RestoreFits, ConnectedAs
  <1>9. GoneNow(a) => GoneNow(a)'
    BY <1>1, <1>2, <1>4, <1>5 DEF GoneNow, GoneFits
  <1> QED BY <1>1, <1>4, <1>6, <1>7, <1>8, <1>9 DEF Works, Closed

\* A step that changes the job of a and nothing else.
LEMMA JobOnly ==
    ASSUME AppTypes, NEW a \in Actors, NEW k \in Job, Only(a, k), SameData, JobTypes(k, used)
    PROVE  AppTypes' /\ Turn(a) /\ job'[a] = k
  <1>1. UNCHANGED <<session, secrets, stored, backup, player, saved, used, gone>>
    BY DEF SameData
  <1>2. Turn(a) /\ job'[a] = k /\ \A b \in Actors : JobTypes(job'[b], used')
    BY <1>1, OnlyTurn
  <1> QED BY <1>1, <1>2 DEF AppTypes, Turn

\* A job that ends with nothing done: no step that it had left is missed.
LEMMA EndsWell ==
    ASSUME AppTypes, NEW a \in Actors, Works(a), Ends(a), SameData, windows' = windows,
           job[a].at \in {"load", "images"} \/ (job[a].at = "api" /\ job[a].kind = "connect")
    PROVE  AppTypes' /\ Turn(a) /\ Works(a)'
  <1>1. AppTypes' /\ Turn(a) /\ job'[a] = NoJob
    BY JobOnly, NoJobFacts DEF Ends
  <1>2. UNCHANGED <<session, secrets, stored, backup, player, saved, used, gone>>
    BY DEF SameData
  <1>3. QueueNow(a) => QueueNow(a)'
    BY <1>1, <1>2, NoJobFacts DEF QueueNow, QueueFits
  <1>4. RestoreNow(a) => RestoreNow(a)'
    BY <1>1, <1>2, NoJobFacts DEF RestoreNow, RestoreFits
  <1>5. GoneNow(a) => GoneNow(a)'
    BY <1>1, <1>2, NoJobFacts DEF GoneNow, GoneFits
  <1> QED BY <1>1, <1>3, <1>4, <1>5 DEF Works, Closed

LEMMA LoadForConnectWorks ==
    ASSUME AppTypes, NEW a \in Actors, Works(a), LoadForConnect(a)
    PROVE  AppTypes' /\ Turn(a) /\ Works(a)'
  <1> DEFINE j == job[a]
             k == [j EXCEPT !.at = "api", !.file = stored.file]
  <1>1. /\ j \in Job /\ j.at = "load" /\ j.kind = "connect" /\ JobTypes(j, used)
        /\ Listed(stored.file) /\ stored.file \in Contents
        /\ SameData /\ windows' = windows
    BY DEF LoadForConnect, At, Same, AppTypes
  <1>2. CASE Ends(a)
    BY <1>1, <1>2, EndsWell
  <1>3. CASE ~stored.torn /\ (j.existing => j.profile \in Known(stored.file)) /\ Only(a, k)
    <2>1. /\ k \in Job /\ k.at = "api" /\ k.kind = j.kind /\ k.profile = j.profile
          /\ k.account = j.account /\ k.existing = j.existing /\ k.ok = j.ok
          /\ k.file = stored.file
      BY <1>1 DEF Job
    <2> HIDE DEF k
    <2>2. JobTypes(k, used)
      BY <1>1, <2>1 DEF JobTypes
    <2>3. AppTypes' /\ Turn(a) /\ job'[a] = k
      BY <1>1, <1>3, <2>1, <2>2, JobOnly
    <2>4. UNCHANGED <<session, secrets, stored, backup, player, saved, used, gone>>
      BY <1>1 DEF SameData
    <2>5. QueueNow(a) => QueueNow(a)'
      BY <1>1, <2>1, <2>3, <2>4 DEF QueueNow, QueueFits
    <2>6. RestoreNow(a) => RestoreNow(a)'
      BY <1>1, <1>3, <2>1, <2>3, <2>4 DEF RestoreNow, RestoreFits, ConnectedAs
    <2>7. GoneNow(a) => GoneNow(a)'
      BY <1>1, <1>3, <2>1, <2>3, <2>4 DEF GoneNow, GoneFits
    <2> QED BY <1>1, <2>3, <2>5, <2>6, <2>7 DEF Works, Closed
  <1> QED BY <1>2, <1>3 DEF LoadForConnect

LEMMA ConnectAcceptedWorks ==
    ASSUME AppTypes, NEW a \in Actors, Works(a), ConnectAccepted(a)
    PROVE  AppTypes' /\ Turn(a) /\ Works(a)'
  <1> DEFINE j == job[a]
  <1>1. /\ j \in Job /\ j.at = "api" /\ j.kind = "connect" /\ JobTypes(j, used)
        /\ Listed(j.file) /\ j.account \in Accounts
        /\ UNCHANGED <<windows, session, secrets, stored, backup, player, saved, gone>>
        /\ used \subseteq Profiles /\ gone \subseteq used
    BY DEF ConnectAccepted, At, Same, AppTypes, JobTypes
  <1>2. CASE Ends(a) /\ UNCHANGED used
    BY <1>1, <1>2, EndsWell DEF SameData
  <1>3. ASSUME NEW p \in IF j.existing THEN {j.profile} ELSE Profiles \ used,
               Only(a, [j EXCEPT !.at = "secret", !.ok = TRUE, !.profile = p,
                                 !.file = Connected(@, p, j.account)]),
               used' = used \cup {p}
        PROVE  AppTypes' /\ Turn(a) /\ Works(a)'
    <2> DEFINE file == Connected(j.file, p, j.account)
               k == [j EXCEPT !.at = "secret", !.ok = TRUE, !.profile = p, !.file = file]
    <2>1. p \in Profiles
      BY <1>1, <1>3 DEF JobTypes
    <2>2. /\ Listed(file) /\ file.last = p /\ file.account[p] = j.account
          /\ \A q \in Profiles \ {p} : NotIn(j.file, q) => NotIn(file, q)
      BY <1>1, <2>1, FileFacts
    <2>3. file \in Contents /\ Only(a, k)
      BY <1>3, <2>2 DEF Listed
    <2> HIDE DEF file
    <2>4. /\ k \in Job /\ k.at = "secret" /\ k.kind = j.kind /\ k.profile = p
          /\ k.account = j.account /\ k.existing = j.existing /\ k.ok = TRUE /\ k.file = file
      BY <1>1, <2>1, <2>3 DEF Job
    <2> HIDE DEF k
    <2>5. JobTypes(k, used')
      BY <1>1, <2>1, <2>2, <2>4 DEF JobTypes
    <2>6. used \subseteq used'
      BY <1>3
    <2>7. Turn(a) /\ job'[a] = k /\ \A b \in Actors : JobTypes(job'[b], used')
      BY <2>3, <2>4, <2>5, <2>6, OnlyTurn
    <2>8. AppTypes'
      BY <1>1, <1>3, <2>1, <2>7 DEF AppTypes, Turn
    <2>9. QueueNow(a) => QueueNow(a)'
      BY <1>1, <2>4, <2>7 DEF QueueNow, QueueFits
    <2>10. RestoreNow(a) => RestoreNow(a)'
      <3>1. Restorable(ConnectedAs(k), file, [secrets EXCEPT ![p] = j.account])
        BY <2>1, <2>2, <2>4 DEF Restorable, ConnectedAs, AppTypes, Credentials
      <3> QED BY <1>1, <2>4, <2>7, <3>1 DEF RestoreNow, RestoreFits
    <2>11. GoneNow(a) => GoneNow(a)'
      <3> SUFFICES ASSUME GoneNow(a) PROVE GoneNow(a)'
        OBVIOUS
      <3>1. p \notin gone
        <4>1. CASE j.existing
          BY <1>1, <1>3, <4>1 DEF GoneNow, GoneFits, Known, NotIn
        <4>2. CASE ~j.existing
          BY <1>1, <1>3, <4>2
        <4> QED BY <4>1, <4>2
      <3>2. \A q \in gone : NotIn(file, q)
        <4>1. \A q \in gone : NotIn(j.file, q) /\ q \in Profiles \ {p}
          BY <1>1, <3>1 DEF GoneNow, GoneFits
        <4> QED BY <2>2, <4>1
      <3> QED BY <1>1, <2>4, <2>7, <3>1, <3>2 DEF GoneNow, GoneFits
    <2> QED BY <1>1, <2>7, <2>8, <2>9, <2>10, <2>11 DEF Works, Closed
  <1> QED BY <1>1, <1>2, <1>3 DEF ConnectAccepted

LEMMA ConnectRefusedWorks ==
    ASSUME AppTypes, NEW a \in Actors, Works(a), ConnectRefused(a)
    PROVE  AppTypes' /\ Turn(a) /\ Works(a)'
  <1> DEFINE j == job[a]
             k == JobAt(j, "truncate")
  <1>1. /\ j \in Job /\ j.at = "api" /\ j.kind = "connect" /\ JobTypes(j, used)
        /\ SameData /\ windows' = windows
    BY DEF ConnectRefused, At, Same, AppTypes
  <1>2. CASE Ends(a)
    BY <1>1, <1>2, EndsWell
  <1>3. CASE j.existing /\ Only(a, k)
    <2>1. /\ k \in Job /\ k.at = "truncate" /\ k.kind = j.kind /\ k.profile = j.profile
          /\ k.account = j.account /\ k.existing = j.existing /\ k.ok = j.ok /\ k.file = j.file
      BY <1>1, JobFields
    <2> HIDE DEF k
    <2>2. JobTypes(k, used)
      BY <1>1, <2>1 DEF JobTypes
    <2>3. AppTypes' /\ Turn(a) /\ job'[a] = k
      BY <1>1, <1>3, <2>1, <2>2, JobOnly
    <2>4. UNCHANGED <<session, secrets, stored, backup, player, saved, used, gone>>
      BY <1>1 DEF SameData
    <2>5. QueueNow(a) => QueueNow(a)'
      BY <1>1, <2>1, <2>3, <2>4 DEF QueueNow, QueueFits
    <2>6. RestoreNow(a) => RestoreNow(a)'
      BY <1>1, <2>1, <2>3, <2>4 DEF RestoreNow, RestoreFits, ConnectedAs, JobTypes
    <2>7. GoneNow(a) => GoneNow(a)'
      <3>1. GoneNow(a) => j.profile \notin gone
        BY <1>1, <1>3 DEF GoneNow, GoneFits, Known, NotIn
      <3> QED BY <1>1, <1>3, <2>1, <2>3, <2>4, <3>1 DEF GoneNow, GoneFits
    <2> QED BY <1>1, <2>3, <2>5, <2>6, <2>7 DEF Works, Closed
  <1> QED BY <1>2, <1>3 DEF JobAt, ConnectRefused

LEMMA SaveSecretWorks ==
    ASSUME AppTypes, NEW a \in Actors, Works(a), SaveSecret(a)
    PROVE  AppTypes' /\ Turn(a) /\ Works(a)'
  <1> DEFINE j == job[a]
             k == JobAt(j, "truncate")
  <1>1. /\ j \in Job /\ j.at = "secret" /\ j.kind = "connect" /\ JobTypes(j, used)
        /\ j.account \in Accounts
        /\ Only(a, k) /\ secrets' = [secrets EXCEPT ![j.profile] = j.account]
        /\ UNCHANGED <<windows, session, stored, backup, player, saved, used, gone>>
    BY DEF JobAt, SaveSecret, At, Same, AppTypes, JobTypes
  <1>2. /\ k \in Job /\ k.at = "truncate" /\ k.kind = j.kind /\ k.profile = j.profile
        /\ k.account = j.account /\ k.existing = j.existing /\ k.ok = j.ok /\ k.file = j.file
    BY <1>1, JobFields
  <1> HIDE DEF k
  <1>3. JobTypes(k, used')
    BY <1>1, <1>2 DEF JobTypes
  <1>4. Turn(a) /\ job'[a] = k /\ \A b \in Actors : JobTypes(job'[b], used')
    BY <1>1, <1>2, <1>3, OnlyTurn
  <1>5. secrets' \in Credentials /\ \A q \in Profiles \ {j.profile} : secrets'[q] = secrets[q]
    BY <1>1 DEF AppTypes, Credentials
  <1>6. AppTypes'
    BY <1>1, <1>4, <1>5 DEF AppTypes, Turn
  <1>7. QueueNow(a) => QueueNow(a)'
    BY <1>1, <1>2, <1>4 DEF QueueNow, QueueFits
  <1>8. RestoreNow(a) => RestoreNow(a)'
    BY <1>1, <1>2, <1>4 DEF RestoreNow, RestoreFits, ConnectedAs
  <1>9. GoneNow(a) => GoneNow(a)'
    <2> SUFFICES ASSUME GoneNow(a) PROVE GoneNow(a)'
      OBVIOUS
    <2>1. \A q \in gone : q \in Profiles \ {j.profile} /\ secrets[q] = None
      BY <1>1 DEF GoneNow, GoneFits, AppTypes
    <2>2. \A q \in gone : secrets'[q] = None
      BY <1>5, <2>1
    <2> QED BY <1>1, <1>2, <1>4, <2>2 DEF GoneNow, GoneFits
  <1> QED BY <1>1, <1>4, <1>6, <1>7, <1>8, <1>9 DEF Works, Closed

LEMMA WriteWorks ==
    ASSUME AppTypes, NEW a \in Actors, Works(a), Write(a)
    PROVE  AppTypes' /\ Turn(a) /\ Works(a)'
  <1> DEFINE j == job[a]
             at == IF j.kind = "autoImport" THEN "load" ELSE "session"
             kind == IF j.kind = "autoImport" THEN "bootstrap" ELSE j.kind
             k == [j EXCEPT !.at = at, !.kind = kind]
  <1>1. /\ j \in Job /\ j.at = "write" /\ JobTypes(j, used) /\ Listed(j.file)
        /\ j.file \in Contents
        /\ stored' = [torn |-> FALSE, file |-> j.file]
        /\ UNCHANGED <<windows, session, secrets, backup, player, saved, used, gone>>
    BY DEF Write, At, Same, AppTypes, JobTypes, Listed
  <1>2. stored' \in [torn: BOOLEAN, file: Contents] /\ ~stored'.torn /\ stored'.file = j.file
    BY <1>1
  <1>3. CASE j.kind = "connect" /\ ~j.ok /\ Ends(a)
    <2>1. Turn(a) /\ job'[a] = NoJob /\ \A b \in Actors : JobTypes(job'[b], used')
      BY <1>1, <1>3, NoJobFacts, OnlyTurn DEF Ends
    <2>2. AppTypes'
      BY <1>1, <1>2, <2>1 DEF AppTypes, Turn
    <2>3. QueueNow(a) => QueueNow(a)'
      BY <1>1, <2>1, NoJobFacts DEF QueueNow, QueueFits
    <2>4. RestoreNow(a) => RestoreNow(a)'
      BY <1>1, <1>2, <1>3, <2>1, NoJobFacts DEF RestoreNow, RestoreFits
    <2>5. GoneNow(a) => GoneNow(a)'
      BY <1>1, <1>2, <1>3, <2>1, NoJobFacts DEF GoneNow, GoneFits
    <2> QED BY <1>1, <2>1, <2>2, <2>3, <2>4, <2>5 DEF Works, Closed
  <1>4. CASE ~(j.kind = "connect" /\ ~j.ok) /\ Only(a, k)
    <2>1. /\ at \in {"load", "session"} /\ kind \in {j.kind, "bootstrap"}
          /\ j.kind = "autoImport" => at = "load" /\ kind = "bootstrap"
          /\ j.kind # "autoImport" => at = "session" /\ kind = j.kind
      OBVIOUS
    <2> HIDE DEF at, kind
    <2>2. /\ k \in Job /\ k.at = at /\ k.kind = kind /\ k.profile = j.profile
          /\ k.account = j.account /\ k.existing = j.existing /\ k.ok = j.ok /\ k.file = j.file
      BY <1>1, <2>1 DEF Job
    <2> HIDE DEF k
    <2>3. JobTypes(k, used')
      BY <1>1, <2>1, <2>2 DEF JobTypes
    <2>4. Turn(a) /\ job'[a] = k /\ \A b \in Actors : JobTypes(job'[b], used')
      BY <1>1, <1>4, <2>2, <2>3, OnlyTurn
    <2>5. AppTypes'
      BY <1>1, <1>2, <2>4 DEF AppTypes, Turn
    <2>6. QueueNow(a) => QueueNow(a)'
      BY <1>1, <2>1, <2>2, <2>4 DEF QueueNow, QueueFits
    <2>7. RestoreNow(a) => RestoreNow(a)'
      <3>1. CASE j.kind = "autoImport"
        BY <1>1, <1>2, <2>1, <2>2, <2>4, <3>1 DEF RestoreNow, RestoreFits, Restorable, JobTypes
      <3>2. CASE j.kind # "autoImport"
        BY <1>1, <1>2, <1>4, <2>1, <2>2, <2>4, <3>2 DEF RestoreNow, RestoreFits, ConnectedAs
      <3> QED BY <3>1, <3>2
    <2>8. GoneNow(a) => GoneNow(a)'
      BY <1>1, <1>2, <2>1, <2>2, <2>4 DEF GoneNow, GoneFits
    <2> QED BY <1>1, <2>4, <2>5, <2>6, <2>7, <2>8 DEF Works, Closed
  <1>5. (j.kind = "connect" /\ ~j.ok /\ Ends(a)) \/ (~(j.kind = "connect" /\ ~j.ok) /\ Only(a, k))
    BY DEF Write
  <1> QED BY <1>3, <1>4, <1>5

LEMMA JobFailsWorks ==
    ASSUME AppTypes, NEW a \in Actors, Works(a), JobFails(a)
    PROVE  AppTypes' /\ Turn(a) /\ Works(a)'
  <1> DEFINE j == job[a]
             boot == [NoJob EXCEPT !.kind = "bootstrap", !.at = "load"]
             k == IF j.kind = "autoImport" THEN boot ELSE NoJob
  <1>1. /\ \/ j.at \in {"secret", "truncate", "write"}
           \/ j.at = "session" /\ j.kind = "import"
        /\ Only(a, k) /\ SameData /\ windows' = windows
        /\ ~Closed({"overlap", "fault"})
    BY DEF JobFails, At, Same, Ends, Closed, Open
  <1>2. /\ boot \in Job /\ boot.at = "load" /\ boot.kind = "bootstrap" /\ ~boot.ok
    BY NoJobFacts DEF Job
  <1> HIDE DEF boot
  <1>3. k \in {boot, NoJob} /\ k \in Job /\ JobTypes(k, used)
    BY <1>2, NoJobFacts DEF JobTypes
  <1> HIDE DEF k
  <1>4. AppTypes' /\ Turn(a) /\ job'[a] = k
    BY <1>1, <1>3, JobOnly
  <1>5. UNCHANGED <<session, secrets, stored, backup, player, saved, used, gone>>
    BY <1>1 DEF SameData
  <1>6. QueueNow(a) => QueueNow(a)'
    BY <1>1, <1>2, <1>3, <1>4, <1>5, NoJobFacts DEF QueueNow, QueueFits
  <1>7. GoneNow(a) => GoneNow(a)'
    BY <1>1, <1>2, <1>3, <1>4, <1>5, NoJobFacts DEF GoneNow, GoneFits
  <1> QED BY <1>1, <1>4, <1>6, <1>7 DEF Works, Closed

LEMMA SetSessionWorks ==
    ASSUME AppTypes, NEW a \in Actors, Works(a), SetSession(a)
    PROVE  AppTypes' /\ Turn(a) /\ Works(a)'
  <1> DEFINE j == job[a]
             asked == j.kind \in {"connect", "bootstrap"} /\ j.ok
             spared == j.kind = "delete" /\ ~j.ok
             s == IF asked THEN ConnectedAs(j) ELSE IF spared THEN session ELSE NoSession
             to(at) == JobAt(j, at)
             g == IF j.kind = "delete" THEN gone \cup {j.profile} ELSE gone
  <1>1. /\ j \in Job /\ j.at = "session" /\ JobTypes(j, used)
        /\ session' = s /\ gone' = g
        /\ UNCHANGED <<windows, secrets, stored, backup, player, saved, used>>
    BY DEF SetSession, At, Same, AppTypes, ConnectedAs
  <1>2. /\ j.kind = "import" => Ends(a)
        /\ j.kind = "bootstrap" /\ j.ok => Only(a, to("restore"))
        /\ j.kind = "delete" /\ session' # NoSession => Ends(a)
        /\ \/ j.kind \in {"none", "connect", "autoImport"}
           \/ j.kind = "bootstrap" /\ ~j.ok
           \/ j.kind = "delete" /\ session' = NoSession
           => Only(a, to("reset"))
    BY <1>1 DEF JobAt, SetSession
  <1>3. /\ s \in Sessions /\ (asked => s # NoSession /\ s.profile = j.profile)
        /\ NoSession.profile = None /\ None \notin Profiles
    <2>1. CASE asked
      BY <1>1, <2>1, CacheAssumption DEF JobTypes, ConnectedAs, Sessions, NoSession
    <2>2. CASE ~asked
      BY <2>2, CacheAssumption DEF AppTypes, Sessions, NoSession
    <2> QED BY <2>1, <2>2
  <1>4. g \subseteq used /\ used \subseteq Profiles
    BY <1>1 DEF JobTypes, AppTypes
  <1>5. ASSUME NEW at \in {"reset", "restore"}
        PROVE  /\ to(at) \in Job /\ to(at).at = at /\ to(at).kind = j.kind
               /\ to(at).profile = j.profile /\ to(at).account = j.account
               /\ to(at).existing = j.existing /\ to(at).ok = j.ok /\ to(at).file = j.file
               /\ JobTypes(to(at), used')
    <2>1. /\ to(at) \in Job /\ to(at).at = at /\ to(at).kind = j.kind
          /\ to(at).profile = j.profile /\ to(at).account = j.account
          /\ to(at).existing = j.existing /\ to(at).ok = j.ok /\ to(at).file = j.file
      <3>1. at \in {"idle", "load", "api", "secret", "truncate", "write",
                    "session", "reset", "owner", "restore", "put", "images"}
        OBVIOUS
      <3> QED BY <1>1, <3>1, JobFields
    <2> HIDE DEF to
    <2> QED BY <1>1, <2>1 DEF JobTypes
  <1> HIDE DEF to
  <1>6. j.kind \in {"none", "connect", "bootstrap", "autoImport", "delete", "import"}
    BY <1>1 DEF Job
  <1>7. PICK k \in Job : /\ Only(a, k) /\ JobTypes(k, used') /\ k.at \in {"idle", "reset", "restore"}
                         /\ k.at = "idle" => k = NoJob
                                             /\ \/ j.kind = "import" /\ s = NoSession
                                                \/ spared /\ s = session /\ s # NoSession
                         /\ k.at # "idle" => k.kind = j.kind /\ k.profile = j.profile
                         /\ k.at = "restore" => j.kind = "bootstrap" /\ asked
                         /\ k.at = "reset" => s = NoSession \/ (j.kind = "connect" /\ asked)
    <2>1. CASE j.kind = "import"
      BY <1>1, <1>2, <2>1, NoJobFacts DEF Ends
    <2>2. CASE j.kind = "bootstrap" /\ j.ok
      <3>1. to("restore") \in Job /\ Only(a, to("restore"))
        BY <1>2, <1>5, <2>2
      <3> QED BY <1>5, <2>2, <3>1
    <2>3. CASE j.kind = "delete" /\ session' # NoSession
      BY <1>1, <1>2, <2>3, NoJobFacts DEF Ends
    <2>4. CASE \/ j.kind \in {"none", "connect", "autoImport"}
               \/ j.kind = "bootstrap" /\ ~j.ok
               \/ j.kind = "delete" /\ session' = NoSession
      <3>1. to("reset") \in Job /\ Only(a, to("reset"))
        BY <1>2, <1>5, <2>4
      <3>2. s = NoSession \/ (j.kind = "connect" /\ asked)
        BY <1>1, <2>4
      <3> QED BY <1>5, <3>1, <3>2
    <2> QED BY <1>6, <2>1, <2>2, <2>3, <2>4
  <1>8. Turn(a) /\ job'[a] = k /\ \A b \in Actors : JobTypes(job'[b], used')
    BY <1>1, <1>7, OnlyTurn
  <1>9. AppTypes'
    BY <1>1, <1>3, <1>4, <1>8 DEF AppTypes, Turn
  <1> HIDE DEF s, g
  <1>10. /\ asked => s = ConnectedAs(j)
         /\ spared => s = session
         /\ ~asked /\ ~spared => s = NoSession
    BY DEF s
  <1>11. QueueNow(a) => QueueNow(a)'
    <2> SUFFICES ASSUME QueueNow(a) PROVE QueueFits(s, player, k)
      BY <1>1, <1>8 DEF QueueNow
    <2>1. CASE k.at = "idle"
      BY <1>1, <1>7, <2>1, NoJobFacts DEF QueueNow, QueueFits
    <2>2. CASE k.at = "restore"
      BY <1>1, <1>3, <1>7, <2>2 DEF QueueNow, QueueFits
    <2>3. CASE k.at = "reset"
      BY <1>1, <1>3, <1>7, <2>3 DEF QueueNow, QueueFits
    <2> QED BY <1>7, <2>1, <2>2, <2>3
  <1>12. RestoreNow(a) => RestoreNow(a)'
    <2> SUFFICES ASSUME RestoreNow(a) PROVE RestoreFits(s, stored, secrets, k)
      BY <1>1, <1>8 DEF RestoreNow
    <2>1. Restorable(s, stored.file, secrets)
      BY <1>1, <1>10 DEF RestoreNow, RestoreFits, Restorable
    <2>2. ~stored.torn
      BY <1>1 DEF RestoreNow, RestoreFits
    <2> QED BY <1>7, <2>1, <2>2, NoJobFacts DEF RestoreFits
  <1>13. GoneNow(a) => GoneNow(a)'
    <2> SUFFICES ASSUME GoneNow(a) PROVE GoneFits(g, s, stored, secrets, player, k)
      BY <1>1, <1>8 DEF GoneNow
    <2>1. \A q \in g : NotIn(stored.file, q) /\ secrets[q] = None
      BY <1>1 DEF GoneNow, GoneFits, g
    <2>2. s.profile \notin g
      BY <1>1, <1>3, <1>4, <1>10 DEF GoneNow, GoneFits, g
    <2>3. player.profile \in g => k.kind = "delete" /\ k.at = "reset"
      BY <1>1, <1>3, <1>7, <1>10, <2>2 DEF GoneNow, GoneFits, g
    <2>4. k.kind \in {"connect", "bootstrap"} => k.profile \notin g
      BY <1>1, <1>7, NoJobFacts DEF GoneNow, GoneFits, g
    <2> QED BY <1>1, <1>3, <1>7, <2>1, <2>2, <2>3, <2>4, NoJobFacts DEF GoneNow, GoneFits
  <1> QED BY <1>1, <1>8, <1>9, <1>11, <1>12, <1>13 DEF Works, Closed

LEMMA ResetWorks ==
    ASSUME AppTypes, NEW a \in Actors, Works(a), Reset(a)
    PROVE  AppTypes' /\ Turn(a) /\ Works(a)'
  <1> DEFINE j == job[a]
             k == JobAt(j, "owner")
  <1>1. /\ j \in Job /\ j.at = "reset" /\ JobTypes(j, used) /\ player' = NoPlayer
        /\ UNCHANGED <<windows, session, secrets, stored, backup, saved, used, gone>>
        /\ player'.profile = None /\ player'.queue = {} /\ player' \in Players
        /\ IF j.kind = "connect" THEN Only(a, k) ELSE Only(a, NoJob)
    BY NoJobFacts DEF JobAt, Reset, At, Same, AppTypes, Ends
  <1>2. /\ k \in Job /\ k.at = "owner" /\ k.kind = j.kind /\ k.profile = j.profile
        /\ k.account = j.account /\ k.existing = j.existing /\ k.ok = j.ok /\ k.file = j.file
    BY <1>1, JobFields
  <1> HIDE DEF k
  <1>3. j.kind = "connect" => JobTypes(k, used')
    BY <1>1, <1>2 DEF JobTypes
  <1> DEFINE n == IF j.kind = "connect" THEN k ELSE NoJob
  <1>4. Turn(a) /\ job'[a] = n /\ \A b \in Actors : JobTypes(job'[b], used')
    <2>1. n \in Job /\ Only(a, n) /\ JobTypes(n, used') /\ used \subseteq used'
      BY <1>1, <1>2, <1>3, NoJobFacts
    <2> HIDE DEF n
    <2> QED BY <2>1, OnlyTurn
  <1>5. AppTypes'
    BY <1>1, <1>4 DEF AppTypes, Turn
  <1>6. QueueNow(a) => QueueNow(a)'
    BY <1>1, <1>2, <1>4, NoJobFacts DEF QueueNow, QueueFits
  <1>7. RestoreNow(a) => RestoreNow(a)'
    BY <1>1, <1>2, <1>4, NoJobFacts DEF RestoreNow, RestoreFits
  <1>8. GoneNow(a) => GoneNow(a)'
    <2>1. None \notin gone
      BY CacheAssumption DEF AppTypes
    <2> QED BY <1>1, <1>2, <1>4, <2>1, NoJobFacts DEF GoneNow, GoneFits
  <1> QED BY <1>1, <1>4, <1>5, <1>6, <1>7, <1>8 DEF Works, Closed

\* A job that ends with a player's state that fits the session.
LEMMA EndsWithPlayer ==
    ASSUME AppTypes, NEW a \in Actors, Works(a), Ends(a), player' \in Players,
           job[a].at \in {"owner", "restore", "put"},
           player'.profile = job[a].profile,
           \/ player'.queue = player.queue
           \/ job[a].at = "put" /\ saved.profile = job[a].profile /\ player'.queue = saved.queue,
           UNCHANGED <<windows, session, secrets, stored, backup, saved, used, gone>>
    PROVE  AppTypes' /\ Turn(a) /\ Works(a)'
  <1>1. Turn(a) /\ job'[a] = NoJob /\ \A b \in Actors : JobTypes(job'[b], used')
    BY OnlyTurn, NoJobFacts DEF Ends
  <1>2. AppTypes'
    BY <1>1 DEF AppTypes, Turn
  <1>3. job[a].kind \in {"connect", "bootstrap"} \/ job[a].kind \notin {"connect", "bootstrap"}
    OBVIOUS
  <1>4. session \in Sessions /\ None \notin Profiles /\ NoSession.profile = None
    BY CacheAssumption, NoJobFacts DEF AppTypes
  <1>5. QueueNow(a) => QueueNow(a)'
    <2> SUFFICES ASSUME QueueNow(a) PROVE QueueNow(a)'
      OBVIOUS
    <2> DEFINE p == job[a].profile
    <2>1. session = NoSession \/ p = session.profile
      BY DEF QueueNow, QueueFits
    <2>2. IF session = NoSession THEN player.queue = {} ELSE player.queue \subseteq {session.profile}
      BY DEF QueueNow, QueueFits
    <2>3. session = NoSession => job[a].at = "owner" /\ player.queue = {}
      BY DEF QueueNow, QueueFits
    <2>4. p # None => player'.queue \subseteq {p}
      BY <2>1, <2>2, <2>3 DEF QueueNow, QueueFits
    <2>5. IF session = NoSession THEN player'.queue = {}
          ELSE player'.queue \subseteq {session.profile}
      BY <1>4, <2>1, <2>2, <2>3, <2>4 DEF QueueNow, QueueFits, Sessions
    <2> QED BY <1>1, <1>4, <2>1, <2>4, <2>5, NoJobFacts DEF QueueNow, QueueFits
  <1>6. RestoreNow(a) => RestoreNow(a)'
    BY <1>1, NoJobFacts DEF RestoreNow, RestoreFits
  <1>7. GoneNow(a) => GoneNow(a)'
    <2>1. JobTypes(job[a], used)
      BY DEF AppTypes
    <2>2. GoneNow(a) => job[a].profile \notin gone
      BY <2>1 DEF GoneNow, GoneFits, JobTypes
    <2>3. GoneNow(a) => session = NoSession \/ job[a].profile = session.profile
      BY <2>1 DEF GoneNow, GoneFits, JobTypes
    <2> QED BY <1>1, <2>2, <2>3, NoJobFacts DEF GoneNow, GoneFits
  <1> QED BY <1>1, <1>2, <1>5, <1>6, <1>7 DEF Works, Closed

LEMMA SetOwnerWorks ==
    ASSUME AppTypes, NEW a \in Actors, Works(a), SetOwner(a)
    PROVE  AppTypes' /\ Turn(a) /\ Works(a)'
  <1>1. /\ job[a].at = "owner" /\ Ends(a)
        /\ player' = [player EXCEPT !.profile = job[a].profile, !.deferred = FALSE]
        /\ UNCHANGED <<windows, session, secrets, stored, backup, saved, used, gone>>
        /\ player \in Players /\ job[a].profile \in Profiles \cup {None}
    BY DEF SetOwner, At, Same, AppTypes, Job
  <1>2. player' \in Players /\ player'.profile = job[a].profile /\ player'.queue = player.queue
    BY <1>1 DEF Players
  <1> QED BY <1>1, <1>2, EndsWithPlayer

LEMMA RestoreWorks ==
    ASSUME AppTypes, NEW a \in Actors, Works(a), Restore(a)
    PROVE  AppTypes' /\ Turn(a) /\ Works(a)'
  <1> DEFINE j == job[a]
             k == JobAt(j, "put")
  <1>1. /\ j \in Job /\ j.at = "restore" /\ JobTypes(j, used)
        /\ UNCHANGED <<windows, session, secrets, stored, backup, saved, used, gone>>
        /\ player \in Players /\ j.profile \in Profiles \cup {None}
    BY DEF Restore, At, Same, AppTypes, Job
  <1>2. CASE Ends(a) /\ player' = [player EXCEPT !.profile = j.profile, !.deferred = TRUE]
    <2>1. player' \in Players /\ player'.profile = j.profile /\ player'.queue = player.queue
      BY <1>1, <1>2 DEF Players
    <2> QED BY <1>1, <1>2, <2>1, EndsWithPlayer
  <1>3. CASE Ends(a) /\ player' = player /\ player.profile = j.profile
    BY <1>1, <1>3, EndsWithPlayer
  <1>4. CASE Only(a, k) /\ player' = player
    <2>1. /\ k \in Job /\ k.at = "put" /\ k.kind = j.kind /\ k.profile = j.profile
          /\ k.account = j.account /\ k.existing = j.existing /\ k.ok = j.ok /\ k.file = j.file
      BY <1>1, JobFields
    <2> HIDE DEF k
    <2>2. JobTypes(k, used)
      BY <1>1, <2>1 DEF JobTypes
    <2>3. AppTypes' /\ Turn(a) /\ job'[a] = k
      BY <1>1, <1>4, <2>1, <2>2, JobOnly DEF SameData
    <2>4. QueueNow(a) => QueueNow(a)'
      BY <1>1, <1>4, <2>1, <2>3 DEF QueueNow, QueueFits
    <2>5. RestoreNow(a) => RestoreNow(a)'
      BY <1>1, <1>4, <2>1, <2>3 DEF RestoreNow, RestoreFits
    <2>6. GoneNow(a) => GoneNow(a)'
      BY <1>1, <1>4, <2>1, <2>3 DEF GoneNow, GoneFits
    <2> QED BY <1>1, <2>3, <2>4, <2>5, <2>6 DEF Works, Closed
  <1> QED BY <1>2, <1>3, <1>4 DEF JobAt, Restore

LEMMA PutQueueWorks ==
    ASSUME AppTypes, NEW a \in Actors, Works(a), PutQueue(a)
    PROVE  AppTypes' /\ Turn(a) /\ Works(a)'
  <1> DEFINE p == job[a].profile
             queue == IF saved.profile = p THEN saved.queue ELSE player.queue
  <1>1. /\ job[a].at = "put" /\ Ends(a)
        /\ player' = [profile |-> p, deferred |-> FALSE, queue |-> queue]
        /\ UNCHANGED <<windows, session, secrets, stored, backup, saved, used, gone>>
        /\ player.queue \subseteq Profiles /\ saved.queue \subseteq Profiles
        /\ p \in Profiles \cup {None}
    BY DEF PutQueue, At, Same, AppTypes, Job, Players
  <1>2. queue \in SUBSET Profiles
    BY <1>1
  <1>3. queue = player.queue \/ (saved.profile = p /\ queue = saved.queue)
    OBVIOUS
  <1> HIDE DEF queue
  <1>4. player' \in Players /\ player'.profile = p /\ player'.queue = queue
    BY <1>1, <1>2 DEF Players
  <1> QED BY <1>1, <1>3, <1>4, EndsWithPlayer

LEMMA LoadForBootstrapWorks ==
    ASSUME AppTypes, NEW a \in Actors, Works(a), LoadForBootstrap(a)
    PROVE  AppTypes' /\ Turn(a) /\ Works(a)'
  <1> DEFINE j == job[a]
             p == stored.file.last
  <1>1. /\ j \in Job /\ j.at = "load" /\ j.kind = "bootstrap" /\ JobTypes(j, used) /\ ~j.ok
        /\ SameData /\ windows' = windows
        /\ UNCHANGED <<session, secrets, stored, backup, player, saved, used, gone>>
        /\ Listed(stored.file) /\ stored.file \in Contents
        /\ p \in Profiles \cup {None}
        /\ session \in Sessions /\ secrets \in Credentials
    BY DEF LoadForBootstrap, At, Same, AppTypes, JobTypes, SameData, Contents
  <1>2. CASE Ends(a)
    BY <1>1, <1>2, EndsWell
  <1>3. CASE /\ ~stored.torn /\ session # NoSession
             /\ Only(a, [j EXCEPT !.at = "restore", !.profile = session.profile])
    <2> DEFINE k == [j EXCEPT !.at = "restore", !.profile = session.profile]
    <2>1. session.profile \in Profiles
      BY <1>1, <1>3 DEF Sessions
    <2>2. /\ k \in Job /\ k.at = "restore" /\ k.kind = j.kind /\ k.profile = session.profile
          /\ k.ok = j.ok
      BY <1>1, <2>1 DEF Job
    <2>3. Only(a, k)
      BY <1>3
    <2> HIDE DEF k
    <2>4. JobTypes(k, used)
      BY <1>1, <2>2 DEF JobTypes
    <2>5. AppTypes' /\ Turn(a) /\ job'[a] = k
      BY <1>1, <2>2, <2>3, <2>4, JobOnly
    <2>6. QueueNow(a) => QueueNow(a)'
      BY <1>1, <1>3, <2>2, <2>5 DEF QueueNow, QueueFits
    <2>7. RestoreNow(a) => RestoreNow(a)'
      BY <1>1, <1>3, <2>2, <2>5 DEF RestoreNow, RestoreFits
    <2>8. GoneNow(a) => GoneNow(a)'
      <3> SUFFICES ASSUME GoneNow(a)
                   PROVE  GoneFits(gone, session, stored, secrets, player, k)
        BY <1>1, <2>5 DEF GoneNow
      <3>1. /\ session.profile \notin gone /\ player.profile \notin gone
            /\ \A q \in gone : NotIn(stored.file, q) /\ secrets[q] = None
        BY <1>1 DEF GoneNow, GoneFits
      <3> QED BY <1>1, <1>3, <2>2, <3>1 DEF GoneFits
    <2> QED BY <1>1, <2>5, <2>6, <2>7, <2>8 DEF Works, Closed
  <1>4. CASE ~stored.torn /\ session = NoSession /\ Only(a, JobAt(j, "reset"))
    <2> DEFINE k == JobAt(j, "reset")
    <2>1. /\ k \in Job /\ k.at = "reset" /\ k.kind = j.kind /\ k.profile = j.profile
          /\ k.ok = j.ok
      BY <1>1, JobFields
    <2>2. Only(a, k)
      BY <1>4
    <2> HIDE DEF k
    <2>3. JobTypes(k, used)
      BY <1>1, <2>1 DEF JobTypes
    <2>4. AppTypes' /\ Turn(a) /\ job'[a] = k
      BY <1>1, <2>1, <2>2, <2>3, JobOnly
    <2>5. QueueNow(a) => QueueNow(a)'
      BY <1>1, <1>4, <2>1, <2>4 DEF QueueNow, QueueFits
    <2>6. RestoreNow(a) => RestoreNow(a)'
      BY <1>1, <1>4, <2>1, <2>4 DEF RestoreNow, RestoreFits
    <2>7. GoneNow(a) => GoneNow(a)'
      BY <1>1, <1>4, <2>1, <2>4 DEF GoneNow, GoneFits
    <2> QED BY <1>1, <2>4, <2>5, <2>6, <2>7 DEF Works, Closed
  \* The server is asked, or there are no credentials for it.
  <1>5. ASSUME NEW at \in {"truncate", "api"}, NEW account \in Accounts \cup {None},
               ~stored.torn, session = NoSession, p # None,
               at = "api" => account = secrets[p] /\ account # None,
               Only(a, [j EXCEPT !.at = at, !.file = stored.file, !.profile = p,
                                 !.account = account])
        PROVE  AppTypes' /\ Turn(a) /\ Works(a)'
    <2> DEFINE k == [j EXCEPT !.at = at, !.file = stored.file, !.profile = p,
                              !.account = account]
    <2>1. /\ k \in Job /\ k.at = at /\ k.kind = j.kind /\ k.profile = p
          /\ k.account = account /\ k.file = stored.file /\ k.ok = j.ok
      BY <1>1, <1>5 DEF Job
    <2>2. Only(a, k)
      BY <1>5
    <2> HIDE DEF k
    <2>3. JobTypes(k, used)
      BY <1>1, <1>5, <2>1 DEF JobTypes, Listed
    <2>4. AppTypes' /\ Turn(a) /\ job'[a] = k
      BY <1>1, <2>1, <2>2, <2>3, JobOnly
    <2>5. QueueNow(a) => QueueNow(a)'
      BY <1>1, <1>5, <2>1, <2>4 DEF QueueNow, QueueFits
    <2>6. RestoreNow(a) => RestoreNow(a)'
      BY <1>1, <1>5, <2>1, <2>4 DEF RestoreNow, RestoreFits
    <2>7. GoneNow(a) => GoneNow(a)'
      <3>1. GoneNow(a) => p \notin gone
        BY DEF GoneNow, GoneFits, NotIn
      <3> QED BY <1>1, <1>5, <2>1, <2>4, <3>1 DEF GoneNow, GoneFits
    <2> QED BY <1>1, <2>4, <2>5, <2>6, <2>7 DEF Works, Closed
  <1>6. CASE /\ ~stored.torn /\ session = NoSession /\ p # None
             /\ Only(a, [j EXCEPT !.at = "truncate", !.file = stored.file, !.profile = p])
    <2>1. [j EXCEPT !.at = "truncate", !.file = stored.file, !.profile = p]
            = [j EXCEPT !.at = "truncate", !.file = stored.file, !.profile = p,
                        !.account = j.account]
      BY <1>1 DEF Job
    <2>2. j.account \in Accounts \cup {None}
      BY <1>1 DEF Job
    <2> QED BY <1>5, <1>6, <2>1, <2>2
  <1>7. CASE /\ ~stored.torn /\ session = NoSession /\ p # None /\ secrets[p] # None
             /\ Only(a, [j EXCEPT !.at = "api", !.file = stored.file, !.profile = p,
                                  !.account = secrets[p]])
    <2>1. secrets[p] \in Accounts \cup {None}
      BY <1>1, <1>7 DEF Credentials
    <2> QED BY <1>5, <1>7, <2>1
  <1>8. \/ stored.torn
        \/ ~stored.torn /\ session # NoSession
        \/ ~stored.torn /\ session = NoSession /\ p = None
        \/ ~stored.torn /\ session = NoSession /\ p # None /\ secrets[p] = None
        \/ ~stored.torn /\ session = NoSession /\ p # None /\ secrets[p] # None
    BY <1>1 DEF AppTypes
  <1>9. CASE stored.torn
    BY <1>2, <1>9 DEF LoadForBootstrap
  <1>10. CASE ~stored.torn /\ session # NoSession
    BY <1>3, <1>10 DEF LoadForBootstrap
  <1>11. CASE ~stored.torn /\ session = NoSession /\ p = None
    BY <1>4, <1>11 DEF JobAt, LoadForBootstrap
  <1>12. CASE ~stored.torn /\ session = NoSession /\ p # None /\ secrets[p] = None
    <2>1. Only(a, [[j EXCEPT !.file = stored.file, !.profile = p] EXCEPT !.at = "truncate"])
      BY <1>12 DEF LoadForBootstrap
    <2>2. [[j EXCEPT !.file = stored.file, !.profile = p] EXCEPT !.at = "truncate"]
            = [j EXCEPT !.at = "truncate", !.file = stored.file, !.profile = p]
      BY <1>1 DEF Job
    <2> QED BY <1>6, <1>12, <2>1, <2>2
  <1>13. CASE ~stored.torn /\ session = NoSession /\ p # None /\ secrets[p] # None
    <2>1. Only(a, [[j EXCEPT !.file = stored.file, !.profile = p]
                     EXCEPT !.at = "api", !.account = secrets[p]])
      BY <1>13 DEF LoadForBootstrap
    <2>2. [[j EXCEPT !.file = stored.file, !.profile = p] EXCEPT !.at = "api", !.account = secrets[p]]
            = [j EXCEPT !.at = "api", !.file = stored.file, !.profile = p, !.account = secrets[p]]
      BY <1>1 DEF Job
    <2> QED BY <1>7, <1>13, <2>1, <2>2
  <1> QED BY <1>8, <1>9, <1>10, <1>11, <1>12, <1>13

LEMMA BootstrapAnsweredWorks ==
    ASSUME AppTypes, NEW a \in Actors, Works(a), BootstrapAnswered(a)
    PROVE  AppTypes' /\ Turn(a) /\ Works(a)'
  <1> DEFINE j == job[a]
             p == j.profile
             file(ok) == IF ok THEN Connected(j.file, p, j.account)
                         ELSE [j.file EXCEPT !.last = p]
  <1>1. /\ j \in Job /\ j.at = "api" /\ j.kind = "bootstrap" /\ JobTypes(j, used)
        /\ SameData /\ windows' = windows
        /\ UNCHANGED <<session, secrets, stored, backup, player, saved, used, gone>>
        /\ Listed(j.file) /\ p \in Known(j.file) /\ p \in Profiles /\ j.account \in Accounts
    BY DEF BootstrapAnswered, At, Same, AppTypes, JobTypes, SameData, Known
  <1>2. PICK ok \in BOOLEAN :
          Only(a, [j EXCEPT !.at = "truncate", !.ok = ok,
                            !.file = IF ok THEN Connected(@, p, j.account)
                                     ELSE [@ EXCEPT !.last = p]])
    BY DEF BootstrapAnswered
  <1> DEFINE k == [j EXCEPT !.at = "truncate", !.ok = ok, !.file = file(ok)]
  <1>3. Only(a, k)
    BY <1>2
  <1>4. /\ Listed(file(ok)) /\ file(ok) \in Contents /\ file(ok).last = p
        /\ ok => file(ok).account[p] = j.account
        /\ \A q \in Profiles \ {p} : NotIn(j.file, q) => NotIn(file(ok), q)
    <2>1. CASE ok
      BY <1>1, <2>1, FileFacts DEF Listed
    <2>2. CASE ~ok
      <3>1. /\ file(ok) \in Contents /\ file(ok).last = p
            /\ file(ok).account = j.file.account
        BY <1>1, <2>2 DEF Listed, Contents
      <3> HIDE DEF file
      <3> QED BY <1>1, <2>2, <3>1 DEF Listed, Known, NotIn
    <2> QED BY <2>1, <2>2
  <1> HIDE DEF file
  <1>5. /\ k \in Job /\ k.at = "truncate" /\ k.kind = j.kind /\ k.profile = p
        /\ k.account = j.account /\ k.existing = j.existing /\ k.ok = ok /\ k.file = file(ok)
    BY <1>1, <1>4 DEF Job
  <1> HIDE DEF k
  <1>6. JobTypes(k, used)
    BY <1>1, <1>4, <1>5 DEF JobTypes
  <1>7. AppTypes' /\ Turn(a) /\ job'[a] = k
    BY <1>1, <1>3, <1>5, <1>6, JobOnly
  <1>8. QueueNow(a) => QueueNow(a)'
    BY <1>1, <1>5, <1>7 DEF QueueNow, QueueFits
  <1>9. RestoreNow(a) => RestoreNow(a)'
    <2>1. RestoreNow(a) /\ ok => Restorable(ConnectedAs(k), file(ok), secrets)
      BY <1>1, <1>4, <1>5 DEF RestoreNow, RestoreFits, Restorable, ConnectedAs
    <2> QED BY <1>1, <1>5, <1>7, <2>1 DEF RestoreNow, RestoreFits
  <1>10. GoneNow(a) => GoneNow(a)'
    <2> SUFFICES ASSUME GoneNow(a) PROVE GoneNow(a)'
      OBVIOUS
    <2>1. p \notin gone
      BY <1>1 DEF GoneNow, GoneFits, Known, NotIn
    <2>2. \A q \in gone : NotIn(j.file, q) /\ q \in Profiles \ {p}
      BY <1>1, <2>1 DEF GoneNow, GoneFits, AppTypes
    <2>3. \A q \in gone : NotIn(file(ok), q)
      BY <1>4, <2>2
    <2> QED BY <1>1, <1>5, <1>7, <2>1, <2>3 DEF GoneNow, GoneFits
  <1> QED BY <1>1, <1>7, <1>8, <1>9, <1>10 DEF Works, Closed

LEMMA LoadForDeleteWorks ==
    ASSUME AppTypes, Works(Main), LoadForDelete
    PROVE  AppTypes' /\ Turn(Main) /\ Works(Main)'
  <1> DEFINE j == job[Main]
             p == j.profile
             ok == session.profile = p
             file == Without(stored.file, p)
             k == [j EXCEPT !.at = "secret", !.ok = ok, !.file = file]
  <1>1. /\ j \in Job /\ j.at = "images" /\ JobTypes(j, used) /\ Main \in Actors
        /\ SameData /\ windows' = windows
        /\ UNCHANGED <<session, secrets, stored, backup, player, saved, used, gone>>
        /\ Listed(stored.file) /\ used \subseteq Profiles
    BY DEF LoadForDelete, At, AppTypes, SameData, Actors
  <1>2. CASE Ends(Main)
    BY <1>1, <1>2, EndsWell
  <1>3. CASE j.kind = "delete" /\ Only(Main, k)
    <2>1. p \in used /\ p \in Profiles
      BY <1>1, <1>3 DEF JobTypes
    <2>2. /\ Listed(file) /\ file \in Contents /\ NotIn(file, p)
          /\ \A q \in Profiles \ {p} : /\ NotIn(stored.file, q) => NotIn(file, q)
                                       /\ file.account[q] = stored.file.account[q]
                                       /\ stored.file.last = q => file.last = q
      <3>1. PICK account : account \in Accounts
        BY AppAssumption
      <3> QED BY <1>1, <2>1, <3>1, FileFacts DEF Listed
    <2>3. ok \in BOOLEAN
      OBVIOUS
    <2>4. ok = (session.profile = p)
      OBVIOUS
    <2>5. Only(Main, k)
      BY <1>3
    <2> HIDE DEF ok, file
    <2>6. /\ k \in Job /\ k.at = "secret" /\ k.kind = "delete" /\ k.profile = p
          /\ k.account = j.account /\ k.existing = j.existing /\ k.ok = ok /\ k.file = file
      BY <1>1, <1>3, <2>2, <2>3 DEF Job
    <2> HIDE DEF k
    <2>7. JobTypes(k, used)
      <3>1. k.ok => k.profile \in Profiles
        BY <2>1, <2>6
      <3> QED BY <1>1, <2>1, <2>2, <2>6, <3>1 DEF JobTypes
    <2>8. AppTypes' /\ Turn(Main) /\ job'[Main] = k
      BY <1>1, <2>5, <2>6, <2>7, JobOnly
    <2>9. QueueNow(Main) => QueueNow(Main)'
      BY <1>1, <2>6, <2>8 DEF QueueNow, QueueFits
    <2>10. RestoreNow(Main) => RestoreNow(Main)'
      <3> SUFFICES ASSUME RestoreNow(Main) PROVE RestoreFits(session, stored, secrets, k)
        BY <1>1, <2>8 DEF RestoreNow
      <3>1. Restorable(session, stored.file, secrets) /\ (session # NoSession => ~stored.torn)
        BY <1>1 DEF RestoreNow, RestoreFits
      <3>2. session # NoSession => session.profile \in Profiles
        BY DEF AppTypes, Sessions
      <3>3. ~ok => Restorable(session, file, secrets)
        BY <2>2, <2>4, <3>1, <3>2 DEF Restorable
      <3> QED BY <2>4, <2>6, <3>1, <3>3 DEF RestoreFits
    <2>11. GoneNow(Main) => GoneNow(Main)'
      <3> SUFFICES ASSUME GoneNow(Main) PROVE GoneFits(gone, session, stored, secrets, player, k)
        BY <1>1, <2>8 DEF GoneNow
      <3>1. \A q \in gone : NotIn(stored.file, q) /\ secrets[q] = None /\ q \in Profiles
        BY <1>1 DEF GoneNow, GoneFits, AppTypes
      <3>2. \A q \in gone : NotIn(file, q)
        BY <2>2, <3>1
      <3>3. /\ session.profile \notin gone /\ player.profile \notin gone
            /\ session = NoSession \/ player.profile = session.profile
        BY <1>1, <1>3 DEF GoneNow, GoneFits
      <3> QED BY <2>2, <2>4, <2>6, <3>1, <3>2, <3>3 DEF GoneFits
    <2> QED BY <1>1, <2>8, <2>9, <2>10, <2>11 DEF Works, Closed
  <1>4. j.kind = "delete"
    BY <1>1 DEF JobTypes
  <1> QED BY <1>2, <1>3, <1>4 DEF LoadForDelete

LEMMA DeleteSecretWorks ==
    ASSUME AppTypes, Works(Main), DeleteSecret
    PROVE  AppTypes' /\ Turn(Main) /\ Works(Main)'
  <1> DEFINE j == job[Main]
             k == JobAt(j, "truncate")
  <1>1. /\ j \in Job /\ j.at = "secret" /\ j.kind = "delete" /\ JobTypes(j, used)
        /\ Main \in Actors /\ j.profile \in Profiles
        /\ Only(Main, k) /\ secrets' = [secrets EXCEPT ![j.profile] = None]
        /\ UNCHANGED <<windows, session, stored, backup, player, saved, used, gone>>
    BY DEF JobAt, DeleteSecret, At, Same, AppTypes, JobTypes, Actors
  <1>2. /\ k \in Job /\ k.at = "truncate" /\ k.kind = j.kind /\ k.profile = j.profile
        /\ k.account = j.account /\ k.existing = j.existing /\ k.ok = j.ok /\ k.file = j.file
    BY <1>1, JobFields
  <1> HIDE DEF k
  <1>3. JobTypes(k, used')
    BY <1>1, <1>2 DEF JobTypes
  <1>4. Turn(Main) /\ job'[Main] = k /\ \A b \in Actors : JobTypes(job'[b], used')
    BY <1>1, <1>2, <1>3, OnlyTurn
  <1>5. /\ secrets' \in Credentials /\ secrets'[j.profile] = None
        /\ \A q \in Profiles \ {j.profile} : secrets'[q] = secrets[q]
    BY <1>1 DEF AppTypes, Credentials
  <1>6. AppTypes'
    BY <1>1, <1>4, <1>5 DEF AppTypes, Turn
  <1>7. QueueNow(Main) => QueueNow(Main)'
    BY <1>1, <1>2, <1>4 DEF QueueNow, QueueFits
  <1>8. RestoreNow(Main) => RestoreNow(Main)'
    <2> SUFFICES ASSUME RestoreNow(Main) PROVE RestoreFits(session, stored, secrets', k)
      BY <1>1, <1>4 DEF RestoreNow
    <2>1. j.ok = (session.profile = j.profile)
      BY <1>1 DEF RestoreNow, RestoreFits
    <2>2. ~j.ok => Restorable(session, j.file, secrets)
      BY <1>1 DEF RestoreNow, RestoreFits
    <2>3. session # NoSession => session.profile \in Profiles /\ ~stored.torn
      BY <1>1 DEF AppTypes, Sessions, RestoreNow, RestoreFits
    <2>4. ~j.ok => Restorable(session, j.file, secrets')
      BY <1>5, <2>1, <2>2, <2>3 DEF Restorable
    <2> QED BY <1>1, <1>2, <2>1, <2>3, <2>4 DEF RestoreFits
  <1>9. GoneNow(Main) => GoneNow(Main)'
    <2> SUFFICES ASSUME GoneNow(Main) PROVE GoneFits(gone, session, stored, secrets', player, k)
      BY <1>1, <1>4 DEF GoneNow
    <2>1. \A q \in gone : secrets[q] = None /\ q \in Profiles
      BY <1>1 DEF GoneNow, GoneFits, AppTypes
    <2>2. \A q \in gone : secrets'[q] = None
      BY <1>5, <2>1
    <2> QED BY <1>1, <1>2, <1>5, <2>2 DEF GoneNow, GoneFits
  <1> QED BY <1>1, <1>4, <1>6, <1>7, <1>8, <1>9 DEF Works, Closed

LEMMA ImportSecretsWorks ==
    ASSUME AppTypes, NEW a \in Actors, Works(a), ImportSecrets(a)
    PROVE  AppTypes' /\ Turn(a) /\ Works(a)'
  <1> DEFINE j == job[a]
             known == Known(j.file)
             k == JobAt(j, "truncate")
  <1>1. /\ j \in Job /\ j.at = "secret" /\ j.kind \in {"import", "autoImport"}
        /\ JobTypes(j, used) /\ Listed(j.file)
        /\ Only(a, k) /\ gone' = gone \ known
        /\ secrets' = [q \in Profiles |-> IF q \in known THEN backup.secrets[q] ELSE secrets[q]]
        /\ UNCHANGED <<windows, session, stored, backup, player, saved, used>>
    BY DEF JobAt, ImportSecrets, At, Same, AppTypes, JobTypes
  <1>2. /\ k \in Job /\ k.at = "truncate" /\ k.kind = j.kind /\ k.profile = j.profile
        /\ k.account = j.account /\ k.existing = j.existing /\ k.ok = j.ok /\ k.file = j.file
    BY <1>1, JobFields
  <1> HIDE DEF k
  <1>3. JobTypes(k, used')
    BY <1>1, <1>2 DEF JobTypes
  <1>4. Turn(a) /\ job'[a] = k /\ \A b \in Actors : JobTypes(job'[b], used')
    BY <1>1, <1>2, <1>3, OnlyTurn
  <1>5. secrets' \in Credentials
    BY <1>1 DEF AppTypes, Credentials
  <1>6. AppTypes'
    BY <1>1, <1>4, <1>5 DEF AppTypes, Turn
  <1>7. QueueNow(a) => QueueNow(a)'
    BY <1>1, <1>2, <1>4 DEF QueueNow, QueueFits
  <1>8. RestoreNow(a) => RestoreNow(a)'
    BY <1>1, <1>2, <1>4 DEF RestoreNow, RestoreFits
  <1>9. GoneNow(a) => GoneNow(a)'
    <2> SUFFICES ASSUME GoneNow(a) PROVE GoneFits(gone', session, stored, secrets', player, k)
      BY <1>1, <1>4 DEF GoneNow
    <2>1. \A q \in gone' : q \in gone /\ q \in Profiles /\ q \notin known
      BY <1>1 DEF AppTypes
    <2>2. \A q \in gone' : secrets'[q] = None /\ NotIn(stored.file, q)
      BY <1>1, <2>1 DEF GoneNow, GoneFits
    <2>3. \A q \in gone' : NotIn(j.file, q)
      <3>1. None \notin Profiles
        BY CacheAssumption
      <3> QED BY <1>1, <2>1, <3>1 DEF NotIn, Known, Listed
    <2>4. session.profile \notin gone' /\ player.profile \notin gone'
      BY <1>1, <2>1 DEF GoneNow, GoneFits
    <2>5. session = NoSession \/ player.profile = session.profile
      BY <1>1 DEF GoneNow, GoneFits
    <2> QED BY <1>1, <1>2, <2>2, <2>3, <2>4, <2>5 DEF GoneFits
  <1> QED BY <1>1, <1>4, <1>6, <1>7, <1>8, <1>9 DEF Works, Closed

-----------------------------------------------------------------------------
\* The steps between the jobs.

\* A job that has begun: what the next steps find is as it was.
LEMMA JobBegins ==
    ASSUME AppTypes, NEW a \in Actors, Works(a), job[a].at = "idle",
           NEW k \in Job, Only(a, k), JobTypes(k, used), SameData, windows' = windows,
           \/ k.kind \in {"connect", "bootstrap"} /\ k.at = "load"
           \/ k.kind = "delete" /\ k.at = "images"
           \/ k.kind \in {"import", "autoImport"} /\ k.at = "secret",
           k.kind = "import" /\ ~Open("import") => player.queue = {},
           k.kind = "autoImport" => ~stored.torn /\ Known(stored.file) = {}
    PROVE  AppTypes' /\ Turn(a) /\ Works(a)'
  <1>1. AppTypes' /\ Turn(a) /\ job'[a] = k
    BY JobOnly
  <1>2. UNCHANGED <<session, secrets, stored, backup, player, saved, used, gone>>
    BY DEF SameData
  <1>3. job[a] = NoJob
    BY DEF AppTypes, JobTypes
  <1>4. QueueNow(a) /\ Closed({"overlap", "import"}) => QueueNow(a)'
    BY <1>1, <1>2, <1>3, NoJobFacts DEF QueueNow, QueueFits, Closed, Open
  <1>5. RestoreNow(a) => RestoreNow(a)'
    <2> SUFFICES ASSUME RestoreNow(a) PROVE RestoreFits(session, stored, secrets, k)
      BY <1>1, <1>2 DEF RestoreNow
    <2>1. /\ Restorable(session, stored.file, secrets)
          /\ session # NoSession => ~stored.torn
      BY <1>3, NoJobFacts DEF RestoreNow, RestoreFits
    <2>2. k.kind = "autoImport" => session = NoSession
      <3>1. session # NoSession => session.profile \in Profiles /\ session.account \in Accounts
        BY DEF AppTypes, Sessions
      <3> QED BY <2>1, <3>1, AppAssumption DEF Restorable, Known
    <2> QED BY <2>1, <2>2 DEF RestoreFits
  <1>6. GoneNow(a) => GoneNow(a)'
    BY <1>1, <1>2, <1>3, NoJobFacts DEF GoneNow, GoneFits
  <1> QED BY <1>1, <1>4, <1>5, <1>6 DEF Works, Closed

LEMMA BeginConnectWorks ==
    ASSUME AppTypes, NEW a \in Actors, Works(a), BeginConnect(a)
    PROVE  AppTypes' /\ Turn(a) /\ Works(a)'
  <1>1. PICK p \in used \cup {None}, account \in Accounts :
          Only(a, [NoJob EXCEPT !.kind = "connect", !.at = "load", !.profile = p,
                                !.account = account, !.existing = p # None])
    BY DEF BeginConnect
  <1> DEFINE existing == p # None
             k == [NoJob EXCEPT !.kind = "connect", !.at = "load", !.profile = p,
                                !.account = account, !.existing = existing]
  <1>2. Only(a, k) /\ existing \in BOOLEAN /\ p \in Profiles \cup {None} /\ (existing => p \in Profiles)
    BY <1>1 DEF AppTypes
  <1> HIDE DEF existing
  <1>3. /\ k \in Job /\ k.at = "load" /\ k.kind = "connect" /\ k.profile = p
        /\ k.account = account /\ k.existing = existing /\ ~k.ok
    BY <1>2, NoJobFacts DEF Job
  <1> HIDE DEF k
  <1>4. JobTypes(k, used)
    BY <1>2, <1>3 DEF JobTypes
  <1>5. job[a].at = "idle" /\ SameData /\ windows' = windows
    BY DEF BeginConnect, CanBegin
  <1> QED BY <1>2, <1>3, <1>4, <1>5, JobBegins

LEMMA BeginBootstrapWorks ==
    ASSUME AppTypes, NEW a \in Actors, Works(a), BeginBootstrap(a)
    PROVE  AppTypes' /\ Turn(a) /\ Works(a)'
  <1> DEFINE k1 == [NoJob EXCEPT !.kind = "autoImport", !.at = "secret", !.file = backup.file]
             k2 == [NoJob EXCEPT !.kind = "bootstrap", !.at = "load"]
  <1>1. job[a].at = "idle" /\ SameData /\ windows' = windows
    BY DEF BeginBootstrap, CanBegin
  <1>2. CASE ~stored.torn /\ Known(stored.file) = {} /\ Only(a, k1)
    <2>1. Listed(backup.file) /\ backup.file \in Contents
      BY DEF AppTypes, Listed
    <2>2. k1 \in Job /\ k1.at = "secret" /\ k1.kind = "autoImport" /\ ~k1.ok /\ k1.file = backup.file
      BY <2>1, NoJobFacts DEF Job
    <2> HIDE DEF k1
    <2>3. JobTypes(k1, used)
      BY <2>1, <2>2 DEF JobTypes
    <2> QED BY <1>1, <1>2, <2>2, <2>3, JobBegins
  <1>3. CASE Only(a, k2)
    <2>1. k2 \in Job /\ k2.at = "load" /\ k2.kind = "bootstrap" /\ ~k2.ok
      BY NoJobFacts DEF Job
    <2> HIDE DEF k2
    <2>2. JobTypes(k2, used)
      BY <2>1 DEF JobTypes
    <2> QED BY <1>1, <1>3, <2>1, <2>2, JobBegins
  <1> QED BY <1>2, <1>3 DEF BeginBootstrap

LEMMA BeginDeleteWorks ==
    ASSUME AppTypes, Works(Main), BeginDelete
    PROVE  AppTypes' /\ Turn(Main) /\ Works(Main)'
  <1>1. PICK p \in used :
          Only(Main, [NoJob EXCEPT !.kind = "delete", !.at = "images", !.profile = p])
    BY DEF BeginDelete
  <1> DEFINE k == [NoJob EXCEPT !.kind = "delete", !.at = "images", !.profile = p]
  <1>2. p \in Profiles
    BY DEF AppTypes
  <1>3. k \in Job /\ k.at = "images" /\ k.kind = "delete" /\ k.profile = p /\ ~k.ok
    BY <1>2, NoJobFacts DEF Job
  <1>4. Only(Main, k)
    BY <1>1
  <1> HIDE DEF k
  <1>5. JobTypes(k, used)
    BY <1>3 DEF JobTypes
  <1>6. job[Main].at = "idle" /\ SameData /\ windows' = windows /\ Main \in Actors
    BY DEF BeginDelete, CanBegin, Actors
  <1> QED BY <1>3, <1>4, <1>5, <1>6, JobBegins

LEMMA BeginImportWorks ==
    ASSUME AppTypes, Works(Main), BeginImport
    PROVE  AppTypes' /\ Turn(Main) /\ Works(Main)'
  <1> DEFINE k == [NoJob EXCEPT !.kind = "import", !.at = "secret", !.file = backup.file]
  <1>1. /\ job[Main].at = "idle" /\ SameData /\ windows' = windows /\ Main \in Actors
        /\ Only(Main, k) /\ (Open("import") \/ player.queue = {})
    BY DEF BeginImport, CanBegin, Actors
  <1>2. Listed(backup.file) /\ backup.file \in Contents
    BY DEF AppTypes, Listed
  <1>3. k \in Job /\ k.at = "secret" /\ k.kind = "import" /\ ~k.ok /\ k.file = backup.file
    BY <1>2, NoJobFacts DEF Job
  <1> HIDE DEF k
  <1>4. JobTypes(k, used)
    BY <1>2, <1>3 DEF JobTypes
  <1> QED BY <1>1, <1>3, <1>4, JobBegins

-----------------------------------------------------------------------------
\* All jobs.  While commands do not overlap, one job is on its way at most.
AppInv ==
    /\ AppTypes
    /\ Closed({"overlap"}) => OneJob
    /\ \A a \in Actors : OthersIdle(a) => Works(a)

LEMMA WindowsStay ==
    ASSUME [Next]_vars
    PROVE  windows' = windows
  <1>1. ASSUME NEW a, ConnectStep(a) PROVE windows' = windows
    BY <1>1 DEF ConnectStep, LoadForConnect, ConnectAccepted, ConnectRefused, SaveSecret,
         Truncate, Write, SetSession, Reset, SetOwner, JobFails, Same
  <1>2. ASSUME NEW a, BootstrapStep(a) PROVE windows' = windows
    BY <1>2 DEF BootstrapStep, LoadForBootstrap, BootstrapAnswered, Restore, PutQueue,
         ImportSecrets, Same
  <1>3. ASSUME LoadForDelete \/ DeleteSecret PROVE windows' = windows
    BY <1>3 DEF LoadForDelete, DeleteSecret, Same
  <1>4. ASSUME NEW a, JobStep(a) PROVE windows' = windows
    BY <1>1, <1>2, <1>3, <1>4 DEF JobStep
  <1> QED
    BY <1>4 DEF Next, vars, Images_, Task, Remove, BeginConnect, BeginBootstrap, BeginDelete,
        BeginImport, Export, Play, Same, Stop

\* Where commands overlap, nothing is claimed of them but the types.
LEMMA OverlapOpen ==
    ASSUME ~Closed({"overlap"}), windows' = windows
    PROVE  \A a \in Actors : Works(a) /\ Works(a)'
  BY DEF Works, Closed

LEMMA TurnKeeps ==
    ASSUME AppInv, windows' = windows, NEW a \in Actors, job[a].at # "idle" \/ Idle \/ Open("overlap"),
           Works(a) => AppTypes' /\ Turn(a) /\ Works(a)'
    PROVE  AppInv'
  <1>1. CASE Closed({"overlap"})
    <2>1. OthersIdle(a)
      <3>1. CASE job[a].at # "idle"
        BY <1>1, <3>1 DEF AppInv, OneJob, OthersIdle
      <3>2. CASE Idle \/ Open("overlap")
        BY <1>1, <3>2 DEF Idle, OthersIdle, Closed, Open
      <3> QED BY <3>1, <3>2
    <2>2. AppTypes' /\ Turn(a) /\ Works(a)'
      BY <2>1 DEF AppInv
    <2>3. OneJob' /\ \A b \in Actors : OthersIdle(b)' => job'[b] = job'[a]
      BY <2>1, <2>2, OneMoves DEF AppInv
    <2>4. ASSUME NEW b \in Actors, OthersIdle(b)' PROVE Works(b)'
      BY <2>2, <2>3, <2>4 DEF Works, QueueNow, RestoreNow, GoneNow
    <2> QED BY <2>2, <2>3, <2>4 DEF AppInv
  <1>2. CASE ~Closed({"overlap"})
    <2>1. \A b \in Actors : Works(b) /\ Works(b)'
      BY <1>2, OverlapOpen
    <2>2. ~Closed({"overlap"})'
      BY <1>2 DEF Closed
    <2> QED BY <2>1, <2>2 DEF AppInv
  <1> QED BY <1>1, <1>2

LEMMA JobKeeps ==
    ASSUME AppInv, windows' = windows, NEW a \in Actors, JobStep(a)
    PROVE  AppInv'
  <1>1. ASSUME ConnectStep(a)
        PROVE  job[a].at # "idle" /\ (Works(a) => AppTypes' /\ Turn(a) /\ Works(a)')
    <2>1. job[a].at # "idle"
      BY <1>1 DEF ConnectStep, LoadForConnect, ConnectAccepted, ConnectRefused, SaveSecret,
           Truncate, Write, SetSession, Reset, SetOwner, JobFails, At
    <2>2. AppTypes
      BY DEF AppInv
    <2> QED
      BY <1>1, <2>1, <2>2, LoadForConnectWorks, ConnectAcceptedWorks, ConnectRefusedWorks,
         SaveSecretWorks, TruncateWorks, WriteWorks, SetSessionWorks, ResetWorks, SetOwnerWorks,
         JobFailsWorks DEF ConnectStep
  <1>2. ASSUME BootstrapStep(a)
        PROVE  job[a].at # "idle" /\ (Works(a) => AppTypes' /\ Turn(a) /\ Works(a)')
    <2>1. job[a].at # "idle"
      BY <1>2 DEF BootstrapStep, LoadForBootstrap, BootstrapAnswered, Restore, PutQueue,
           ImportSecrets, At
    <2>2. AppTypes
      BY DEF AppInv
    <2> QED
      BY <1>2, <2>1, <2>2, LoadForBootstrapWorks, BootstrapAnsweredWorks, RestoreWorks,
         PutQueueWorks, ImportSecretsWorks DEF BootstrapStep
  <1>3. ASSUME a = Main, LoadForDelete \/ DeleteSecret
        PROVE  job[a].at # "idle" /\ (Works(a) => AppTypes' /\ Turn(a) /\ Works(a)')
    <2>1. AppTypes
      BY DEF AppInv
    <2> QED BY <1>3, <2>1, LoadForDeleteWorks, DeleteSecretWorks DEF LoadForDelete, DeleteSecret, At
  <1> QED BY <1>1, <1>2, <1>3, TurnKeeps DEF JobStep

\* A command begins.
LEMMA BeginKeeps ==
    ASSUME AppInv, windows' = windows, NEW a \in Actors,
           \/ BeginConnect(a) \/ BeginBootstrap(a)
           \/ a = Main /\ (BeginDelete \/ BeginImport)
    PROVE  AppInv'
  <1>1. Idle \/ Open("overlap")
    BY DEF BeginConnect, BeginBootstrap, BeginDelete, BeginImport, CanBegin
  <1>2. Works(a) => AppTypes' /\ Turn(a) /\ Works(a)'
    BY BeginConnectWorks, BeginBootstrapWorks, BeginDeleteWorks, BeginImportWorks DEF AppInv
  <1> QED BY <1>1, <1>2, TurnKeeps

\* A step that changes no job.
LEMMA JobsStay ==
    ASSUME AppInv, AppTypes', windows' = windows, job' = job,
           UNCHANGED <<session, stored, secrets, gone>>,
           \A a \in Actors : OthersIdle(a) /\ Works(a) => Works(a)'
    PROVE  AppInv'
  BY DEF AppInv, OneJob, OthersIdle, Closed

LEMMA NothingKeeps ==
    ASSUME AppInv, windows' = windows, UNCHANGED appVars
    PROVE  AppInv'
  <1>1. /\ UNCHANGED <<session, secrets, stored, backup, player, saved, used, gone>>
        /\ job' = job
    BY DEF appVars
  <1>2. AppTypes'
    BY <1>1 DEF AppInv, AppTypes
  <1>3. ASSUME NEW a \in Actors, Works(a) PROVE Works(a)'
    BY <1>1, <1>3 DEF Works, QueueNow, RestoreNow, GoneNow, Closed
  <1> QED BY <1>1, <1>2, <1>3, JobsStay

LEMMA ExportKeeps ==
    ASSUME AppInv, Export
    PROVE  AppInv'
  <1>1. /\ UNCHANGED <<windows, session, secrets, stored, job, player, saved, used, gone>>
        /\ backup' = [file |-> stored.file,
                      secrets |-> [p \in Profiles |->
                                     IF p \in Known(stored.file) THEN secrets[p] ELSE None]]
    BY DEF Export
  <1>2. AppTypes'
    <2>1. backup'.file = stored.file /\ backup'.secrets \in Credentials
      BY <1>1 DEF AppInv, AppTypes, Credentials
    <2> QED BY <1>1, <2>1 DEF AppInv, AppTypes
  <1>3. ASSUME NEW a \in Actors, Works(a) PROVE Works(a)'
    BY <1>1, <1>3 DEF Works, QueueNow, RestoreNow, GoneNow, Closed
  <1> QED BY <1>1, <1>2, <1>3, JobsStay

\* What is saved is the queue of the profile that is named with it.
LEMMA SavedTypes ==
    ASSUME NEW p \in Players, AppTypes
    PROVE  /\ Saved(p) \in [profile: Profiles \cup {None}, queue: SUBSET Profiles]
           /\ /\ p.profile # None => p.queue \subseteq {p.profile}
              /\ saved.profile # None => saved.queue \subseteq {saved.profile}
              => (Saved(p).profile # None => Saved(p).queue \subseteq {Saved(p).profile})
  BY DEF Saved, Players, AppTypes

LEMMA PlayKeeps ==
    ASSUME AppInv, Play
    PROVE  AppInv'
  <1>1. PICK queue \in {{session.profile}, player.queue \cup {session.profile}} :
          player' = [player EXCEPT !.queue = queue, !.deferred = FALSE]
    BY DEF Play
  <1>2. /\ Idle \/ Open("overlap")
        /\ session # NoSession /\ saved' = Saved(player')
        /\ UNCHANGED <<windows, session, secrets, stored, backup, job, used, gone>>
        /\ AppTypes
    BY DEF Play, Same, AppInv
  <1>3. session.profile \in Profiles /\ queue \in SUBSET Profiles
    BY <1>1, <1>2 DEF AppTypes, Sessions, Players
  <1>4. player' \in Players /\ player'.queue = queue /\ player'.profile = player.profile
    BY <1>1, <1>2, <1>3 DEF AppTypes, Players
  <1>5. saved' \in [profile: Profiles \cup {None}, queue: SUBSET Profiles]
    BY <1>2, <1>4, SavedTypes
  <1>6. AppTypes'
    BY <1>2, <1>4, <1>5 DEF AppTypes
  <1>7. ASSUME NEW a \in Actors, Works(a) PROVE Works(a)'
    <2>1. ASSUME Closed({"overlap", "import"}), QueueNow(a) PROVE QueueNow(a)'
      <3>1. job[a] = NoJob
        BY <1>2, <2>1 DEF Closed, Open, Idle, AppTypes, JobTypes
      <3>2. player.profile = session.profile /\ player.queue \subseteq {session.profile}
        BY <1>2, <2>1, <3>1, NoJobFacts DEF QueueNow, QueueFits
      <3>3. queue \subseteq {session.profile}
        BY <1>1, <3>2
      <3>4. saved'.profile # None => saved'.queue \subseteq {saved'.profile}
        BY <1>2, <1>4, <2>1, <3>2, <3>3, SavedTypes DEF QueueNow
      <3> QED BY <1>2, <1>4, <3>1, <3>2, <3>3, <3>4, NoJobFacts DEF QueueNow, QueueFits
    <2>2. RestoreNow(a) => RestoreNow(a)'
      BY <1>2 DEF RestoreNow
    <2>3. GoneNow(a) => GoneNow(a)'
      BY <1>2, <1>4 DEF GoneNow, GoneFits
    <2> QED BY <1>2, <1>7, <2>1, <2>2, <2>3 DEF Works, Closed
  <1> QED BY <1>2, <1>6, <1>7, JobsStay

LEMMA StopKeeps ==
    ASSUME AppInv, NEW leave \in BOOLEAN, Stop(leave)
    PROVE  AppInv'
  <1>1. /\ saved' = IF leave THEN Saved(player) ELSE saved
        /\ session' = NoSession /\ player' = NoPlayer /\ job' = [a \in Actors |-> NoJob]
        /\ UNCHANGED <<windows, secrets, stored, backup, used, gone>>
        /\ leave => Idle
        /\ AppTypes
    BY DEF Stop, AppInv
  <1>2. AppTypes'
    <2>1. saved' \in [profile: Profiles \cup {None}, queue: SUBSET Profiles]
      BY <1>1, SavedTypes DEF AppTypes
    <2> QED BY <1>1, <2>1, NoJobFacts DEF AppTypes, Sessions
  <1>3. CASE Closed({"overlap"})
    <2>1. PICK a \in Actors : OthersIdle(a)
      BY <1>3 DEF AppInv, OneJob
    <2>2. Works(a)
      BY <2>1 DEF AppInv
    <2>3. Closed({"overlap", "import"}) =>
            (saved'.profile # None => saved'.queue \subseteq {saved'.profile})
      BY <1>1, <2>2, SavedTypes DEF Works, QueueNow, AppTypes
    <2>4. Closed({"overlap", "removal"}) => \A q \in gone : NotIn(stored.file, q) /\ secrets[q] = None
      BY <2>2 DEF Works, GoneNow, GoneFits
    <2>5. None \notin gone'
      BY <1>1, CacheAssumption DEF AppTypes
    <2>6. OneJob'
      BY <1>1, NoJobFacts DEF OneJob, OthersIdle, Actors
    <2>7. ASSUME NEW b \in Actors PROVE Works(b)'
      <3>1. job'[b] = NoJob
        BY <1>1
      <3>2. Closed({"overlap", "import"}) => QueueNow(b)'
        BY <1>1, <2>3, <3>1, NoJobFacts DEF QueueNow, QueueFits
      <3>3. RestoreNow(b)'
        BY <1>1, <3>1, NoJobFacts DEF RestoreNow, RestoreFits, Restorable
      <3>4. Closed({"overlap", "removal"}) => GoneNow(b)'
        BY <1>1, <2>4, <2>5, <3>1, NoJobFacts DEF GoneNow, GoneFits
      <3> QED BY <1>1, <3>2, <3>3, <3>4 DEF Works, Closed
    <2> QED BY <1>2, <2>6, <2>7 DEF AppInv
  <1>4. CASE ~Closed({"overlap"})
    <2>1. \A b \in Actors : Works(b)'
      BY <1>1, <1>4, OverlapOpen
    <2>2. ~Closed({"overlap"})'
      BY <1>1, <1>4 DEF Closed
    <2> QED BY <1>2, <2>1, <2>2 DEF AppInv
  <1> QED BY <1>3, <1>4

LEMMA NextKeeps ==
    ASSUME AppInv, [Next]_vars
    PROVE  AppInv'
  <1>0. windows' = windows
    BY WindowsStay
  <1>1. CASE UNCHANGED appVars
    BY <1>0, <1>1, NothingKeeps
  <1>2. CASE \E a \in FirstOf({w \in Workers : At(w, "idle")}) : BeginConnect(a) \/ BeginBootstrap(a)
    <2>1. FirstOf({w \in Workers : At(w, "idle")}) \subseteq Actors
      BY DEF FirstOf, Actors
    <2> QED BY <1>0, <1>2, <2>1, BeginKeeps
  <1>3. CASE \E a \in Actors : JobStep(a)
    BY <1>0, <1>3, JobKeeps
  <1>4. CASE BeginDelete \/ BeginImport
    BY <1>0, <1>4, BeginKeeps DEF Actors
  <1>5. CASE Export
    BY <1>5, ExportKeeps
  <1>6. CASE Play
    BY <1>6, PlayKeeps
  <1>7. CASE \E leave \in BOOLEAN : Stop(leave)
    BY <1>7, StopKeeps
  <1> QED BY <1>1, <1>2, <1>3, <1>4, <1>5, <1>6, <1>7 DEF Next, vars, Images_, Task, Remove

LEMMA InitKeeps ==
    ASSUME Init
    PROVE  AppInv
  <1> DEFINE p == FirstProfile
             before == Connected(NoProfiles, p, FirstAccount)
             playing == [profile |-> p, queue |-> {p}]
  <1>1. /\ p \in Profiles /\ FirstAccount \in Accounts /\ None \notin Profiles
        /\ Listed(NoProfiles) /\ NoProfiles.account \in Credentials
        /\ Listed(before) /\ before.account \in Credentials
        /\ before.last = p /\ before.account[p] = FirstAccount
    <2>1. p \in Profiles /\ FirstAccount \in Accounts /\ None \notin Profiles /\ Listed(NoProfiles)
      BY NoJobFacts, CacheAssumption, AppAssumption
    <2>2. Listed(before) /\ before.last = p /\ before.account[p] = FirstAccount
      BY <2>1, FileFacts
    <2> HIDE DEF before
    <2>3. \A file : Listed(file) => file.account \in Credentials
      BY DEF Listed, Contents
    <2> QED BY <2>1, <2>2, <2>3
  <1>2. backup \in Backups \cup {NoBackup} /\ gone = {} /\ \A a \in Actors : job[a] = NoJob
    BY DEF Init
  <1>3. Listed(backup.file) /\ backup.secrets \in Credentials
    BY <1>1, <1>2, AppAssumption DEF NoBackup
  <1>4. Known(backup.file) \subseteq Profiles
    BY DEF Known
  <1> HIDE DEF before
  <1>5. /\ stored \in [torn: BOOLEAN, file: Contents] /\ Listed(stored.file) /\ ~stored.torn
        /\ secrets \in Credentials /\ used \subseteq Profiles
        /\ saved \in [profile: Profiles \cup {None}, queue: SUBSET Profiles]
        /\ session \in Sessions /\ player \in Players
        /\ player.profile # None => player.queue \subseteq {player.profile}
        /\ saved.profile # None => saved.queue \subseteq {saved.profile}
        /\ IF session = NoSession THEN player.queue = {} ELSE player.queue \subseteq {session.profile}
        /\ session = NoSession \/ player.profile = session.profile
        /\ Restorable(session, stored.file, secrets)
    <2>1. CASE /\ stored = [torn |-> FALSE, file |-> NoProfiles]
               /\ secrets = NoProfiles.account
               /\ session = NoSession /\ player = NoPlayer /\ saved = NoSaved
               /\ used = Known(backup.file)
      BY <1>1, <1>4, <2>1, NoJobFacts DEF Listed, NoSaved, Sessions, Restorable
    <2>2. CASE /\ stored = [torn |-> FALSE, file |-> before]
               /\ secrets = before.account
               /\ saved = playing
               /\ used = Known(backup.file) \cup {p}
               /\ session = NoSession /\ player = NoPlayer
      BY <1>1, <1>4, <2>2, NoJobFacts DEF Listed, Sessions, Restorable
    <2>3. CASE /\ stored = [torn |-> FALSE, file |-> before]
               /\ secrets = before.account
               /\ saved = playing
               /\ used = Known(backup.file) \cup {p}
               /\ session = [profile |-> p, account |-> FirstAccount]
               /\ player = [profile |-> p, queue |-> {p}, deferred |-> FALSE]
      <3>1. session \in Sessions /\ session.profile = p /\ session.account = FirstAccount
        BY <1>1, <2>3 DEF Sessions
      <3>2. player \in Players /\ player.profile = p /\ player.queue = {p}
        BY <1>1, <2>3 DEF Players
      <3>3. session # NoSession
        BY <1>1, <3>1, NoJobFacts
      <3>4. stored \in [torn: BOOLEAN, file: Contents] /\ Listed(stored.file) /\ ~stored.torn
        BY <1>1, <2>3 DEF Listed
      <3>5. /\ saved \in [profile: Profiles \cup {None}, queue: SUBSET Profiles]
            /\ saved.profile = p /\ saved.queue = {p}
        BY <1>1, <2>3
      <3>6. Restorable(session, stored.file, secrets)
        BY <1>1, <2>3, <3>1 DEF Restorable
      <3> QED BY <1>1, <1>4, <2>3, <3>1, <3>2, <3>3, <3>4, <3>5, <3>6
    <2> QED BY <2>1, <2>2, <2>3 DEF Init, before
  <1>6. AppTypes
    BY <1>2, <1>3, <1>5, NoJobFacts DEF AppTypes, Init
  <1>7. ASSUME NEW a \in Actors PROVE Works(a)
    <2>1. QueueNow(a)
      BY <1>2, <1>5, NoJobFacts DEF QueueNow, QueueFits
    <2>2. RestoreNow(a)
      BY <1>2, <1>5, NoJobFacts DEF RestoreNow, RestoreFits
    <2>3. GoneNow(a)
      BY <1>2, <1>5, NoJobFacts DEF GoneNow, GoneFits
    <2> QED BY <2>1, <2>2, <2>3 DEF Works
  <1>8. OneJob
    BY <1>2, NoJobFacts DEF OneJob, OthersIdle, Actors
  <1> QED BY <1>6, <1>7, <1>8 DEF AppInv

\* A queue is never taken over by another profile, in the controller or in the
\* file it is saved to, for any profiles, accounts and workers (QueueOfProfile;
\* reset_playback_state, set_active_profile_id, restore_playback_state).
THEOREM QueueStaysWithProfile == Spec => []QueueOfProfile
  <1>1. Init => AppInv
    BY InitKeeps
  <1>2. AppInv /\ [Next]_vars => AppInv'
    BY NextKeeps
  <1>3. AppInv => QueueOfProfile
    BY DEF AppInv, OneJob, Works, QueueNow, QueueOfProfile, Closed
  <1> QED BY <1>1, <1>2, <1>3, PTL DEF Spec

\* The profile that is active between two commands can be restored at the next
\* start (SessionIsRestorable; connect_server_profile, bootstrap_app_state).
THEOREM ActiveIsRestorable == Spec => []SessionIsRestorable
  <1>1. Init => AppInv
    BY InitKeeps
  <1>2. AppInv /\ [Next]_vars => AppInv'
    BY NextKeeps
  <1>3. AppInv => SessionIsRestorable
    <2> SUFFICES ASSUME AppInv, session # NoSession, Idle, Closed({"overlap", "fault"})
                 PROVE  /\ ~stored.torn /\ Restorable(session, stored.file, secrets)
      BY DEF SessionIsRestorable, Restorable
    <2>1. OthersIdle(Main) /\ Main \in Actors /\ job[Main].at = "idle"
      BY DEF Idle, OthersIdle, Actors
    <2> QED BY <2>1 DEF AppInv, Works, RestoreNow, RestoreFits
  <1> QED BY <1>1, <1>2, <1>3, PTL DEF Spec

-----------------------------------------------------------------------------
(***************************************************************************)
(* What is deleted stays deleted.                                          *)
(***************************************************************************)

\* A call goes on with what it has: another size of the image at most, of those
\* it began with.
GoesOn(c, d) ==
    d.at \in Running => /\ c.at \in Running
                        /\ \A g : Spares(c, g) => Spares(d, g)

LEMMA FoundGoesOn ==
    ASSUME NEW c \in Call, c.at \in Running, NEW name \in Names \cup {NoFile}, NEW fresh \in BOOLEAN
    PROVE  GoesOn(c, Found(c, name, fresh))
  <1> DEFINE r == [c EXCEPT !.meta = NoMeta]
  <1>1. /\ r \in Call /\ r.image = c.image /\ r.exact = c.exact /\ r.looking = c.looking
        /\ r.todo = c.todo
    BY NothingTypes DEF Call
  <1>2. Done(name).at = "done" /\ Done(NoFile).at = "done" /\ "done" \notin Running
    BY DEF Done, NoCall, Running, Reading, Leading, Storing
  <1>3. CASE fresh
    BY <1>2, <1>3 DEF Found, GoesOn
  <1>4. CASE ~fresh /\ ~c.looking
    <2>1. Found(c, name, fresh) = [r EXCEPT !.at = "acquire", !.found = name]
      BY <1>1, <1>4 DEF Found
    <2> DEFINE f == [r EXCEPT !.at = "acquire", !.found = name]
    <2> HIDE DEF r
    <2>2. f.image = r.image /\ f.exact = r.exact /\ f.todo = r.todo
      BY <1>1 DEF Call
    <2> HIDE DEF f
    <2> QED BY <1>1, <2>1, <2>2 DEF GoesOn, Spares, f
  <1>5. CASE ~fresh /\ c.looking /\ c.todo # <<>>
    <2> DEFINE f == [r EXCEPT !.at = "meta", !.image = Head(c.todo), !.todo = Tail(c.todo),
                              !.over = FALSE]
    <2>1. Found(c, name, fresh) = f
      BY <1>1, <1>5 DEF Found
    <2>2. c.todo \in Seq(CoverArt)
      BY DEF Call
    <2> HIDE DEF r
    <2>3. f.image = Head(c.todo) /\ f.exact = r.exact /\ f.todo = Tail(c.todo)
      BY <1>1 DEF Call
    <2> HIDE DEF f
    <2>4. /\ Head(c.todo) = c.todo[1] /\ 1 \in 1 .. Len(c.todo)
          /\ \A n \in 1 .. Len(Tail(c.todo)) : /\ Tail(c.todo)[n] = c.todo[n + 1]
                                               /\ n + 1 \in 1 .. Len(c.todo)
      BY <1>5, <2>2
    <2>5. ASSUME NEW g, Spares(c, g) PROVE Spares(f, g)
      BY <1>1, <2>3, <2>4, <2>5 DEF Spares
    <2> QED BY <2>1, <2>5 DEF GoesOn
  <1>6. CASE ~fresh /\ c.looking /\ c.todo = <<>>
    <2>1. Found(c, name, fresh) = IF c.kind = "cached" THEN Done(NoFile)
                                  ELSE [r EXCEPT !.at = "client", !.image = c.exact]
      BY <1>1, <1>6 DEF Found
    <2> DEFINE f == [r EXCEPT !.at = "client", !.image = c.exact]
    <2> HIDE DEF r
    <2>2. f.image = c.exact /\ f.exact = r.exact /\ f.todo = r.todo
      BY <1>1 DEF Call
    <2> HIDE DEF f
    <2>3. GoesOn(c, f)
      BY <1>1, <2>2 DEF GoesOn, Spares
    <2>4. GoesOn(c, Done(NoFile))
      BY <1>2 DEF GoesOn
    <2> QED BY <2>1, <2>3, <2>4 DEF f
  <1> QED BY <1>3, <1>4, <1>5, <1>6

\* A call that was overtaken has only its mark changed.
LEMMA OvertakenGoesOn ==
    ASSUME NEW c \in [Tasks -> Call], NEW i, NEW by, NEW s \in Tasks
    PROVE  GoesOn(c[s], Overtaken(c, i, by)[s])
  <1>1. [c[s] EXCEPT !.over = TRUE].todo = c[s].todo
    BY DEF Call
  <1>2. Overtaken(c, i, by)[s] = c[s] \/ Overtaken(c, i, by)[s] = [c[s] EXCEPT !.over = TRUE]
    BY DEF Overtaken
  <1>3. /\ Overtaken(c, i, by)[s].at = c[s].at /\ Overtaken(c, i, by)[s].image = c[s].image
        /\ Overtaken(c, i, by)[s].exact = c[s].exact
    BY OvertakenTypes
  <1>4. Overtaken(c, i, by)[s].todo = c[s].todo
    BY <1>1, <1>2
  <1> QED BY <1>3, <1>4 DEF GoesOn, Spares

LEMMA SameGoesOn ==
    ASSUME NEW c, NEW d, d.at \in Running => c.at \in Running,
           d.image = c.image, d.exact = c.exact, d.todo = c.todo
    PROVE  GoesOn(c, d)
  BY DEF GoesOn, Spares

LEMMA DoneGoesOn ==
    ASSUME NEW c, NEW result
    PROVE  GoesOn(c, Done(result))
  BY DEF GoesOn, Done, NoCall, Running, Reading, Leading, Storing

LEMMA CompletedGoesOn ==
    ASSUME CacheTypes, NEW t \in Tasks, call[t].at \in Running, NEW result, NEW s \in Tasks
    PROVE  GoesOn(call[s], Completed(t, result)[s])
  <1> DEFINE c == call[t]
             d == [c EXCEPT !.at = "leave", !.result = result, !.found = NoFile]
  <1>1. c \in Call /\ call \in [Tasks -> Call]
    BY DEF CacheTypes
  <1>2. d.image = c.image /\ d.exact = c.exact /\ d.todo = c.todo
    BY <1>1 DEF Call
  <1>3. Completed(t, result)[s] = IF s = t THEN d ELSE call[s]
    BY <1>1 DEF Completed
  <1> HIDE DEF d
  <1>4. GoesOn(c, d)
    BY <1>2, SameGoesOn
  <1>5. GoesOn(call[s], call[s])
    BY SameGoesOn
  <1> QED BY <1>3, <1>4, <1>5

\* The step of a task, by what becomes of its call.
LEMMA OneGoesOn ==
    ASSUME CacheTypes, NEW t \in Tasks, NEW d, call' = [call EXCEPT ![t] = d], GoesOn(call[t], d)
    PROVE  \A s \in Tasks : GoesOn(call[s], call'[s])
  <1>1. ASSUME NEW s \in Tasks \ {t} PROVE GoesOn(call[s], call'[s])
    BY SameGoesOn DEF CacheTypes
  <1> QED BY <1>1 DEF CacheTypes

LEMMA AnswerGoesOn ==
    ASSUME CacheTypes, NEW t \in Tasks,
           \/ Read(t) \/ BuildClient(t) \/ Acquire(t) \/ Wait(t) \/ Fetched(t)
           \/ FetchFails(t) \/ Panic(t) \/ Unsupported(t) \/ Leave(t)
    PROVE  \A s \in Tasks : GoesOn(call[s], call'[s])
  <1> DEFINE c == call[t]
  <1>1. c \in Call /\ call \in [Tasks -> Call] /\ dir \in [Images -> Directory]
    BY DEF CacheTypes
  <1>2. c.at \in Running
    BY DEF Read, ReadMeta, ReadFile, ReadDir, BuildClient, Acquire, Wait, Fetched, FetchFails,
       Panic, Unsupported, Leave, Running, Reading, Leading, Storing
  <1>3. CASE ReadMeta(t)
    <2> DEFINE meta == dir[c.image].meta
               d == [c EXCEPT !.at = IF meta = NoMeta THEN "list" ELSE "file", !.meta = meta]
    <2>1. call' = [call EXCEPT ![t] = d]
      BY <1>1, <1>3 DEF ReadMeta
    <2> HIDE DEF meta
    <2>2. d.image = c.image /\ d.exact = c.exact /\ d.todo = c.todo
      BY <1>1 DEF Call
    <2> HIDE DEF d
    <2> QED BY <1>2, <2>1, <2>2, SameGoesOn, OneGoesOn
  <1>4. CASE ReadFile(t)
    <2> DEFINE d == [c EXCEPT !.at = "list", !.meta = NoMeta]
               f == Found(c, c.meta.name, c.meta.fresh)
    <2>1. call' = [call EXCEPT ![t] = IF Present(c.image, c.meta.name) THEN f ELSE d]
      BY <1>4 DEF ReadFile
    <2>2. d.image = c.image /\ d.exact = c.exact /\ d.todo = c.todo
      BY <1>1 DEF Call
    <2>3. c.meta.name \in Names \cup {NoFile} /\ c.meta.fresh \in BOOLEAN
      BY <1>1, NameFacts DEF Call, Meta
    <2>4. GoesOn(c, f)
      BY <1>1, <1>2, <2>3, FoundGoesOn
    <2> HIDE DEF d, f
    <2>5. GoesOn(c, d)
      BY <1>2, <2>2, SameGoesOn
    <2> QED BY <2>1, <2>4, <2>5, OneGoesOn
  <1>5. CASE ReadDir(t)
    <2>1. PICK name \in Last(PresentIn(c.image)) : call' = [call EXCEPT ![t] = Found(c, name, FALSE)]
      BY <1>5 DEF ReadDir
    <2>2. name \in Names \cup {NoFile}
      BY <2>1 DEF Last, PresentIn
    <2>3. GoesOn(c, Found(c, name, FALSE))
      BY <1>1, <1>2, <2>2, FoundGoesOn
    <2> QED BY <2>1, <2>3, OneGoesOn
  <1>6. CASE BuildClient(t)
    <2> DEFINE d == [c EXCEPT !.at = "meta", !.looking = FALSE, !.over = FALSE]
    <2>1. call' = [call EXCEPT ![t] = Done(Error)] \/ call' = [call EXCEPT ![t] = d]
      BY <1>1, <1>6 DEF BuildClient
    <2>2. d.image = c.image /\ d.exact = c.exact /\ d.todo = c.todo
      BY <1>1 DEF Call
    <2> HIDE DEF d
    <2> QED BY <1>2, <2>1, <2>2, SameGoesOn, DoneGoesOn, OneGoesOn
  <1>7. CASE Acquire(t)
    <2> DEFINE d == [c EXCEPT !.at = "fetch"]
               e == [c EXCEPT !.at = "wait", !.follows = flight[c.image],
                              !.over = call[flight[c.image]].over]
    <2>1. call' = [call EXCEPT ![t] = d] \/ call' = [call EXCEPT ![t] = e]
      BY <1>1, <1>7 DEF Acquire
    <2>2. /\ d.image = c.image /\ d.exact = c.exact /\ d.todo = c.todo
          /\ e.image = c.image /\ e.exact = c.exact /\ e.todo = c.todo
      BY <1>1 DEF Call
    <2> HIDE DEF d, e
    <2> QED BY <1>2, <2>1, <2>2, SameGoesOn, OneGoesOn
  <1>8. CASE Fetched(t)
    <2> DEFINE d == [c EXCEPT !.at = "mkdir", !.found = NoFile]
    <2>1. call' = [call EXCEPT ![t] = d]
      BY <1>1, <1>8 DEF Fetched
    <2>2. d.image = c.image /\ d.exact = c.exact /\ d.todo = c.todo
      BY <1>1 DEF Call
    <2> HIDE DEF d
    <2> QED BY <1>2, <2>1, <2>2, SameGoesOn, OneGoesOn
  <1>9. CASE Wait(t) \/ Panic(t) \/ Leave(t)
    <2>1. \E result : call' = [call EXCEPT ![t] = Done(result)]
      BY <1>1, <1>9 DEF Wait, Panic, Leave
    <2> QED BY <2>1, DoneGoesOn, OneGoesOn
  <1>10. CASE FetchFails(t) \/ Unsupported(t)
    <2>1. \E result : call' = Completed(t, result)
      BY <1>10 DEF FetchFails, Unsupported
    <2> QED BY <1>2, <2>1, CompletedGoesOn
  <1> QED BY <1>3, <1>4, <1>5, <1>6, <1>7, <1>8, <1>9, <1>10 DEF Read

LEMMA StoreGoesOn ==
    ASSUME CacheTypes, NEW t \in Tasks, Store(t)
    PROVE  \A s \in Tasks : GoesOn(call[s], call'[s])
  <1> DEFINE c == call[t]
             i == c.image
             to(at) == [call EXCEPT ![t].at = at]
             over == Overtaken(call, i, t)
             overTo(at) == [over EXCEPT ![t].at = at]
  <1>1. c \in Call /\ call \in [Tasks -> Call] /\ over \in [Tasks -> Call] /\ over[t] = c
    <2>1. call \in [Tasks -> Call]
      BY DEF CacheTypes
    <2>2. over \in [Tasks -> Call]
      BY <2>1, OvertakenTypes
    <2>3. over[t] = c
      BY DEF Overtaken
    <2> QED BY <2>1, <2>2, <2>3
  <1>2. c.at \in Running
    BY DEF Store, MakeDir, WriteTemp, FillTemp, Replace, Rename, WriteMeta, ReplaceMeta,
       RenameMeta, Sweep, StoreFails, Running, Leading, Storing
  <1>3. ASSUME NEW at
        PROVE  [c EXCEPT !.at = at].image = c.image /\ [c EXCEPT !.at = at].exact = c.exact
               /\ [c EXCEPT !.at = at].todo = c.todo
    BY <1>1 DEF Call
  <1>4. ASSUME NEW at, NEW s \in Tasks PROVE GoesOn(call[s], to(at)[s])
    <2>1. CASE s = t
      <3>1. call \in [Tasks -> Call]
        BY <1>1
      <3>2. to(at)[t] = [c EXCEPT !.at = at]
        BY <3>1
      <3> DEFINE d == [c EXCEPT !.at = at]
      <3>3. d.image = c.image /\ d.exact = c.exact /\ d.todo = c.todo
        BY <1>3
      <3> HIDE DEF d
      <3>4. GoesOn(c, d)
        BY <1>2, <3>3, SameGoesOn
      <3> HIDE DEF to
      <3> QED BY <2>1, <3>2, <3>4 DEF d
    <2>2. CASE s # t
      BY <1>1, <2>2, SameGoesOn
    <2> QED BY <2>1, <2>2
  <1>5. ASSUME NEW s \in Tasks PROVE GoesOn(call[s], over[s])
    BY <1>1, OvertakenGoesOn
  <1> HIDE DEF over
  <1>6. ASSUME NEW at, NEW s \in Tasks PROVE GoesOn(call[s], overTo(at)[s])
    <2>1. CASE s = t
      <3>1. over \in [Tasks -> Call] /\ over[t] = c
        BY <1>1
      <3>2. overTo(at)[t] = [c EXCEPT !.at = at]
        BY <3>1
      <3> DEFINE d == [c EXCEPT !.at = at]
      <3>3. d.image = c.image /\ d.exact = c.exact /\ d.todo = c.todo
        BY <1>3
      <3> HIDE DEF d
      <3>4. GoesOn(c, d)
        BY <1>2, <3>3, SameGoesOn
      <3> HIDE DEF overTo
      <3> QED BY <2>1, <3>2, <3>4 DEF d
    <2>2. CASE s # t
      <3>1. overTo(at)[s] = over[s]
        BY <1>1, <2>2
      <3> QED BY <1>5, <3>1
    <2> QED BY <2>1, <2>2
  <1> HIDE DEF to, overTo
  <1>7. \/ \E at : call' = to(at)
        \/ \E at : call' = overTo(at)
        \/ call' = over
        \/ \E result : call' = Completed(t, result)
    BY DEF Store, MakeDir, WriteTemp, FillTemp, Replace, Rename, WriteMeta, ReplaceMeta,
       RenameMeta, Sweep, StoreFails, to, overTo, over
  <1>8. ASSUME NEW result, NEW s \in Tasks PROVE GoesOn(call[s], Completed(t, result)[s])
    BY <1>2, CompletedGoesOn
  <1> QED BY <1>4, <1>5, <1>6, <1>7, <1>8

\* Only mkdir makes a directory.
LEMMA DirGrows ==
    ASSUME CacheTypes, NEW t \in Tasks, TaskStep(t), NEW i \in Images, dir'[i].exists
    PROVE  dir[i].exists \/ (call[t].at \in Running /\ call[t].image = i)
  <1>1. dir \in [Images -> Directory]
    BY DEF CacheTypes
  <1>2. CASE dir' = dir
    BY <1>2
  <1>3. CASE MakeDir(t)
    BY <1>1, <1>3 DEF MakeDir, Running, Leading, Storing, Directory
  <1>4. CASE WriteTemp(t) \/ FillTemp(t) \/ Replace(t)
    <2>1. CASE WriteTemp(t)
      BY <1>1, <2>1 DEF WriteTemp, Directory
    <2>2. CASE FillTemp(t)
      BY <1>1, <2>2 DEF FillTemp, Directory
    <2>3. CASE Replace(t)
      BY <1>1, <2>3 DEF Replace, Directory
    <2> QED BY <1>4, <2>1, <2>2, <2>3
  <1>5. CASE Rename(t)
    BY <1>1, <1>5 DEF Rename, Directory
  <1>6. CASE WriteMeta(t) \/ ReplaceMeta(t) \/ RenameMeta(t)
    BY <1>1, <1>6 DEF WriteMeta, ReplaceMeta, RenameMeta, Directory
  <1>7. CASE Sweep(t)
    BY <1>1, <1>7 DEF Sweep, Directory
  <1>8. CASE StoreFails(t)
    BY <1>1, <1>8 DEF StoreFails, Directory
  <1> QED
    BY <1>2, <1>3, <1>4, <1>5, <1>6, <1>7, <1>8 DEF TaskStep, Store, Read, ReadMeta, ReadFile,
       ReadDir, BuildClient, Acquire, Wait, Fetched, FetchFails, Panic, Unsupported, Leave

ImagesInv == Closed({"overlap", "removal"}) => GoneImages

\* A step of a task.
LEMMA TaskSpares ==
    ASSUME CacheTypes, GoneImages, NEW t \in Tasks, Task(t)
    PROVE  GoneImages'
  <1>1. TaskStep(t) /\ UNCHANGED <<job, gone>>
    BY DEF Task, appVars
  <1>2. \A s \in Tasks : GoesOn(call[s], call'[s])
    BY <1>1, AnswerGoesOn, StoreGoesOn DEF TaskStep
  <1>3. removal' = removal
    BY <1>1 DEF TaskStep, Read, ReadMeta, ReadFile, ReadDir, BuildClient, Acquire, Wait, Fetched,
       FetchFails, Panic, Unsupported, Leave, Store, MakeDir, WriteTemp, FillTemp, Replace, Rename,
       WriteMeta, ReplaceMeta, RenameMeta, Sweep, StoreFails
  <1>4. \A s \in Tasks : Spares(call'[s], gone') /\ (call'[s].at \in Running => Idle')
    BY <1>1, <1>2 DEF GoneImages, GoesOn, Idle, Spares
  <1>5. ASSUME NEW i \in Images, dir'[i].exists, ~dir[i].exists
        PROVE  Idle /\ OwnerOf[i] \notin gone
    <2>1. call[t].at \in Running /\ call[t].image = i
      BY <1>1, <1>5, DirGrows
    <2> QED BY <2>1 DEF GoneImages, Spares
  <1>6. \A p \in gone' : Bare(p)'
    BY <1>1, <1>5 DEF GoneImages, Bare
  <1>7. Main \in Actors
    BY DEF Actors
  <1>8. job[Main].at # "idle" => \A i \in Images : dir'[i].exists => dir[i].exists
    BY <1>5, <1>7 DEF Idle
  <1>9. Clearing'
    <2>1. CASE removal.deleting
      <3>1. \A i \in Images : dir'[i].exists => dir[i].exists
        BY <1>8, <2>1 DEF GoneImages, Clearing
      <3>2. CoverArt \subseteq Images
        BY CacheAssumption
      <3> QED BY <1>1, <1>3, <2>1, <3>1, <3>2 DEF GoneImages, Clearing, Bare
    <2>2. CASE ~removal.deleting
      BY <1>1, <1>3, <2>2 DEF GoneImages, Clearing
    <2> QED BY <2>1, <2>2
  <1>10. (job[Main].kind = "delete" /\ job[Main].at \in Deleting => Bare(job[Main].profile))'
    <2> SUFFICES ASSUME job[Main].kind = "delete", job[Main].at \in Deleting
                 PROVE  Bare(job[Main].profile)'
      BY <1>1
    <2>1. \A i \in Images : dir'[i].exists => dir[i].exists
      BY <1>8 DEF Deleting
    <2> QED BY <1>1, <2>1 DEF GoneImages, Bare
  <1> QED BY <1>1, <1>4, <1>6, <1>9, <1>10 DEF GoneImages

\* A step of a removal, or of time.
LEMMA RemovalSpares ==
    ASSUME CacheTypes, GoneImages, UNCHANGED appVars,
           RemovalStep \/ \E i \in Images : Expire(i)
    PROVE  GoneImages'
  <1>1. UNCHANGED <<job, gone>> /\ dir \in [Images -> Directory] /\ call \in [Tasks -> Call]
    BY DEF appVars, CacheTypes
  <1>2. \A j \in Images : dir'[j].exists => dir[j].exists
    <2>1. CASE EndRemoval \/ \E i \in Images : RemovalFails(i)
      BY <2>1 DEF EndRemoval, RemovalFails
    <2>2. CASE \E i \in Images : Unlink(i)
      <3>1. PICK i \in Images : Unlink(i)
        BY <2>2
      <3> DEFINE d1(n) == [dir[i] EXCEPT !.files[n] = "none", !.kept = FALSE]
                 d2 == [dir[i] EXCEPT !.meta = NoMeta, !.kept = FALSE]
                 d3 == [dir[i] EXCEPT !.metaTemp = FALSE, !.kept = FALSE]
      <3>2. \/ \E n \in PresentIn(i) : dir' = [dir EXCEPT ![i] = d1(n)]
            \/ dir' = [dir EXCEPT ![i] = d2]
            \/ dir' = [dir EXCEPT ![i] = d3]
        BY <3>1 DEF Unlink
      <3>3. dir[i] \in Directory
        BY <1>1
      <3>4. /\ \A n \in PresentIn(i) : d1(n).exists = dir[i].exists
            /\ d2.exists = dir[i].exists /\ d3.exists = dir[i].exists
        BY <3>3 DEF Directory
      <3> HIDE DEF d1, d2, d3
      <3>5. \A n : \A j \in Images : dir' = [dir EXCEPT ![i] = d1(n)] =>
                dir'[j] = IF j = i THEN d1(n) ELSE dir[j]
        BY <1>1
      <3>6. CASE \E n \in PresentIn(i) : dir' = [dir EXCEPT ![i] = d1(n)]
        BY <3>4, <3>5, <3>6
      <3>7. CASE dir' = [dir EXCEPT ![i] = d2]
        BY <1>1, <3>4, <3>7
      <3>8. CASE dir' = [dir EXCEPT ![i] = d3]
        BY <1>1, <3>4, <3>8
      <3> QED BY <3>2, <3>6, <3>7, <3>8
    <2>3. CASE \E i \in Images : RemoveDir(i)
      BY <1>1, <2>3 DEF RemoveDir, Directory
    <2>4. CASE \E i \in Images : Expire(i)
      <3>1. PICK i \in Images : dir' = [dir EXCEPT ![i].meta.fresh = FALSE]
        BY <2>4 DEF Expire
      <3>2. dir[i] \in Directory
        BY <1>1
      <3>3. [dir[i] EXCEPT !.meta.fresh = FALSE].exists = dir[i].exists
        BY <3>2 DEF Directory
      <3> DEFINE d == [dir[i] EXCEPT !.meta.fresh = FALSE]
      <3>4. dir' = [dir EXCEPT ![i] = d]
        BY <3>1
      <3>5. d.exists = dir[i].exists
        BY <3>3
      <3> HIDE DEF d
      <3> QED BY <1>1, <3>4, <3>5
    <2> QED BY <2>1, <2>2, <2>3, <2>4 DEF RemovalStep
  <1>3. \A s \in Tasks : GoesOn(call[s], call'[s])
    <2>1. \A s \in Tasks : GoesOn(call[s], call[s])
      BY SameGoesOn
    <2>2. \A i \in Images, s \in Tasks : GoesOn(call[s], Overtaken(call, i, None)[s])
      BY <1>1, OvertakenGoesOn
    <2>3. call' = call \/ \E i \in Images : call' = Overtaken(call, i, None)
      BY DEF RemovalStep, EndRemoval, Unlink, RemoveDir, RemovalFails, Expire
    <2> QED BY <2>1, <2>2, <2>3
  <1>4. \A s \in Tasks : Spares(call'[s], gone') /\ (call'[s].at \in Running => Idle')
    BY <1>1, <1>3 DEF GoneImages, GoesOn, Idle, Spares
  <1>5. \A p \in gone' : Bare(p)'
    BY <1>1, <1>2 DEF GoneImages, Bare
  <1>6. (job[Main].kind = "delete" /\ job[Main].at \in Deleting => Bare(job[Main].profile))'
    BY <1>1, <1>2 DEF GoneImages, Bare
  <1>7. Clearing'
    <2>1. CoverArt \subseteq Images
      BY CacheAssumption
    <2>2. CASE removal' = removal
      BY <1>1, <1>2, <2>1, <2>2 DEF GoneImages, Clearing, Bare
    <2>3. CASE EndRemoval
      <3>1. /\ removal.at \in {"cover", "artist"} /\ dir' = dir
            /\ ~removal.deleting => removal' = NoRemoval
        BY <2>3 DEF EndRemoval
      <3>2. CASE ~removal.deleting
        BY <1>1, <3>1, <3>2 DEF GoneImages, Clearing, NoRemoval
      <3>3. CASE removal.deleting
        <4>1. CASE removal' = [removal EXCEPT !.at = "failed"]
          BY <1>1, <3>1, <3>3, <4>1 DEF GoneImages, Clearing
        <4>2. CASE ImagesOf(removal.profile, removal.at) = {}
          BY <1>1, <2>3, <3>1, <3>3, <4>2 DEF GoneImages, Clearing, EndRemoval, ImagesOf, InCache, Bare
        <4> QED BY <2>3, <3>3, <4>1, <4>2 DEF EndRemoval
      <3> QED BY <3>2, <3>3
    <2>4. CASE \E i \in Images : RemoveDir(i)
      BY <1>1, <1>2, <2>1, <2>4 DEF RemoveDir, GoneImages, Clearing, Bare
    <2>5. CASE \E i \in Images : RemovalFails(i)
      BY <1>1, <1>2, <2>1, <2>5 DEF RemovalFails, GoneImages, Clearing, Bare, NoRemoval
    <2> QED BY <2>2, <2>3, <2>4, <2>5 DEF RemovalStep, Unlink, Expire
  <1> QED BY <1>1, <1>4, <1>5, <1>6, <1>7 DEF GoneImages

\* A call begins with images of the session's profile.
LEMMA BeginSpares ==
    ASSUME CacheTypes, AppTypes, GoneImages, GoneNow(Main), Idle, UNCHANGED appVars,
           NEW t \in Tasks, NEW kind \in Kinds, NEW i \in Images, Begin(t, kind, i)
    PROVE  GoneImages'
  <1> DEFINE todo == IF kind = "artist" THEN <<>> ELSE Larger[i]
             looking == kind # "artist"
             c == [NoCall EXCEPT !.kind = kind, !.at = "meta", !.image = i, !.exact = i,
                                 !.looking = looking, !.todo = todo]
  <1>1. UNCHANGED <<job, gone, dir, removal>> /\ call \in [Tasks -> Call]
    BY DEF appVars, CacheTypes, Begin
  <1>2. call' = [call EXCEPT ![t] = c] /\ OwnerOf[i] = session.profile
        /\ (kind = "artist" <=> i \notin CoverArt)
    BY DEF Begin
  <1>3. session.profile \notin gone
    BY DEF GoneNow, GoneFits
  <1>4. \A n \in 1 .. Len(todo) : OwnerOf[todo[n]] = OwnerOf[i]
    <2>1. CASE kind = "artist"
      BY <2>1
    <2>2. CASE kind # "artist"
      BY <1>2, <2>2, CacheAssumption
    <2> QED BY <2>1, <2>2
  <1> HIDE DEF todo, looking
  <1>5. c.image = i /\ c.exact = i /\ c.todo = todo
    BY DEF NoCall
  <1> HIDE DEF c
  <1>6. Spares(c, gone)
    BY <1>2, <1>3, <1>4, <1>5 DEF Spares
  <1>7. \A s \in Tasks : call'[s] = IF s = t THEN c ELSE call[s]
    BY <1>1, <1>2
  <1>8. \A s \in Tasks : Spares(call'[s], gone') /\ (call'[s].at \in Running => Idle')
    BY <1>1, <1>6, <1>7 DEF GoneImages, Idle
  <1> QED BY <1>1, <1>8 DEF GoneImages, Bare, Clearing

\* A step that leaves the images, the calls and the jobs alone.
LEMMA NothingSpares ==
    ASSUME GoneImages, UNCHANGED <<job, gone, dir, call, removal>>
    PROVE  GoneImages'
  BY DEF GoneImages, Bare, Clearing, Idle

LEMMA ClearSpares ==
    ASSUME GoneImages, At(Main, "idle"), UNCHANGED appVars, ClearCoverArt
    PROVE  GoneImages'
  <1>1. UNCHANGED <<job, gone, dir, call>> /\ removal'.deleting = FALSE
    BY DEF appVars, ClearCoverArt, BeginRemoval
  <1> QED BY <1>1 DEF GoneImages, Bare, Clearing, Idle, At

\* What a step makes of a job that does not wait for a removal: a delete that goes
\* on is one whose images are gone.
GoesThrough(j, k) ==
    /\ j.at \notin {"idle", "images"} /\ k.at # "images"
    /\ k.kind = "delete" => j.kind = "delete"
    /\ k.kind = "delete" /\ k.at \in Deleting => j.at \in Deleting /\ k.profile = j.profile

LEMMA ThroughSpares ==
    ASSUME AppTypes, GoneImages, UNCHANGED <<dir, call, removal>>,
           NEW a \in Actors, NEW k, Only(a, k), GoesThrough(job[a], k),
           \/ gone' \subseteq gone
           \/ /\ gone' = gone \cup {job[a].profile}
              /\ job[a].kind = "delete" /\ job[a].at \in Deleting
    PROVE  GoneImages'
  <1>1. job \in [Actors -> Job] /\ Main \in Actors
    BY DEF AppTypes, Actors
  <1>2. \A b \in Actors : job'[b] = IF b = a THEN k ELSE job[b]
    BY <1>1 DEF Only
  <1>3. \A t \in Tasks : call[t].at \notin Running
    BY DEF GoneImages, Idle, GoesThrough
  <1>4. \A p \in gone' : Bare(p)
    BY DEF GoneImages
  <1>5. Clearing'
    BY <1>1, <1>2 DEF GoneImages, Clearing, Bare, GoesThrough
  <1>6. (job[Main].kind = "delete" /\ job[Main].at \in Deleting => Bare(job[Main].profile))'
    BY <1>1, <1>2 DEF GoneImages, GoesThrough, Bare
  <1>7. \A b \in Actors : job'[b].kind = "delete" => b = Main
    BY <1>2 DEF GoneImages, GoesThrough
  <1> QED BY <1>3, <1>4, <1>5, <1>6, <1>7 DEF GoneImages, Spares, Bare

\* The steps of the jobs are such, but for the one that ends the wait.
LEMMA JobGoesThrough ==
    ASSUME AppTypes, NEW a \in Actors, ConnectStep(a) \/ BootstrapStep(a) \/ (a = Main /\ DeleteSecret)
    PROVE  \E k : Only(a, k) /\ GoesThrough(job[a], k)
  <1>1. job[a] \in Job
    BY DEF AppTypes
  <1>2. NoJob.at = "idle" /\ NoJob.kind = "none"
    BY DEF NoJob
  <1>3. ASSUME Ends(a), job[a].at \notin {"idle", "images"}
        PROVE  \E k : Only(a, k) /\ GoesThrough(job[a], k)
    BY <1>2, <1>3 DEF Ends, GoesThrough, Deleting
  <1>4. CASE \/ LoadForConnect(a) \/ ConnectAccepted(a) \/ ConnectRefused(a) \/ SaveSecret(a)
             \/ LoadForBootstrap(a) \/ BootstrapAnswered(a) \/ ImportSecrets(a)
    <2>1. job[a].at \in {"load", "api", "secret"} /\ job[a].kind \in {"connect", "bootstrap", "import", "autoImport"}
      BY <1>4 DEF LoadForConnect, ConnectAccepted, ConnectRefused, SaveSecret, LoadForBootstrap,
         BootstrapAnswered, ImportSecrets, At
    <2>2. Ends(a) \/ \E k : Only(a, k) /\ k.kind = job[a].kind /\ k.at # "images"
      <3>1. CASE LoadForConnect(a)
        <4> DEFINE d == [job[a] EXCEPT !.at = "api", !.file = stored.file]
        <4>1. Ends(a) \/ Only(a, d)
          BY <3>1 DEF LoadForConnect
        <4>2. d.at = "api" /\ d.kind = job[a].kind
          BY <1>1 DEF Job
        <4> HIDE DEF d
        <4> QED BY <4>1, <4>2
      <3>2. CASE ConnectAccepted(a)
        <4> DEFINE d(p) == [job[a] EXCEPT !.at = "secret", !.ok = TRUE, !.profile = p,
                                          !.file = Connected(@, p, job[a].account)]
        <4>1. Ends(a) \/ \E p : Only(a, d(p))
          BY <3>2 DEF ConnectAccepted
        <4>2. \A p : d(p).at = "secret" /\ d(p).kind = job[a].kind
          BY <1>1 DEF Job
        <4> HIDE DEF d
        <4> QED BY <4>1, <4>2
      <3>3. CASE ConnectRefused(a)
        <4> DEFINE d == [job[a] EXCEPT !.at = "truncate"]
        <4>1. Ends(a) \/ Only(a, d)
          BY <3>3 DEF ConnectRefused
        <4>2. d.at = "truncate" /\ d.kind = job[a].kind
          BY <1>1 DEF Job
        <4> HIDE DEF d
        <4> QED BY <4>1, <4>2
      <3>4. CASE SaveSecret(a)
        <4> DEFINE d == [job[a] EXCEPT !.at = "truncate"]
        <4>1. Only(a, d)
          BY <3>4 DEF SaveSecret
        <4>2. d.at = "truncate" /\ d.kind = job[a].kind
          BY <1>1 DEF Job
        <4> HIDE DEF d
        <4> QED BY <4>1, <4>2
      <3>5. CASE LoadForBootstrap(a)
        <4> DEFINE p == stored.file.last
                   d1 == [job[a] EXCEPT !.at = "restore", !.profile = session.profile]
                   d2 == [job[a] EXCEPT !.at = "reset"]
                   read == [job[a] EXCEPT !.file = stored.file, !.profile = p]
                   d3 == [read EXCEPT !.at = "truncate"]
                   d4 == [read EXCEPT !.at = "api", !.account = secrets[p]]
        <4>1. Ends(a) \/ Only(a, d1) \/ Only(a, d2) \/ Only(a, d3) \/ Only(a, d4)
          BY <3>5 DEF LoadForBootstrap
        <4>2. /\ d1.at = "restore" /\ d1.kind = job[a].kind
              /\ d2.at = "reset" /\ d2.kind = job[a].kind
              /\ d3.at = "truncate" /\ d3.kind = job[a].kind
              /\ d4.at = "api" /\ d4.kind = job[a].kind
          BY <1>1 DEF Job
        <4> HIDE DEF d1, d2, d3, d4
        <4> QED BY <4>1, <4>2
      <3>6. CASE BootstrapAnswered(a)
        <4> DEFINE d(ok) == [job[a] EXCEPT !.at = "truncate", !.ok = ok,
                                !.file = IF ok THEN Connected(@, job[a].profile, job[a].account)
                                         ELSE [@ EXCEPT !.last = job[a].profile]]
        <4>1. \E ok : Only(a, d(ok))
          BY <3>6 DEF BootstrapAnswered
        <4>2. \A ok : d(ok).at = "truncate" /\ d(ok).kind = job[a].kind
          BY <1>1 DEF Job
        <4> HIDE DEF d
        <4> QED BY <4>1, <4>2
      <3>7. CASE ImportSecrets(a)
        <4> DEFINE d == [job[a] EXCEPT !.at = "truncate"]
        <4>1. Ends(a) \/ Only(a, d)
          BY <3>7 DEF ImportSecrets
        <4>2. d.at = "truncate" /\ d.kind = job[a].kind
          BY <1>1 DEF Job
        <4> HIDE DEF d
        <4> QED BY <4>1, <4>2
      <3> QED BY <1>4, <3>1, <3>2, <3>3, <3>4, <3>5, <3>6, <3>7
    <2>3. ASSUME NEW k, Only(a, k), k.kind = job[a].kind, k.at # "images"
          PROVE  GoesThrough(job[a], k)
      BY <2>1, <2>3 DEF GoesThrough
    <2> QED BY <1>3, <2>1, <2>2, <2>3
  <1>5. CASE Truncate(a) \/ (a = Main /\ DeleteSecret)
    <2> DEFINE d(step) == [job[a] EXCEPT !.at = step]
    <2>1. \E step \in Deleting : Only(a, d(step)) /\ job[a].at \in Deleting
      BY <1>5 DEF Truncate, DeleteSecret, At, Deleting
    <2>2. \A step \in Deleting : d(step).at = step /\ d(step).kind = job[a].kind
                                 /\ d(step).profile = job[a].profile
      BY <1>1 DEF Job
    <2> HIDE DEF d
    <2> QED BY <2>1, <2>2 DEF GoesThrough, Deleting
  <1>6. CASE Write(a)
    <2> DEFINE d(step, kind) == [job[a] EXCEPT !.at = step, !.kind = kind]
    <2>1. job[a].at = "write"
      BY <1>6 DEF Write, At
    <2>2. \/ Ends(a)
          \/ job[a].kind = "autoImport" /\ Only(a, d("load", "bootstrap"))
          \/ Only(a, d("session", job[a].kind))
      BY <1>1, <1>6 DEF Write, Job
    <2>3. \A step, kind : d(step, kind).at = step /\ d(step, kind).kind = kind
                          /\ d(step, kind).profile = job[a].profile
      BY <1>1 DEF Job
    <2> HIDE DEF d
    <2> QED BY <1>3, <2>1, <2>2, <2>3 DEF GoesThrough, Deleting
  <1>7. CASE SetSession(a)
    <2> DEFINE d(step) == [job[a] EXCEPT !.at = step]
    <2>1. job[a].at = "session" /\ (Ends(a) \/ \E step \in {"restore", "reset"} : Only(a, d(step)))
      BY <1>7 DEF SetSession, At
    <2>2. \A step : d(step).at = step /\ d(step).kind = job[a].kind
      BY <1>1 DEF Job
    <2> HIDE DEF d
    <2> QED BY <1>3, <2>1, <2>2 DEF GoesThrough, Deleting
  <1>8. CASE Reset(a) \/ SetOwner(a) \/ Restore(a) \/ PutQueue(a)
    <2> DEFINE d(step) == [job[a] EXCEPT !.at = step]
    <2>1. /\ job[a].at \in {"reset", "owner", "restore", "put"}
          /\ Ends(a) \/ \E step \in {"owner", "put"} : Only(a, d(step))
      BY <1>8 DEF Reset, SetOwner, Restore, PutQueue, At
    <2>2. \A step : d(step).at = step /\ d(step).kind = job[a].kind
      BY <1>1 DEF Job
    <2> HIDE DEF d
    <2> QED BY <1>3, <2>1, <2>2 DEF GoesThrough, Deleting
  <1>9. CASE JobFails(a)
    <2> DEFINE k == [NoJob EXCEPT !.kind = "bootstrap", !.at = "load"]
    <2>1. job[a].at \in Deleting /\ (Ends(a) \/ Only(a, k))
      BY <1>9 DEF JobFails, At, Deleting
    <2>2. k.at = "load" /\ k.kind = "bootstrap"
      BY DEF NoJob
    <2> HIDE DEF k
    <2> QED BY <1>3, <2>1, <2>2 DEF GoesThrough, Deleting
  <1> QED BY <1>4, <1>5, <1>6, <1>7, <1>8, <1>9 DEF ConnectStep, BootstrapStep

\* A command begins: no call runs, nor another command.
LEMMA CommandSpares ==
    ASSUME AppTypes, GoneImages, ~Open("removal"), Idle, NEW a \in Actors,
           \/ BeginConnect(a) \/ BeginBootstrap(a)
           \/ a = Main /\ (BeginDelete \/ BeginImport)
    PROVE  GoneImages'
  <1>1. /\ job \in [Actors -> Job] /\ Main \in Actors
        /\ \A b \in Actors : job[b].at = "idle"
        /\ job[Main].at = "idle" /\ ~removal.deleting
    BY DEF AppTypes, Actors, Idle, GoneImages, Clearing
  <1>2. \A t \in Tasks : call[t].at \notin Running
    BY DEF BeginConnect, BeginBootstrap, BeginDelete, BeginImport, CanBegin
  <1>3. dir' = dir /\ call' = call /\ gone' = gone
    BY DEF BeginConnect, BeginBootstrap, BeginDelete, BeginImport, BeginRemoval, SameData, cacheVars
  <1>4. \A p \in gone' : Bare(p)'
    BY <1>3 DEF GoneImages, Bare
  <1>5. \A t \in Tasks : Spares(call'[t], gone') /\ (call'[t].at \in Running => Idle')
    BY <1>2, <1>3 DEF Spares
  <1>6. CASE ~BeginDelete
    <2>1. \E k : Only(a, k) /\ k.kind # "delete" /\ k.at # "images"
      <3>1. CASE BeginConnect(a)
        <4>1. PICK p, account :
                Only(a, [NoJob EXCEPT !.kind = "connect", !.at = "load", !.profile = p,
                                      !.account = account, !.existing = p # None])
          BY <3>1 DEF BeginConnect
        <4> DEFINE k == [NoJob EXCEPT !.kind = "connect", !.at = "load", !.profile = p,
                                      !.account = account, !.existing = p # None]
        <4>2. k.kind = "connect" /\ k.at = "load"
          BY DEF NoJob
        <4>3. Only(a, k)
          BY <4>1
        <4> HIDE DEF k
        <4> QED BY <4>2, <4>3
      <3>2. CASE BeginBootstrap(a)
        <4> DEFINE k1 == [NoJob EXCEPT !.kind = "autoImport", !.at = "secret", !.file = backup.file]
                   k2 == [NoJob EXCEPT !.kind = "bootstrap", !.at = "load"]
        <4>1. Only(a, k1) \/ Only(a, k2)
          BY <3>2 DEF BeginBootstrap
        <4>2. k1.kind = "autoImport" /\ k1.at = "secret" /\ k2.kind = "bootstrap" /\ k2.at = "load"
          BY DEF NoJob
        <4> HIDE DEF k1, k2
        <4> QED BY <4>1, <4>2
      <3>3. CASE a = Main /\ BeginImport
        <4> DEFINE k == [NoJob EXCEPT !.kind = "import", !.at = "secret", !.file = backup.file]
        <4>1. Only(a, k)
          BY <3>3 DEF BeginImport
        <4>2. k.kind = "import" /\ k.at = "secret"
          BY DEF NoJob
        <4> HIDE DEF k
        <4> QED BY <4>1, <4>2
      <3> QED BY <1>6, <3>1, <3>2, <3>3
    <2>2. PICK k : Only(a, k) /\ k.kind # "delete" /\ k.at # "images"
      BY <2>1
    <2>3. \A b \in Actors : job'[b] = IF b = a THEN k ELSE job[b]
      BY <1>1, <2>2 DEF Only
    <2>4. removal' = removal
      BY <1>6 DEF BeginConnect, BeginBootstrap, BeginImport, cacheVars
    <2> QED BY <1>1, <1>3, <1>4, <1>5, <2>2, <2>3, <2>4 DEF GoneImages, Clearing, Deleting
  <1>7. CASE BeginDelete
    <2>1. PICK p \in used :
            /\ BeginRemoval(p, TRUE)
            /\ Only(Main, [NoJob EXCEPT !.kind = "delete", !.at = "images", !.profile = p])
      BY <1>7 DEF BeginDelete
    <2> DEFINE k == [NoJob EXCEPT !.kind = "delete", !.at = "images", !.profile = p]
    <2>2. k.kind = "delete" /\ k.at = "images" /\ k.profile = p
      BY DEF NoJob
    <2>3. Only(Main, k)
      BY <2>1
    <2> HIDE DEF k
    <2>4. \A b \in Actors : job'[b] = IF b = Main THEN k ELSE job[b]
      BY <1>1, <2>3 DEF Only
    <2>5. removal'.at = "cover" /\ removal'.profile = p /\ removal'.deleting
      BY <2>1 DEF BeginRemoval
    <2>6. Clearing'
      BY <1>1, <2>2, <2>4, <2>5 DEF Clearing
    <2> QED BY <1>1, <1>4, <1>5, <2>2, <2>4, <2>6 DEF GoneImages, Deleting
  <1> QED BY <1>6, <1>7

\* The images are removed, or could not be.
LEMMA LoadSpares ==
    ASSUME AppTypes, GoneImages, LoadForDelete
    PROVE  GoneImages'
  <1>1. /\ job \in [Actors -> Job] /\ Main \in Actors
        /\ UNCHANGED <<dir, call, gone>> /\ removal' = NoRemoval
        /\ job[Main].at = "images" /\ removal.at \in {"removed", "failed"}
    BY DEF AppTypes, Actors, LoadForDelete, SameData, At
  <1>2. removal.deleting /\ removal.profile = job[Main].profile
    BY <1>1 DEF GoneImages, Clearing
  <1>3. ~removal'.deleting
    BY <1>1 DEF NoRemoval
  <1>4. \A t \in Tasks : call[t].at \notin Running
    BY <1>1 DEF GoneImages, Idle
  <1> DEFINE ok == session.profile = job[Main].profile
             file == Without(stored.file, job[Main].profile)
             k == [job[Main] EXCEPT !.at = "secret", !.ok = ok, !.file = file]
  <1>5. Ends(Main) \/ (removal.at = "removed" /\ Only(Main, k))
    BY <1>1 DEF LoadForDelete
  <1> HIDE DEF ok, file
  <1>6. k.at = "secret" /\ k.profile = job[Main].profile
    BY <1>1 DEF Job
  <1> HIDE DEF k
  <1>7. CASE Ends(Main)
    <2>1. \A b \in Actors : job'[b] = IF b = Main THEN NoJob ELSE job[b]
      BY <1>1, <1>7 DEF Ends, Only
    <2> QED BY <1>1, <1>3, <1>4, <2>1 DEF GoneImages, Clearing, Bare, Spares, Deleting, NoJob
  <1>8. CASE removal.at = "removed" /\ Only(Main, k)
    <2>1. \A b \in Actors : job'[b] = IF b = Main THEN k ELSE job[b]
      BY <1>1, <1>8 DEF Only
    <2>2. Bare(job[Main].profile)
      BY <1>2, <1>8 DEF GoneImages, Clearing
    <2>3. Clearing'
      BY <1>1, <1>3, <1>6, <2>1 DEF Clearing
    <2>4. (\A p \in gone : Bare(p))' /\ Bare(job[Main].profile)'
      BY <1>1, <1>6, <2>1, <2>2 DEF GoneImages, Bare
    <2> QED BY <1>1, <1>4, <1>6, <2>1, <2>3, <2>4 DEF GoneImages, Spares
  <1> QED BY <1>5, <1>7, <1>8

\* The program stops and starts again: what was there stays there.
LEMMA StopSpares ==
    ASSUME CacheTypes, AppTypes, GoneImages, NEW leave \in BOOLEAN, Stop(leave)
    PROVE  GoneImages'
  <1>1. /\ gone' = gone /\ removal' = NoRemoval
        /\ \A a \in Actors : job'[a] = NoJob
        /\ \A t \in Tasks : call'[t] = NoCall
    BY DEF Stop, CacheStops
  <1>2. ASSUME NEW i \in Images PROVE dir'[i].exists = dir[i].exists
    <2> DEFINE cut == dir[i].cut \/ \E t \in Tasks : call[t].image = i /\ call[t].at = "fill"
    <2>1. dir'[i] = [dir[i] EXCEPT !.cut = cut]
      BY DEF Stop, CacheStops
    <2>2. dir[i] \in Directory
      BY DEF CacheTypes
    <2> HIDE DEF cut
    <2> QED BY <2>1, <2>2 DEF Directory
  <1>3. Main \in Actors
    BY DEF Actors
  <1> QED BY <1>1, <1>2, <1>3 DEF GoneImages, Clearing, Bare, Spares, Deleting, NoJob, NoCall,
             NoRemoval, Running, Reading, Leading, Storing

LEMMA ImagesKeep ==
    ASSUME CacheTypes, AppInv, ImagesInv, [Next]_vars
    PROVE  ImagesInv'
  <1>0. windows' = windows
    BY WindowsStay
  <1> SUFFICES ASSUME Closed({"overlap", "removal"})
               PROVE  GoneImages'
    BY <1>0 DEF ImagesInv, Closed
  <1>1. /\ GoneImages /\ AppTypes /\ ~Open("removal") /\ ~Open("overlap")
        /\ Main \in Actors
    BY DEF ImagesInv, AppInv, Closed, Open, Actors
  <1>2. Idle => GoneNow(Main)
    BY <1>1 DEF AppInv, Works, Idle, OthersIdle
  <1>3. CASE \E t \in Tasks, kind \in Kinds, i \in Images : Idle /\ Images_(Begin(t, kind, i))
    BY <1>1, <1>2, <1>3, BeginSpares DEF Images_
  <1>4. CASE \E t \in Tasks : Task(t)
    BY <1>1, <1>4, TaskSpares
  <1>5. CASE At(Main, "idle") /\ Images_(ClearCoverArt)
    BY <1>1, <1>5, ClearSpares DEF Images_
  <1>6. CASE Remove \/ \E i \in Images : Expire(i) /\ UNCHANGED <<windows, run, calls, appVars>>
    BY <1>1, <1>6, RemovalSpares DEF Remove
  <1>7. CASE \/ \E a \in FirstOf({w \in Workers : At(w, "idle")}) : BeginConnect(a) \/ BeginBootstrap(a)
             \/ BeginDelete \/ BeginImport
    <2>1. FirstOf({w \in Workers : At(w, "idle")}) \subseteq Actors
      BY DEF FirstOf, Actors
    <2>2. Idle
      BY <1>1, <1>7 DEF BeginConnect, BeginBootstrap, BeginDelete, BeginImport, CanBegin
    <2> QED BY <1>1, <1>7, <2>1, <2>2, CommandSpares
  <1>8. ASSUME NEW a \in Actors, ConnectStep(a) \/ BootstrapStep(a) \/ (a = Main /\ DeleteSecret)
        PROVE  GoneImages'
    <2>1. PICK k : Only(a, k) /\ GoesThrough(job[a], k)
      BY <1>1, <1>8, JobGoesThrough
    <2>2. UNCHANGED <<dir, call, removal>>
      <3>1. CASE ConnectStep(a)
        BY <3>1 DEF ConnectStep, LoadForConnect, ConnectAccepted, ConnectRefused, SaveSecret,
           Truncate, Write, SetSession, Reset, SetOwner, JobFails, Same, cacheVars
      <3>2. CASE BootstrapStep(a) \/ DeleteSecret
        BY <3>2 DEF BootstrapStep, LoadForBootstrap, BootstrapAnswered, Restore, PutQueue,
           ImportSecrets, DeleteSecret, Same, cacheVars
      <3> QED BY <1>8, <3>1, <3>2
    <2>3. \/ gone' \subseteq gone
          \/ /\ gone' = gone \cup {job[a].profile}
             /\ job[a].kind = "delete" /\ job[a].at \in Deleting
      <3>1. CASE SetSession(a)
        BY <3>1 DEF SetSession, At, Deleting
      <3>2. CASE ConnectStep(a) /\ ~SetSession(a)
        BY <3>2 DEF ConnectStep, LoadForConnect, ConnectAccepted, ConnectRefused, SaveSecret,
           Truncate, Write, Reset, SetOwner, JobFails, SameData
      <3>3. CASE BootstrapStep(a) \/ DeleteSecret
        BY <3>3 DEF BootstrapStep, LoadForBootstrap, BootstrapAnswered, Restore, PutQueue,
           ImportSecrets, DeleteSecret, SameData
      <3> QED BY <1>8, <3>1, <3>2, <3>3
    <2> QED BY <1>1, <2>1, <2>2, <2>3, ThroughSpares
  <1>9. CASE \E a \in Actors : JobStep(a)
    BY <1>1, <1>8, <1>9, LoadSpares DEF JobStep
  <1>10. CASE Export \/ Play \/ UNCHANGED vars
    <2>1. UNCHANGED <<job, gone, dir, call, removal>>
      BY <1>10 DEF Export, Play, Same, vars, cacheVars, appVars
    <2> QED BY <1>1, <2>1, NothingSpares
  <1>11. CASE \E leave \in BOOLEAN : Stop(leave)
    BY <1>1, <1>11, StopSpares
  <1>12. Next \/ UNCHANGED vars
    OBVIOUS
  <1>13. FirstOf({s \in Tasks : call[s].at = "idle"}) \subseteq Tasks
    BY DEF FirstOf
  <1> QED BY <1>1, <1>3, <1>4, <1>5, <1>6, <1>7, <1>9, <1>10, <1>11, <1>12, <1>13 DEF Next

LEMMA InitImages ==
    ASSUME Init
    PROVE  ImagesInv
  <1>1. /\ gone = {} /\ removal = NoRemoval /\ Main \in Actors
        /\ \A a \in Actors : job[a] = NoJob
        /\ \A t \in Tasks : call[t] = NoCall
    BY DEF Init, CacheInit, Actors
  <1> QED BY <1>1 DEF ImagesInv, GoneImages, Clearing, Spares, Deleting, NoJob, NoCall, NoRemoval,
             Running, Reading, Leading, Storing

\* Of a profile that was deleted nothing comes back, for any profiles, images,
\* threads and workers, while commands take turns (DeletedIsGone;
\* delete_server_profile).
THEOREM DeletedStaysDeleted == Spec => []DeletedIsGone
  <1> DEFINE I == CacheInv /\ AppInv /\ ImagesInv
  <1>1. Init => I
    BY InitInv, InitKeeps, InitImages
  <1>2. I /\ [Next]_vars => I'
    BY NextInv, NextKeeps, ImagesKeep DEF CacheInv
  <1>3. I => DeletedIsGone
    <2> SUFFICES ASSUME I, Closed({"overlap", "removal"}), NEW p \in gone
                 PROVE  /\ stored.file.account[p] = None /\ stored.file.last # p /\ secrets[p] = None
                        /\ Idle => session.profile # p /\ player.profile # p
                        /\ \A i \in Images : OwnerOf[i] = p => ~dir[i].exists
      BY DEF DeletedIsGone
    <2>1. PICK a \in Actors : OthersIdle(a)
      BY DEF AppInv, OneJob, Closed
    <2>2. GoneFits(gone, session, stored, secrets, player, job[a])
      BY <2>1 DEF AppInv, Works, GoneNow
    <2>3. Bare(p)
      BY DEF ImagesInv, GoneImages
    <2>4. Idle => session.profile # p /\ player.profile # p
      BY <2>2 DEF GoneFits, Idle
    <2> QED BY <2>2, <2>3, <2>4 DEF GoneFits, NotIn, Bare
  <1> QED BY <1>1, <1>2, <1>3, PTL DEF Spec

-----------------------------------------------------------------------------
(***************************************************************************)
(* What a call is answered with.                                           *)
(***************************************************************************)

\* A file of the directory d that a call may be answered with; over says that
\* something was taken or cut short since the call saw it.
Fits(d, n, over) ==
    \/ d.files[n] = "whole"
    \/ d.files[n] = "none" /\ over
    \/ d.files[n] = "torn" /\ (d.cut \/ (n \notin Finals /\ over))

\* The torn file that a leader fills.
Filled(i, n) ==
    /\ n = Temp /\ dir[i].files[n] = "torn"
    /\ \E s \in Tasks : call[s].at = "fill" /\ call[s].image = i

\* What the store has put under its name.
Put(i, over) ==
    \/ dir[i].files[Final(i)] = "whole"
    \/ dir[i].files[Final(i)] = "none" /\ over

Named == {"metaTemp", "metaReplace", "metaRename", "sweep"}

\* A follower's leader is under way, or has ended with an answer that fits.
Followed(c) ==
    LET l == call[c.follows]
    IN \/ l.at \in Leading /\ l.image = c.image /\ (l.over => c.over)
       \/ l.at = "done" /\ (l.result \in Names => Fits(dir[c.image], l.result, c.over))

Served(t) ==
    LET c == call[t]
        i == c.image
    IN /\ c.at \in {"acquire", "fetch"} /\ c.found \in Names =>
            Fits(dir[i], c.found, c.over) \/ (c.at = "acquire" /\ Filled(i, c.found))
       /\ c.at = "leave" /\ c.result \in Names => Fits(dir[i], c.result, c.over)
       /\ c.at \in Named => Put(i, c.over)
       /\ c.at = "wait" => Followed(c)
       /\ c.at # "wait" => c.follows = None

\* A flight is led by its task, or its leader has panicked.
Flown(i) ==
    flight[i] # None =>
        LET l == call[flight[i]]
        IN \/ l.at \in Leading /\ l.image = i
           \/ l.at = "done" /\ l.result \notin Names

\* A torn file is a temporary one that is being filled, or was cut short.
TornAt(i) ==
    \A n \in Names : dir[i].files[n] = "torn" => n \notin Finals /\ (dir[i].cut \/ Filled(i, n))

ServeInv == (\A t \in Tasks : Served(t)) /\ (\A i \in Images : Flown(i) /\ TornAt(i))

LEMMA FitsMore ==
    ASSUME NEW d, NEW n, NEW over, NEW more, over => more, Fits(d, n, over)
    PROVE  Fits(d, n, more)
  BY DEF Fits

LEMMA AtFacts ==
    /\ Named \subseteq Storing /\ Storing \subseteq Leading /\ Leading \subseteq Running
    /\ {"fill", "temp", "replace", "rename", "mkdir"} \subseteq Storing
    /\ {"fetch", "leave"} \subseteq Leading \ Storing
    /\ {"idle", "done"} \cap Running = {}
    /\ {"acquire", "wait", "meta", "file", "list", "client"} \subseteq Running \ Leading
    /\ {"fill", "temp", "replace", "rename", "mkdir", "fetch", "leave", "wait", "acquire"} \cap Named = {}
  BY DEF Named, Storing, Leading, Running, Reading

LEMMA NoName == NoFile \notin Names /\ Error \notin Names
  BY CacheAssumption DEF NoFile, Error, Names, MaxVersion

\* What of one call is left to show when only its mark has changed.
LEMMA ServedOn ==
    ASSUME NEW s \in Tasks, Served(s),
           call'[s].at = call[s].at, call'[s].image = call[s].image,
           call'[s].found = call[s].found, call'[s].result = call[s].result,
           call'[s].follows = call[s].follows,
           NEW i, i = call[s].image,
           call[s].at \in {"acquire", "fetch", "leave"}
              \/ (call[s].at = "wait" /\ call[call[s].follows].at = "done") =>
                \A n \in Names : Fits(dir[i], n, call[s].over) => Fits(dir'[i], n, call'[s].over),
           call[s].at = "acquire" =>
                \A n \in Names : Filled(i, n) => Fits(dir'[i], n, call'[s].over) \/ Filled(i, n)',
           call[s].at \in Named /\ Put(i, call[s].over) => Put(i, call[s].over)',
           call[s].at = "wait" =>
                LET l == call[s].follows
                IN /\ call[l].at = "done" => call'[l].at = "done" /\ call'[l].result = call[l].result
                   /\ call[l].at \in Leading =>
                         call'[l].at \in Leading /\ call'[l].image = call[l].image
                   /\ call[l].at \in Leading /\ (call[l].over => call[s].over) =>
                         (call'[l].over => call'[s].over)
    PROVE  Served(s)'
  <1>1. call'[s].at \in {"acquire", "fetch"} /\ call'[s].found \in Names =>
            Fits(dir'[i], call'[s].found, call'[s].over)
              \/ (call'[s].at = "acquire" /\ Filled(i, call[s].found)')
    <2> SUFFICES ASSUME call[s].at \in {"acquire", "fetch"}, call[s].found \in Names
                 PROVE  Fits(dir'[i], call[s].found, call'[s].over)
                          \/ (call[s].at = "acquire" /\ Filled(i, call[s].found)')
      OBVIOUS
    <2>1. Fits(dir[i], call[s].found, call[s].over)
             \/ (call[s].at = "acquire" /\ Filled(i, call[s].found))
      BY DEF Served
    <2> QED BY <2>1
  <1>2. call'[s].at = "leave" /\ call'[s].result \in Names =>
            Fits(dir'[i], call'[s].result, call'[s].over)
    BY DEF Served
  <1>3. call'[s].at \in Named => Put(i, call[s].over)'
    BY DEF Served
  <1>4. call'[s].at = "wait" => Followed(call[s])'
    BY DEF Served, Followed
  <1> QED BY <1>1, <1>2, <1>3, <1>4 DEF Served

\* What a call is answered with in a step of its own.
Answered(t) ==
    (call[t].at \in Running /\ call'[t].at = "done" /\ call'[t].result \in Names) =>
        Fits(dir[call[t].image], call'[t].result, call[t].over)
Serves == ServeInv' /\ \A t \in Tasks : Answered(t)

\* A step of t that leaves the directories alone.
LEMMA CallServes ==
    ASSUME CacheTypes, ServeInv, NEW t \in Tasks, NEW c, dir' = dir, run' = run,
           call' = [call EXCEPT ![t] = c], call[t].at \notin {"fill", "done"},
           Served(t)', \A i \in Images : Flown(i)',
           call[t].at \in Leading =>
                \/ c.at \in Leading /\ c.image = call[t].image /\ (c.over => call[t].over)
                \/ c.at = "done" /\ (c.result \in Names =>
                                        call[t].at = "leave" /\ c.result = call[t].result),
           c.at = "done" /\ c.result \in Names => Fits(dir[call[t].image], c.result, call[t].over)
    PROVE  Serves
  <1>1. call'[t] = c /\ \A s \in Tasks \ {t} : call'[s] = call[s]
    BY DEF CacheTypes
  <1>2. Temp' = Temp
    BY DEF Temp
  <1>3. \A i, n : Filled(i, n) => Filled(i, n)'
    BY <1>1, <1>2 DEF Filled
  <1>4. ASSUME NEW i \in Images PROVE TornAt(i)'
    <2>1. TornAt(i)
      BY DEF ServeInv
    <2> QED BY <1>3, <2>1 DEF TornAt
  <1>5. ASSUME NEW s \in Tasks \ {t} PROVE Served(s)'
    <2> DEFINE l == call[s].follows
               i == call[s].image
    <2>1. Served(s) /\ Served(t)
      BY DEF ServeInv
    <2>2. call'[s] = call[s]
      BY <1>1
    <2>3. ASSUME call[s].at = "wait" PROVE Followed(call[s])'
      <3>1. Followed(call[s])
        BY <2>1, <2>3 DEF Served
      <3>2. CASE l # t
        <4>1. call'[l] = call[l]
          BY <1>1, <3>2 DEF CacheTypes
        <4> QED BY <2>2, <3>1, <4>1 DEF Followed
      <3>3. CASE l = t
        <4>1. /\ call[t].at \in Leading /\ call[t].image = i
              /\ call[t].over => call[s].over
          BY <3>1, <3>3 DEF Followed
        <4>2. CASE c.at \in Leading /\ c.image = call[t].image /\ (c.over => call[t].over)
          BY <1>1, <2>2, <3>3, <4>1, <4>2 DEF Followed
        <4>3. CASE c.at = "done" /\ (c.result \in Names =>
                                       call[t].at = "leave" /\ c.result = call[t].result)
          <5>1. c.result \in Names => Fits(dir[i], c.result, call[t].over)
            BY <2>1, <4>1, <4>3 DEF Served
          <5>2. c.result \in Names => Fits(dir[i], c.result, call[s].over)
            BY <4>1, <5>1, FitsMore
          <5> QED BY <1>1, <2>2, <3>3, <4>3, <5>2 DEF Followed
        <4> QED BY <4>1, <4>2, <4>3
      <3> QED BY <3>2, <3>3
    <2>4. Put(i, call[s].over) => Put(i, call[s].over)'
      BY <2>2 DEF Put, Final
    <2> QED BY <1>3, <2>1, <2>2, <2>3, <2>4 DEF Served
  <1>6. ServeInv'
    BY <1>4, <1>5 DEF ServeInv
  <1>7. ASSUME NEW s \in Tasks PROVE Answered(s)
    <2>1. CASE s = t
      BY <1>1, <2>1 DEF Answered
    <2>2. CASE s # t
      <3>1. call'[s] = call[s]
        BY <1>1, <2>2
      <3> QED BY <3>1, AtFacts DEF Answered
    <2> QED BY <2>1, <2>2
  <1> QED BY <1>6, <1>7 DEF Serves

\* The mark of another call is all that changes of it.
Marked(s) == call'[s] = call[s] \/ call'[s] = [call[s] EXCEPT !.over = TRUE]

LEMMA MarkedFields ==
    ASSUME CacheTypes, NEW s \in Tasks, Marked(s)
    PROVE  /\ call'[s].at = call[s].at /\ call'[s].image = call[s].image
           /\ call'[s].found = call[s].found /\ call'[s].result = call[s].result
           /\ call'[s].follows = call[s].follows
           /\ call[s].over => call'[s].over
  <1>1. call[s] \in Call
    BY DEF CacheTypes
  <1> QED BY <1>1 DEF Marked, Call

\* The leader t changes the directory of its image i.
LEMMA StoreServes ==
    ASSUME CacheInv, ServeInv, NEW t \in Tasks, call[t].at \in Storing,
           NEW i, i = call[t].image, run' = run, flight' = flight,
           \A j \in Images \ {i} : dir'[j] = dir[j],
           call'[t].at \in Leading, call'[t].image = i, call'[t].over => call[t].over,
           \A s \in Tasks \ {t} : Marked(s) /\ (call[s].image # i => call'[s] = call[s]),
           \A s \in Tasks \ {t} :
              call[s].at \in Running /\ call[s].image = i /\ call[s].follows # t =>
                \A n \in Names : Fits(dir[i], n, call[s].over) => Fits(dir'[i], n, call'[s].over),
           call[t].at = "fill" /\ dir[i].files[Temp] = "torn" =>
              \A over : Fits(dir'[i], Temp, over),
           TornAt(i)', Served(t)'
    PROVE  Serves
  <1>1. /\ i \in Images
        /\ \A s \in Tasks \ {t} : call[s].at \in Leading => call[s].image # i
    BY OneLeader, AtFacts
  <1>2. Temp' = Temp
    BY DEF Temp
  <1>3. ASSUME NEW s \in Tasks \ {t}
        PROVE  /\ call'[s].at = call[s].at /\ call'[s].image = call[s].image
               /\ call'[s].found = call[s].found /\ call'[s].result = call[s].result
               /\ call'[s].follows = call[s].follows
               /\ call[s].over => call'[s].over
    BY MarkedFields DEF CacheInv
  <1>4. ASSUME NEW j \in Images \ {i}, NEW n, Filled(j, n) PROVE Filled(j, n)'
    BY <1>2, <1>3, <1>4 DEF Filled
  <1>5. ASSUME NEW n, Filled(i, n) PROVE call[t].at = "fill" /\ n = Temp /\ dir[i].files[Temp] = "torn"
    BY <1>1, <1>5, AtFacts DEF Filled
  <1>6. ASSUME NEW j \in Images PROVE TornAt(j)'
    <2>1. CASE j = i
      BY <2>1
    <2>2. CASE j # i
      <3>1. TornAt(j) /\ dir'[j] = dir[j]
        BY <2>2 DEF ServeInv
      <3> QED BY <1>4, <2>2, <3>1 DEF TornAt
    <2> QED BY <2>1, <2>2
  <1>7. ASSUME NEW j \in Images PROVE Flown(j)'
    <2>1. Flown(j) /\ flight[j] \in Tasks \cup {None}
      BY DEF ServeInv, CacheInv, CacheTypes
    <2>2. flight[j] = t => j = i
      BY <2>1, AtFacts, CacheAssumption DEF Flown
    <2> QED BY <1>3, <2>1, <2>2, AtFacts, CacheAssumption DEF Flown
  <1>8. ASSUME NEW s \in Tasks \ {t} PROVE Served(s)'
    <2> DEFINE j == call[s].image
               l == call[s].follows
    <2>1. Served(s) /\ (call[s].at \in Running => j \in Images)
      BY DEF ServeInv, CacheInv, Leads
    <2>2. call[s].at = "wait" => l \in Tasks
      BY DEF CacheInv, Leads
    <2>3. call[t].at \in Leading /\ call[t].at # "done"
      BY AtFacts
    <2>4. ASSUME call[s].at \in {"acquire", "fetch", "leave"}
                    \/ (call[s].at = "wait" /\ call[l].at = "done"), NEW n \in Names,
                 Fits(dir[j], n, call[s].over)
          PROVE  Fits(dir'[j], n, call'[s].over)
      <3>1. call[s].at \in Running /\ j \in Images
        BY <2>1, <2>4, AtFacts
      <3>2. CASE j # i
        BY <2>4, <3>1, <3>2
      <3>3. CASE j = i
        <4>1. l # t
          <5>1. CASE call[s].at # "wait"
            BY <2>1, <5>1, CacheAssumption DEF Served
          <5>2. CASE call[s].at = "wait"
            BY <2>3, <2>4, <5>2
          <5> QED BY <5>1, <5>2
        <4> QED BY <2>4, <3>1, <3>3, <4>1
      <3> QED BY <3>2, <3>3
    <2>5. ASSUME call[s].at = "acquire", NEW n \in Names, Filled(j, n)
          PROVE  Fits(dir'[j], n, call'[s].over) \/ Filled(j, n)'
      <3>1. j \in Images
        BY <2>1, <2>5, AtFacts
      <3>2. CASE j # i
        BY <1>4, <2>5, <3>1, <3>2
      <3>3. CASE j = i
        <4>1. Filled(i, n)
          BY <2>5, <3>3
        <4> QED BY <1>5, <3>3, <4>1
      <3> QED BY <3>2, <3>3
    <2>6. ASSUME call[s].at \in Named, Put(j, call[s].over)
          PROVE  Put(j, call[s].over)'
      <3>1. j # i /\ j \in Images
        BY <1>1, <2>1, <2>6, AtFacts
      <3>2. call'[s] = call[s] /\ dir'[j] = dir[j]
        BY <3>1
      <3> QED BY <2>6, <3>2 DEF Put, Final
    <2>7. ASSUME call[s].at = "wait"
          PROVE  /\ call[l].at = "done" => call'[l].at = "done" /\ call'[l].result = call[l].result
                 /\ call[l].at \in Leading =>
                       call'[l].at \in Leading /\ call'[l].image = call[l].image
                 /\ call[l].at \in Leading /\ (call[l].over => call[s].over) =>
                       (call'[l].over => call'[s].over)
      <3>1. l \in Tasks /\ call[s].over => call'[s].over
        BY <1>3, <2>2, <2>7
      <3>2. CASE l = t
        BY <1>3, <2>3, <3>2
      <3>3. CASE l # t
        <4>1. call[l].at \in Leading => call'[l] = call[l]
          BY <1>1, <2>2, <2>7, <3>3
        <4> QED BY <1>3, <2>2, <2>7, <3>3, <4>1
      <3> QED BY <3>2, <3>3
    <2> HIDE DEF j, l
    <2>8. s \in Tasks
      OBVIOUS
    <2> QED BY <1>3, <2>1, <2>4, <2>5, <2>6, <2>7, <2>8, ServedOn DEF j, l
  <1>9. ServeInv'
    BY <1>6, <1>7, <1>8 DEF ServeInv
  <1>10. ASSUME NEW s \in Tasks PROVE Answered(s)
    <2>1. call'[s].at = "done" => call[s].at = "done"
      <3>1. CASE s = t
        BY <3>1, AtFacts
      <3>2. CASE s # t
        BY <1>3, <3>2
      <3> QED BY <3>1, <3>2
    <2> QED BY <2>1, AtFacts DEF Answered
  <1> QED BY <1>9, <1>10 DEF Serves

\* What becomes of a call that has looked at a directory.
LEMMA FoundFields ==
    ASSUME NEW c \in Call, c.follows = None, NEW name, NEW fresh \in BOOLEAN,
           NEW f, f = Found(c, name, fresh)
    PROVE  /\ f.at \in {"done", "acquire", "meta", "client"} /\ f.follows = None
           /\ f.at = "acquire" => f.found = name /\ f.image = c.image /\ f.over = c.over
           /\ f.at = "done" => f.result = NoFile \/ (fresh /\ f.result = name)
  <1> DEFINE r == [c EXCEPT !.meta = NoMeta]
  <1>1. /\ r \in Call /\ r.image = c.image /\ r.over = c.over /\ r.follows = None
        /\ r.looking = c.looking
    BY NothingTypes DEF Call
  <1>2. ASSUME NEW result
        PROVE  Done(result).at = "done" /\ Done(result).follows = None /\ Done(result).result = result
    BY DEF Done, NoCall
  <1>3. CASE fresh
    <2>1. f = Done(name)
      BY <1>3 DEF Found
    <2> QED BY <1>2, <1>3, <2>1
  <1>4. CASE ~fresh /\ ~c.looking
    <2>1. f = [r EXCEPT !.at = "acquire", !.found = name]
      BY <1>1, <1>4 DEF Found
    <2> HIDE DEF r
    <2> QED BY <1>1, <2>1 DEF Call
  <1>5. CASE ~fresh /\ c.looking /\ c.todo # <<>>
    <2>1. f = [r EXCEPT !.at = "meta", !.image = Head(c.todo), !.todo = Tail(c.todo),
                        !.over = FALSE]
      BY <1>1, <1>5 DEF Found
    <2> HIDE DEF r
    <2> QED BY <1>1, <2>1 DEF Call
  <1>6. CASE ~fresh /\ c.looking /\ c.todo = <<>>
    <2>1. \/ f = Done(NoFile)
          \/ f = [r EXCEPT !.at = "client", !.image = c.exact]
      BY <1>1, <1>6 DEF Found
    <2> HIDE DEF r
    <2>2. CASE f = Done(NoFile)
      BY <1>2, <2>2
    <2>3. CASE f = [r EXCEPT !.at = "client", !.image = c.exact]
      BY <1>1, <2>3 DEF Call
    <2> QED BY <2>1, <2>2, <2>3
  <1> QED BY <1>3, <1>4, <1>5, <1>6

\* A flight is not of a task that does not lead.
LEMMA FlownOn ==
    ASSUME CacheTypes, ServeInv, NEW t \in Tasks, NEW c, flight' = flight,
           call' = [call EXCEPT ![t] = c],
           call[t].at \notin Leading \cup {"done"}
    PROVE  \A i \in Images : Flown(i)'
  <1> SUFFICES ASSUME NEW i \in Images, flight[i] # None PROVE Flown(i)'
    BY DEF Flown
  <1>1. Flown(i) /\ flight[i] \in Tasks
    BY DEF ServeInv, CacheTypes
  <1>2. flight[i] # t
    BY <1>1 DEF Flown
  <1>3. call'[flight[i]] = call[flight[i]]
    BY <1>1, <1>2 DEF CacheTypes
  <1> QED BY <1>1, <1>3 DEF Flown

\* A call that looks on, or looks no more, and holds no file.
LEMMA LooksServes ==
    ASSUME CacheTypes, ServeInv, NEW t \in Tasks, NEW c, dir' = dir, run' = run, flight' = flight,
           call' = [call EXCEPT ![t] = c], call[t].at \in (Running \ Leading) \cup {"idle"},
           c.follows = None,
           \/ c.at \in {"meta", "file", "list", "client"}
           \/ c.at = "done" /\ (c.result \in Names =>
                                   Fits(dir[call[t].image], c.result, call[t].over))
           \/ /\ c.at = "acquire"
              /\ c.found \in Names => Fits(dir[c.image], c.found, c.over) \/ Filled(c.image, c.found)
    PROVE  Serves
  <1>1. call'[t] = c
    BY DEF CacheTypes
  <1>2. call[t].at \notin {"fill", "done"} /\ call[t].at \notin Leading
    BY AtFacts
  <1>3. \A i \in Images : Flown(i)'
    BY <1>2, FlownOn
  <1>4. ASSUME c.at = "acquire", NEW n, Filled(c.image, n) PROVE Filled(c.image, n)'
    <2>1. Temp' = Temp
      BY DEF Temp
    <2>2. \A s \in Tasks : call[s].at = "fill" => call'[s] = call[s]
      BY <1>2 DEF CacheTypes
    <2> QED BY <1>4, <2>1, <2>2 DEF Filled
  <1>5. Served(t)'
    <2>1. CASE c.at = "acquire"
      <3>1. c.found \in Names => Fits(dir[c.image], c.found, c.over) \/ Filled(c.image, c.found)'
        BY <1>4, <2>1
      <3> QED BY <1>1, <2>1, <3>1, AtFacts DEF Served
    <2>2. CASE c.at # "acquire"
      BY <1>1, <2>2, AtFacts DEF Served
    <2> QED BY <2>1, <2>2
  <1> QED BY <1>2, <1>3, <1>5, CallServes

LEMMA BeginServes ==
    ASSUME CacheInv, ServeInv, run' = run,
           NEW t \in Tasks, NEW kind \in Kinds, NEW i \in Images, Begin(t, kind, i)
    PROVE  Serves
  <1> DEFINE todo == IF kind = "artist" THEN <<>> ELSE Larger[i]
             looks == kind # "artist"
             c == [NoCall EXCEPT !.kind = kind, !.at = "meta", !.image = i, !.exact = i,
                                 !.looking = looks, !.todo = todo]
  <1>1. /\ call' = [call EXCEPT ![t] = c] /\ call[t].at = "idle"
        /\ flight' = flight /\ dir' = dir
    BY DEF Begin
  <1> HIDE DEF todo, looks
  <1>2. c.at = "meta" /\ c.follows = None
    BY DEF NoCall
  <1> HIDE DEF c
  <1> QED BY <1>1, <1>2, LooksServes DEF CacheInv

\* Whatever is there and has the name of an image is whole.
LEMMA ReadServes ==
    ASSUME CacheInv, ServeInv, run' = run, NEW t \in Tasks, Read(t)
    PROVE  Serves
  <1> DEFINE c == call[t]
             i == c.image
  <1>1. c.at \in Reading /\ flight' = flight /\ dir' = dir /\ CacheTypes
    BY DEF Read, ReadMeta, ReadFile, ReadDir, Reading, CacheInv
  <1>2. c.at \in (Running \ Leading) /\ c.at # "wait"
    BY <1>1 DEF Reading, Running, Leading, Storing
  <1>3. /\ c \in Call /\ c.follows = None /\ i \in Images /\ dir[i] \in Directory
        /\ TornAt(i)
    BY <1>2 DEF CacheInv, CacheTypes, Leads, ServeInv, Served
  <1>4. ASSUME NEW d, call' = [call EXCEPT ![t] = d], d.follows = None,
               \/ d.at \in {"meta", "file", "list", "client"}
               \/ d.at = "done" /\ (d.result \in Names => Fits(dir[i], d.result, c.over))
               \/ /\ d.at = "acquire"
                  /\ d.found \in Names => Fits(dir[d.image], d.found, d.over) \/ Filled(d.image, d.found)
        PROVE  Serves
    BY <1>1, <1>2, <1>4, LooksServes
  <1>5. ASSUME NEW name, NEW fresh \in BOOLEAN, call' = [call EXCEPT ![t] = Found(c, name, fresh)],
               name \in Names => Fits(dir[i], name, c.over) \/ (~fresh /\ Filled(i, name))
        PROVE  Serves
    <2> DEFINE f == Found(c, name, fresh)
    <2>1. /\ f.at \in {"done", "acquire", "meta", "client"} /\ f.follows = None
          /\ f.at = "acquire" => f.found = name /\ f.image = c.image /\ f.over = c.over
          /\ f.at = "done" => f.result = NoFile \/ (fresh /\ f.result = name)
      BY <1>3, FoundFields
    <2> HIDE DEF f
    <2>2. CASE f.at = "acquire"
      BY <1>4, <1>5, <2>1, <2>2 DEF f
    <2>3. CASE f.at # "acquire"
      BY <1>4, <1>5, <2>1, <2>3, NoName DEF f
    <2> QED BY <2>2, <2>3
  <1>6. CASE ReadMeta(t)
    <2> DEFINE meta == dir[i].meta
               at == IF meta = NoMeta THEN "list" ELSE "file"
               d == [c EXCEPT !.at = at, !.meta = meta]
    <2>1. call' = [call EXCEPT ![t] = d]
      BY <1>6 DEF ReadMeta, CacheInv, CacheTypes
    <2>2. at \in {"list", "file"}
      OBVIOUS
    <2> HIDE DEF meta, at
    <2>3. d.at = at /\ d.follows = None
      BY <1>3 DEF Call
    <2> HIDE DEF d
    <2> QED BY <1>4, <2>1, <2>2, <2>3
  <1>7. CASE ReadFile(t)
    <2> DEFINE d == [c EXCEPT !.at = "list", !.meta = NoMeta]
               name == c.meta.name
    <2>1. call' = [call EXCEPT ![t] = IF Present(i, name) THEN Found(c, name, c.meta.fresh) ELSE d]
      BY <1>7 DEF ReadFile
    <2>2. d.at = "list" /\ d.follows = None
      BY <1>3 DEF Call
    <2>3. name \in Finals \cup {NoFile} /\ c.meta.fresh \in BOOLEAN
      BY <1>3 DEF Call, Meta
    <2> HIDE DEF d
    <2>4. CASE ~Present(i, name)
      BY <1>4, <2>1, <2>2, <2>4
    <2>5. CASE Present(i, name)
      <3>1. name \in Names /\ dir[i].files[name] = "whole"
        BY <1>3, <2>3, <2>5, NameFacts DEF Present, TornAt, Directory
      <3>2. Fits(dir[i], name, c.over)
        BY <3>1 DEF Fits
      <3> QED BY <1>5, <2>1, <2>3, <2>5, <3>2
    <2> QED BY <2>4, <2>5
  <1>8. CASE ReadDir(t)
    <2>1. PICK name \in Last(PresentIn(i)) : call' = [call EXCEPT ![t] = Found(c, name, FALSE)]
      BY <1>8 DEF ReadDir
    <2>2. ASSUME name \in Names PROVE Fits(dir[i], name, c.over) \/ Filled(i, name)
      <3>1. name \in PresentIn(i)
        BY <2>1, <2>2, NoName DEF Last
      <3>2. dir[i].files[name] \in {"torn", "whole"}
        BY <1>3, <3>1 DEF PresentIn, Directory
      <3> QED BY <1>3, <2>2, <3>2 DEF TornAt, Fits
    <2> QED BY <1>5, <2>1, <2>2
  <1> QED BY <1>6, <1>7, <1>8 DEF Read

LEMMA DoneFields ==
    ASSUME NEW result
    PROVE  /\ Done(result).at = "done" /\ Done(result).follows = None
           /\ Done(result).result = result
  BY DEF Done, NoCall

LEMMA CompletedFields ==
    ASSUME NEW c \in Call, NEW result, NEW d, d = CompletedCall(c, result)
    PROVE  /\ d.at = "leave" /\ d.result = result /\ d.image = c.image
           /\ d.over = c.over /\ d.follows = c.follows
  BY DEF Call, CompletedCall

\* A flight stays with its leader, or with one that has panicked.
LEMMA FlownStays ==
    ASSUME CacheTypes, ServeInv, NEW t \in Tasks, NEW c, flight' = flight,
           call' = [call EXCEPT ![t] = c], call[t].at \in Leading,
           \/ c.at \in Leading /\ c.image = call[t].image
           \/ c.at = "done" /\ c.result \notin Names
    PROVE  \A i \in Images : Flown(i)'
  <1> SUFFICES ASSUME NEW i \in Images, flight[i] # None PROVE Flown(i)'
    BY DEF Flown
  <1>1. Flown(i) /\ flight[i] \in Tasks
    BY DEF ServeInv, CacheTypes
  <1>2. CASE flight[i] = t
    <2>1. call[t].image = i
      BY <1>1, <1>2, AtFacts DEF Flown
    <2>2. call'[t] = c
      BY DEF CacheTypes
    <2> QED BY <1>2, <2>1, <2>2 DEF Flown, Names, Finals, MaxVersion
  <1>3. CASE flight[i] # t
    <2>1. call'[flight[i]] = call[flight[i]]
      BY <1>1, <1>3 DEF CacheTypes
    <2> QED BY <1>1, <2>1 DEF Flown
  <1> QED BY <1>2, <1>3

LEMMA AcquireServes ==
    ASSUME CacheInv, ServeInv, run' = run, NEW t \in Tasks, Acquire(t)
    PROVE  Serves
  <1> DEFINE i == call[t].image
  <1>1. /\ call[t] \in Call /\ dir' = dir /\ call[t].at = "acquire" /\ CacheTypes
        /\ call[t].at \notin Leading /\ Served(t)
    BY AtFacts DEF CacheInv, CacheTypes, Acquire, ServeInv
  <1>2. i \in Images /\ Flown(i) /\ (flight[i] # None => flight[i] \in Tasks)
    BY <1>1, AtFacts DEF CacheInv, CacheTypes, Leads, ServeInv
  <1>3. call[t].follows = None
    BY <1>1 DEF Served
  <1> HIDE DEF i
  <1>4. CASE flight[i] = None
    <2> DEFINE c == [call[t] EXCEPT !.at = "fetch"]
    <2>1. call' = [call EXCEPT ![t] = c] /\ flight' = [flight EXCEPT ![i] = t]
      BY <1>1, <1>4 DEF Acquire, i
    <2>2. /\ c.at = "fetch" /\ c.image = i /\ c.found = call[t].found /\ c.over = call[t].over
          /\ c.follows = None
      BY <1>1, <1>3 DEF Call, i
    <2> HIDE DEF c
    <2>3. call'[t] = c /\ flight'[i] = t
      BY <1>1, <1>2, <2>1 DEF CacheTypes
    <2>4. ASSUME NEW j \in Images PROVE Flown(j)'
      <3>1. CASE j = i
        BY <2>2, <2>3, <3>1, AtFacts DEF Flown
      <3>2. CASE j # i
        <4>1. flight'[j] = flight[j] /\ Flown(j) /\ (flight[j] # None => flight[j] \in Tasks)
          BY <1>1, <2>1, <3>2 DEF CacheTypes, ServeInv
        <4>2. flight[j] # None => flight[j] # t
          BY <1>1, <4>1 DEF Flown
        <4>3. flight[j] # None => call'[flight[j]] = call[flight[j]]
          BY <1>1, <2>1, <4>1, <4>2 DEF CacheTypes
        <4> QED BY <4>1, <4>3 DEF Flown
      <3> QED BY <3>1, <3>2
    <2>5. ASSUME c.found \in Names PROVE Fits(dir[i], c.found, c.over)
      <3>1. ~Filled(i, c.found)
        <4>1. \A s \in Tasks : call[s].at = "fill" /\ call[s].image = i => flight[i] = s
          BY AtFacts DEF CacheInv, Leads
        <4> QED BY <1>4, <4>1, CacheAssumption DEF Filled
      <3> QED BY <1>1, <2>2, <2>5, <3>1 DEF Served, i
    <2>6. Served(t)'
      BY <1>1, <2>2, <2>3, <2>5, AtFacts DEF Served
    <2> QED BY <1>1, <2>1, <2>2, <2>4, <2>6, CallServes
  <1>5. CASE flight[i] # None
    <2> PICK l \in Tasks : l = flight[i]
      BY <1>2, <1>5
    <2> DEFINE c == [call[t] EXCEPT !.at = "wait", !.follows = l, !.over = call[l].over]
    <2>1. call' = [call EXCEPT ![t] = c] /\ flight' = flight
      BY <1>1, <1>5 DEF Acquire, i
    <2>2. c.at = "wait" /\ c.image = i /\ c.over = call[l].over /\ c.follows = l
      BY <1>1 DEF Call, i
    <2> HIDE DEF c
    <2>3. \/ call[l].at \in Leading /\ call[l].image = i
          \/ call[l].at = "done" /\ call[l].result \notin Names
      BY <1>2, <1>5 DEF Flown
    <2>4. call'[t] = c /\ call'[l] = call[l]
      BY <1>1, <2>1, <2>3 DEF CacheTypes
    <2>5. Followed(call[t])'
      BY <1>1, <2>2, <2>3, <2>4 DEF Followed
    <2>6. Served(t)'
      BY <2>2, <2>4, <2>5, AtFacts DEF Served
    <2>7. \A j \in Images : Flown(j)'
      BY <1>1, <2>1, FlownOn
    <2> QED BY <1>1, <2>1, <2>2, <2>6, <2>7, CallServes
  <1> QED BY <1>4, <1>5

\* A follower is answered with its leader's answer.
LEMMA WaitServes ==
    ASSUME CacheInv, ServeInv, run' = run, NEW t \in Tasks, Wait(t)
    PROVE  Serves
  <1> DEFINE i == call[t].image
             l == call[t].follows
             c == Done(call[l].result)
  <1>1. /\ call' = [call EXCEPT ![t] = c] /\ call[t].at = "wait" /\ Completes(l, i)
        /\ flight' = flight /\ dir' = dir /\ CacheTypes /\ l \in Tasks /\ i \in Images
    BY AtFacts DEF CacheInv, Leads, Wait
  <1>2. Followed(call[t]) /\ Served(l)
    BY <1>1 DEF ServeInv, Served
  <1>3. ASSUME call[l].result \in Names PROVE Fits(dir[i], call[l].result, call[t].over)
    <2>1. CASE call[l].at = "done"
      BY <1>2, <1>3, <2>1, AtFacts DEF Followed
    <2>2. CASE call[l].at # "done"
      <3>1. /\ call[l].at \in Leading /\ call[l].image = i
            /\ call[l].over => call[t].over
        BY <1>2, <2>2 DEF Followed
      <3>2. call[l].at = "leave"
        BY <1>1, <3>1 DEF Completes, CacheInv, Leads
      <3>3. Fits(dir[i], call[l].result, call[l].over)
        BY <1>2, <1>3, <3>1, <3>2 DEF Served
      <3> QED BY <3>1, <3>3, FitsMore
    <2> QED BY <2>1, <2>2
  <1>4. c.at = "done" /\ c.follows = None /\ c.result = call[l].result
    BY DoneFields
  <1>5. call[t].at \in (Running \ Leading) \cup {"idle"}
    BY <1>1, AtFacts
  <1> HIDE DEF c, i
  <1> QED BY <1>1, <1>3, <1>4, <1>5, LooksServes DEF i

\* A leader that goes on, completes its flight or panics.
LEMMA LeadServes ==
    ASSUME CacheInv, ServeInv, run' = run, NEW t \in Tasks, NEW c, flight' = flight, dir' = dir,
           call' = [call EXCEPT ![t] = c],
           call[t].at \in Leading, call[t].at # "fill", c.follows = None,
           \/ c.at = "done" /\ c.result \notin Names
           \/ /\ c.at \in {"mkdir", "leave"} /\ c.image = call[t].image /\ c.over = call[t].over
              /\ c.at = "leave" /\ c.result \in Names => Fits(dir[c.image], c.result, c.over)
    PROVE  Serves
  <1>1. CacheTypes /\ call'[t] = c /\ call[t].at \notin {"fill", "done"}
    BY AtFacts DEF CacheInv, CacheTypes
  <1>2. c.at \in {"mkdir", "leave"} => c.at \in Leading
    BY AtFacts
  <1>3. \A j \in Images : Flown(j)'
    BY <1>1, <1>2, FlownStays
  <1>4. Served(t)'
    BY <1>1, AtFacts DEF Served, Names, Finals, MaxVersion
  <1> QED BY <1>1, <1>2, <1>3, <1>4, CallServes

LEMMA AnswerServes ==
    ASSUME CacheInv, ServeInv, run' = run, NEW t \in Tasks,
           BuildClient(t) \/ Acquire(t) \/ Wait(t) \/ Fetched(t) \/ FetchFails(t)
              \/ Panic(t) \/ Unsupported(t) \/ Leave(t)
    PROVE  Serves
  <1> DEFINE i == call[t].image
  <1>1. call[t] \in Call /\ CacheTypes /\ Served(t) /\ t \in Tasks
    BY DEF CacheInv, CacheTypes, ServeInv
  <1>2. call[t].at # "wait" => call[t].follows = None
    BY <1>1 DEF Served
  <1>3. CASE BuildClient(t)
    <2> DEFINE d == [call[t] EXCEPT !.at = "meta", !.looking = FALSE, !.over = FALSE]
               c == IF secrets[OwnerOf[i]] = None THEN Done(Error) ELSE d
    <2>1. /\ call' = [call EXCEPT ![t] = c] /\ call[t].at = "client"
          /\ flight' = flight /\ dir' = dir
      BY <1>3 DEF BuildClient
    <2>2. d.at = "meta" /\ d.follows = None
      BY <1>1, <1>2, <2>1 DEF Call
    <2>3. \/ c.at = "meta" /\ c.follows = None
          \/ c.at = "done" /\ c.follows = None /\ c.result = Error
      BY <2>2, DoneFields
    <2>4. call[t].at \in (Running \ Leading) \cup {"idle"}
      BY <2>1, AtFacts
    <2> HIDE DEF c
    <2> QED BY <1>1, <2>1, <2>3, <2>4, NoName, LooksServes
  <1>4. CASE Fetched(t)
    <2> DEFINE c == [call[t] EXCEPT !.at = "mkdir", !.found = NoFile]
    <2>1. /\ call' = [call EXCEPT ![t] = c] /\ call[t].at = "fetch"
          /\ flight' = flight /\ dir' = dir
      BY <1>1, <1>4 DEF Fetched
    <2>2. c.at = "mkdir" /\ c.image = i /\ c.over = call[t].over /\ c.follows = None
      BY <1>1, <1>2, <2>1 DEF Call
    <2> HIDE DEF c
    <2>3. call[t].at \in Leading /\ call[t].at # "fill" /\ c.at # "leave" /\ c.at \in {"mkdir", "leave"}
      BY <2>1, <2>2, AtFacts
    <2> QED BY <2>1, <2>2, <2>3, LeadServes
  <1>5. CASE FetchFails(t)
    <2> DEFINE stale == call[t].found
               result == IF Present(i, stale) THEN stale ELSE Error
               c == CompletedCall(call[t], result)
    <2>1. /\ call' = [call EXCEPT ![t] = c] /\ call[t].at = "fetch"
          /\ flight' = flight /\ dir' = dir
      BY <1>1, <1>5 DEF FetchFails, Completed, CompletedCall
    <2>2. result \in Names => Fits(dir[i], result, call[t].over)
      BY <1>1, <2>1, NoName DEF Served
    <2> HIDE DEF result
    <2>3. c.at = "leave" /\ c.result = result /\ c.image = i /\ c.over = call[t].over /\ c.follows = None
      BY <1>1, <1>2, <2>1, CompletedFields
    <2> HIDE DEF c
    <2>4. call[t].at \in Leading /\ call[t].at # "fill"
      BY <2>1, AtFacts
    <2> QED BY <2>1, <2>2, <2>3, <2>4, LeadServes
  <1>6. CASE Panic(t)
    <2> DEFINE c == Done(Error)
    <2>1. /\ call' = [call EXCEPT ![t] = c] /\ call[t].at = "temp"
          /\ flight' = flight /\ dir' = dir
      BY <1>6 DEF Panic
    <2>2. c.at = "done" /\ c.follows = None /\ c.result \notin Names
      BY NoName, DoneFields
    <2> HIDE DEF c
    <2>3. call[t].at \in Leading /\ call[t].at # "fill"
      BY <2>1, AtFacts
    <2> QED BY <2>1, <2>2, <2>3, LeadServes
  <1>7. CASE Unsupported(t)
    <2> DEFINE c == CompletedCall(call[t], Error)
    <2>1. /\ call' = [call EXCEPT ![t] = c] /\ call[t].at = "temp"
          /\ flight' = flight /\ dir' = dir
      BY <1>1, <1>7 DEF Unsupported, Completed, CompletedCall
    <2>2. c.at = "leave" /\ c.result = Error /\ c.image = i /\ c.over = call[t].over /\ c.follows = None
      BY <1>1, <1>2, <2>1, CompletedFields
    <2> HIDE DEF c
    <2>3. call[t].at \in Leading /\ call[t].at # "fill"
      BY <2>1, AtFacts
    <2> QED BY <2>1, <2>2, <2>3, NoName, LeadServes
  <1>8. CASE Leave(t)
    <2> DEFINE c == Done(call[t].result)
    <2>1. /\ call' = [call EXCEPT ![t] = c] /\ call[t].at = "leave"
          /\ flight' = [flight EXCEPT ![i] = None] /\ dir' = dir
      BY <1>1, <1>8 DEF Leave
    <2>2. c.at = "done" /\ c.follows = None /\ c.result = call[t].result
      BY DoneFields
    <2> HIDE DEF c
    <2>3. call'[t] = c
      BY <1>1, <2>1 DEF CacheTypes
    <2>4. ASSUME NEW j \in Images PROVE Flown(j)'
      <3>1. CASE flight'[j] # None
        <4>1. flight'[j] = flight[j] /\ j # i /\ flight[j] \in Tasks /\ Flown(j)
          BY <1>1, <2>1, <3>1 DEF CacheTypes, ServeInv
        <4>2. flight[j] # t
          BY <2>1, <4>1, <3>1 DEF Flown
        <4>3. call'[flight[j]] = call[flight[j]]
          BY <1>1, <2>1, <4>1, <4>2 DEF CacheTypes
        <4> QED BY <4>1, <4>3 DEF Flown
      <3> QED BY <3>1 DEF Flown
    <2>5. Served(t)'
      BY <2>2, <2>3, AtFacts DEF Served
    <2>6. c.result \in Names => Fits(dir[i], c.result, call[t].over)
      BY <1>1, <2>1, <2>2 DEF Served
    <2> QED BY <1>1, <2>1, <2>2, <2>4, <2>5, <2>6, CallServes
  <1> QED BY <1>3, <1>4, <1>5, <1>6, <1>7, <1>8, AcquireServes, WaitServes

\* A step of t marks the others that read its image, or leaves them alone.
Told(t) == \A s \in Tasks \ {t} : call'[s] = Overtaken(call, call[t].image, t)[s]
Untold(t) == \A s \in Tasks \ {t} : call'[s] = call[s]

\* What the leader t makes of the files of its image: they stay, are whole, are
\* taken, or are written anew.
Remade(t, i, d) ==
    \A n \in Names :
        \/ d.files[n] = dir[i].files[n] /\ (d.files[n] = "torn" /\ dir[i].cut => d.cut)
        \/ d.files[n] = "whole"
        \/ d.files[n] = "none" /\ Told(t)
        \/ d.files[n] = "torn" /\ n \notin Finals /\ (Told(t) \/ dir[i].files[n] = "none")

\* ... and of its directory, where c is what the leader is then.
Makes(t, i, d, c) ==
    /\ Remade(t, i, d)
    /\ c.at \in Leading /\ c.at # "fetch" /\ c.image = i /\ c.follows = None
    /\ c.over => call[t].over
    /\ call[t].at = "fill" /\ dir[i].files[Temp] = "torn" =>
          d.files[Temp] = "whole" \/ (d.files[Temp] = "torn" /\ d.cut)
    /\ \A n \in Names : d.files[n] = "torn" =>
          n \notin Finals /\ (d.cut \/ (n = Temp /\ c.at = "fill"))
    /\ c.at = "leave" /\ c.result \in Names => Fits(d, c.result, c.over)
    /\ c.at \in Named =>
          d.files[d.version] = "whole" \/ (d.files[d.version] = "none" /\ c.over)

LEMMA TornFacts ==
    ASSUME CacheInv, ServeInv, NEW t \in Tasks, call[t].at \in Storing, NEW i, i = call[t].image
    PROVE  \A n \in Names : dir[i].files[n] = "torn" =>
              n \notin Finals /\ (dir[i].cut \/ (call[t].at = "fill" /\ n = Temp))
  <1>1. TornAt(i)
    BY OneLeader, AtFacts DEF ServeInv
  <1>2. \A s \in Tasks : call[s].at = "fill" /\ call[s].image = i => s = t
    BY OneLeader, AtFacts
  <1> QED BY <1>1, <1>2 DEF TornAt, Filled

LEMMA FilesServe ==
    ASSUME CacheInv, ServeInv, NEW t \in Tasks, call[t].at \in Storing,
           NEW i, i = call[t].image, run' = run, flight' = flight,
           NEW d, dir' = [dir EXCEPT ![i] = d],
           Told(t) \/ Untold(t), NEW c, c = call'[t], Makes(t, i, d, c)
    PROVE  Serves
  <1>1. i \in Images /\ CacheTypes
    BY StoreFacts
  <1>2. dir'[i] = d /\ \A j \in Images \ {i} : dir'[j] = dir[j]
    BY <1>1 DEF CacheTypes
  <1>3. Temp' = Temp /\ Names' = Names
    BY DEF Temp, Names, MaxVersion
  <1>4. ASSUME NEW s \in Tasks \ {t}
        PROVE  /\ Marked(s) /\ (call[s].image # i => call'[s] = call[s])
               /\ Told(t) /\ call[s].at \in Running /\ call[s].image = i /\ call[s].follows # t =>
                     call'[s].over
               /\ call[s].over => call'[s].over
    <2>1. call[s] \in Call
      BY <1>1 DEF CacheTypes
    <2>2. CASE Untold(t) /\ ~Told(t)
      BY <2>2 DEF Untold, Marked
    <2>3. CASE Told(t)
      <3>1. call'[s] = IF /\ call[s].at \in Running /\ call[s].image = i
                          /\ t = None \/ call[s].follows # t
                         THEN [call[s] EXCEPT !.over = TRUE] ELSE call[s]
        BY <2>3 DEF Told, Overtaken
      <3>2. [call[s] EXCEPT !.over = TRUE].over
        BY <2>1 DEF Call
      <3> QED BY <3>1, <3>2 DEF Marked
    <2> QED BY <2>2, <2>3
  <1>5. ASSUME NEW s \in Tasks \ {t},
               call[s].at \in Running /\ call[s].image = i /\ call[s].follows # t,
               NEW n \in Names, Fits(dir[i], n, call[s].over)
        PROVE  Fits(d, n, call'[s].over)
    <2>1. /\ Told(t) => call'[s].over
          /\ call[s].over => call'[s].over
      BY <1>4, <1>5
    <2> QED BY <1>5, <2>1 DEF Fits, Makes, Remade
  <1>6. call[t].at = "fill" /\ dir[i].files[Temp] = "torn" => \A over : Fits(d, Temp, over)
    BY DEF Fits, Makes
  <1>7. TornAt(i)'
    BY <1>2, <1>3 DEF TornAt, Filled, Finals, MaxVersion, Makes
  <1>8. Served(t)'
    <2>1. c.at \in Named => Put(i, c.over)'
      BY <1>2 DEF Put, Final, Makes
    <2>2. c.at \notin {"acquire", "fetch", "wait"}
      BY AtFacts DEF Makes
    <2>3. c.at = "leave" /\ c.result \in Names => Fits(dir'[i], c.result, c.over)
      BY <1>2 DEF Makes
    <2>4. c.image = i /\ c.follows = None
      BY DEF Makes
    <2> QED BY <1>3, <2>1, <2>2, <2>3, <2>4 DEF Served
  <1>9. \A s \in Tasks \ {t} :
              call[s].at \in Running /\ call[s].image = i /\ call[s].follows # t =>
                \A n \in Names : Fits(dir[i], n, call[s].over) => Fits(dir'[i], n, call'[s].over)
    BY <1>2, <1>5
  <1>10. call'[t].at \in Leading /\ call'[t].image = i /\ (call'[t].over => call[t].over)
    BY DEF Makes
  <1> QED BY <1>2, <1>4, <1>6, <1>7, <1>8, <1>9, <1>10, StoreServes

\* A store goes on, ...
LEMMA MovesServe ==
    ASSUME CacheInv, ServeInv, NEW t \in Tasks, call[t].at \in Storing,
           NEW i, i = call[t].image, run' = run, flight' = flight,
           NEW d, dir' = [dir EXCEPT ![i] = d],
           NEW o, o = call \/ o = Overtaken(call, i, t),
           NEW at \in Storing, call' = [o EXCEPT ![t].at = at],
           Remade(t, i, d),
           call[t].at = "fill" /\ dir[i].files[Temp] = "torn" => d.files[Temp] = "whole",
           \A n \in Names : d.files[n] = "torn" =>
              n \notin Finals /\ (d.cut \/ (n = Temp /\ at = "fill")),
           at \in Named =>
              d.files[d.version] = "whole" \/ (d.files[d.version] = "none" /\ call[t].over)
    PROVE  Serves
  <1> DEFINE c == call'[t]
  <1>1. CacheTypes /\ call[t] \in Call /\ call[t].follows = None
    BY StoreFacts, AtFacts DEF CacheTypes, ServeInv, Served, Storing
  <1>2. o[t] = call[t] /\ DOMAIN o = Tasks
    BY <1>1 DEF Overtaken, CacheTypes
  <1>3. c = [call[t] EXCEPT !.at = at] /\ \A s \in Tasks \ {t} : call'[s] = o[s]
    BY <1>2
  <1>4. Told(t) \/ Untold(t)
    BY <1>3 DEF Told, Untold
  <1> HIDE DEF c
  <1>5. c.at = at /\ c.image = i /\ c.over = call[t].over /\ c.follows = None
    BY <1>1, <1>3 DEF Call
  <1>6. c.at \in Leading /\ c.at # "fetch" /\ c.at # "leave"
    BY <1>5, AtFacts DEF Storing
  <1>7. Makes(t, i, d, c)
    BY <1>5, <1>6 DEF Makes
  <1> QED BY <1>4, <1>7, FilesServe DEF c

\* ... or it ends.
LEMMA EndsServe ==
    ASSUME CacheInv, ServeInv, NEW t \in Tasks, call[t].at \in Storing,
           NEW i, i = call[t].image, run' = run, flight' = flight,
           NEW d, dir' = [dir EXCEPT ![i] = d],
           NEW result, call' = Completed(t, result), d.files = dir[i].files,
           \A n \in Names : d.files[n] = "torn" => d.cut,
           result \in Names => Fits(d, result, call[t].over)
    PROVE  Serves
  <1> DEFINE c == call'[t]
  <1>1. CacheTypes /\ call[t] \in Call /\ call[t].follows = None
    BY StoreFacts, AtFacts DEF CacheTypes, ServeInv, Served, Storing
  <1>2. c = CompletedCall(call[t], result) /\ Untold(t)
    BY <1>1 DEF Completed, CompletedCall, CacheTypes, Untold
  <1> HIDE DEF c
  <1>3. c.at = "leave" /\ c.result = result /\ c.image = i /\ c.over = call[t].over /\ c.follows = None
    BY <1>1, <1>2, CompletedFields
  <1>4. Remade(t, i, d)
    BY DEF Remade
  <1>5. c.at \in Leading /\ c.at \notin Named
    BY <1>3, AtFacts DEF Named
  <1>6. \A n \in Names : d.files[n] = "torn" => n \notin Finals /\ d.cut
    BY TornFacts
  <1>7. Temp \in Names
    BY <1>1, TempFacts
  <1>8. Makes(t, i, d, c)
    BY <1>3, <1>4, <1>5, <1>6, <1>7 DEF Makes
  <1> QED BY <1>2, <1>8, FilesServe DEF c

\* A leader whose file is gone ends its store.
LEMMA GivesUpServes ==
    ASSUME CacheInv, ServeInv, NEW t \in Tasks, call[t].at \in Storing, call[t].at # "fill",
           run' = run, flight' = flight, dir' = dir, call' = Completed(t, Error)
    PROVE  Serves
  <1> PICK i : i = call[t].image
    OBVIOUS
  <1> DEFINE d == dir[i]
  <1>1. dir' = [dir EXCEPT ![i] = d]
    BY StoreFacts DEF CacheTypes
  <1>2. \A n \in Names : d.files[n] = "torn" => d.cut
    BY TornFacts
  <1> HIDE DEF d
  <1>3. d.files = dir[i].files
    BY DEF d
  <1>4. Error \in Names => Fits(d, Error, call[t].over)
    BY NoName
  <1> QED BY <1>1, <1>2, <1>3, <1>4, EndsServe

LEMMA MakeDirServes ==
    ASSUME CacheInv, ServeInv, run' = run, NEW t \in Tasks, MakeDir(t)
    PROVE  Serves
  <1> PICK i : i = call[t].image
    OBVIOUS
  <1> DEFINE v == IF i \in CoverArt THEN dir[i].version + 1 ELSE 1
             d == [dir[i] EXCEPT !.exists = TRUE, !.version = v]
  <1>1. call[t].at = "mkdir" /\ call[t].at \in Storing /\ flight' = flight
    BY DEF MakeDir, Storing
  <1>2. i \in Images /\ dir[i] \in Directory /\ CacheTypes
    BY <1>1, StoreFacts
  <1>3. dir' = [dir EXCEPT ![i] = d]
    BY <1>2 DEF MakeDir, CacheTypes, Directory
  <1> HIDE DEF v
  <1>4. d.files = dir[i].files /\ d.cut = dir[i].cut
    BY <1>2 DEF Directory
  <1> HIDE DEF d
  <1>5. Remade(t, i, d)
    BY <1>4 DEF Remade
  <1>6. \A n \in Names : d.files[n] = "torn" => n \notin Finals /\ d.cut
    BY <1>1, <1>4, TornFacts
  <1>7. call' = [call EXCEPT ![t].at = "temp"]
    BY DEF MakeDir
  <1>8. "temp" \in Storing /\ "temp" \notin Named
    BY DEF Storing, Named
  <1> QED BY <1>1, <1>3, <1>5, <1>6, <1>7, <1>8, MovesServe

LEMMA WriteTempServes ==
    ASSUME CacheInv, ServeInv, run' = run, NEW t \in Tasks, WriteTemp(t)
    PROVE  Serves
  <1> PICK i : i = call[t].image
    OBVIOUS
  <1>1. call[t].at = "temp" /\ call[t].at \in Storing /\ flight' = flight
    BY DEF WriteTemp, Storing
  <1>2. i \in Images /\ dir[i] \in Directory /\ CacheTypes /\ call[t].at # "fill"
    BY <1>1, StoreFacts
  <1>3. CASE ~dir[i].exists
    BY <1>1, <1>2, <1>3, GivesUpServes DEF WriteTemp
  <1>4. CASE dir[i].exists
    <2> DEFINE d == [dir[i] EXCEPT !.files[Temp] = "torn"]
    <2>1. dir' = [dir EXCEPT ![i] = d]
      BY <1>2, <1>4 DEF WriteTemp, CacheTypes
    <2>2. PICK o : o = IF Present(i, Temp) THEN Overtaken(call, i, t) ELSE call
      OBVIOUS
    <2>3. call' = [o EXCEPT ![t].at = "fill"]
      BY <1>4, <2>2 DEF WriteTemp
    <2>4. Temp \in Names /\ Temp \notin Finals /\ Temp # NoFile
      BY <1>2, TempFacts
    <2>5. /\ d.files[Temp] = "torn" /\ d.cut = dir[i].cut
          /\ \A m \in Names : m # Temp => d.files[m] = dir[i].files[m]
      BY <1>2, <2>4 DEF Directory
    <2> HIDE DEF d
    <2>6. Told(t) \/ dir[i].files[Temp] = "none"
      <3>1. CASE Present(i, Temp)
        BY <1>2, <2>2, <2>3, <3>1 DEF Told, Overtaken
      <3>2. CASE ~Present(i, Temp)
        BY <2>4, <3>2 DEF Present
      <3> QED BY <3>1, <3>2
    <2>7. Remade(t, i, d)
      BY <2>4, <2>5, <2>6 DEF Remade
    <2>8. \A n \in Names : d.files[n] = "torn" => n \notin Finals /\ (d.cut \/ (n = Temp /\ "fill" = "fill"))
      BY <1>1, <1>2, <2>4, <2>5, TornFacts
    <2>9. "fill" \in Storing /\ "fill" \notin Named
      BY DEF Storing, Named
    <2> QED BY <1>1, <1>2, <2>1, <2>2, <2>3, <2>7, <2>8, <2>9, MovesServe
  <1> QED BY <1>3, <1>4

LEMMA FillTempServes ==
    ASSUME CacheInv, ServeInv, run' = run, NEW t \in Tasks, FillTemp(t)
    PROVE  Serves
  <1> PICK i : i = call[t].image
    OBVIOUS
  <1> PICK content : content = IF dir[i].files[Temp] = "torn" THEN "whole" ELSE dir[i].files[Temp]
    OBVIOUS
  <1> DEFINE d == [dir[i] EXCEPT !.files[Temp] = content]
  <1>1. call[t].at = "fill" /\ call[t].at \in Storing /\ flight' = flight
    BY DEF FillTemp, Storing
  <1>2. i \in Images /\ dir[i] \in Directory /\ CacheTypes /\ Temp \in Names
    BY <1>1, StoreFacts, TempFacts
  <1>3. dir' = [dir EXCEPT ![i] = d]
    BY <1>2 DEF FillTemp, CacheTypes, Directory
  <1>4. /\ d.files[Temp] = content /\ d.cut = dir[i].cut
        /\ \A m \in Names : m # Temp => d.files[m] = dir[i].files[m]
    BY <1>2 DEF Directory
  <1> HIDE DEF d
  <1>5. Remade(t, i, d)
    BY <1>2, <1>4 DEF Remade
  <1>6. \A n \in Names : d.files[n] = "torn" => n \notin Finals /\ d.cut
    BY <1>1, <1>2, <1>4, TornFacts
  <1>7. call' = [call EXCEPT ![t].at = "replace"]
    BY DEF FillTemp
  <1>8. "replace" \in Storing /\ "replace" \notin Named
    BY DEF Storing, Named
  <1>9. dir[i].files[Temp] = "torn" => d.files[Temp] = "whole"
    BY <1>4
  <1> QED BY <1>1, <1>3, <1>5, <1>6, <1>7, <1>8, <1>9, MovesServe

LEMMA ReplaceServes ==
    ASSUME CacheInv, ServeInv, run' = run, NEW t \in Tasks, Replace(t)
    PROVE  Serves
  <1> PICK i : i = call[t].image
    OBVIOUS
  <1> PICK n : n = Final(i)
    OBVIOUS
  <1> DEFINE d == [dir[i] EXCEPT !.files[n] = "none"]
  <1>1. call[t].at = "replace" /\ call[t].at \in Storing /\ flight' = flight
    BY DEF Replace, Storing
  <1>2. i \in Images /\ dir[i] \in Directory /\ CacheTypes /\ Phase(t, i)
    BY <1>1, StoreFacts
  <1>3. n \in Finals /\ n \in Names /\ n # NoFile
    BY <1>1, <1>2, NameFacts, NoName DEF Phase, Storing
  <1>4. dir' = [dir EXCEPT ![i] = d]
    BY <1>2, <1>3 DEF Replace, CacheTypes, Directory
  <1>5. PICK o : o = IF Present(i, Final(i)) THEN Overtaken(call, i, t) ELSE call
    OBVIOUS
  <1>6. call' = [o EXCEPT ![t].at = "rename"]
    BY <1>5 DEF Replace
  <1>7. /\ d.files[n] = "none" /\ d.cut = dir[i].cut
        /\ \A m \in Names : m # n => d.files[m] = dir[i].files[m]
    BY <1>2, <1>3 DEF Directory
  <1> HIDE DEF d
  <1>8. Told(t) \/ dir[i].files[n] = "none"
    <2>1. CASE Present(i, n)
      BY <1>2, <1>5, <1>6, <2>1 DEF Told, Overtaken
    <2>2. CASE ~Present(i, n)
      BY <1>3, <2>2 DEF Present
    <2> QED BY <2>1, <2>2
  <1>9. Remade(t, i, d)
    BY <1>3, <1>7, <1>8 DEF Remade
  <1>10. \A m \in Names : d.files[m] = "torn" => m \notin Finals /\ d.cut
    BY <1>1, <1>3, <1>7, TornFacts
  <1>11. "rename" \in Storing /\ "rename" \notin Named
    BY DEF Storing, Named
  <1>12. o = call \/ o = Overtaken(call, i, t)
    BY <1>5
  <1>13. call[t].at # "fill"
    BY <1>1
  <1> QED BY <1>1, <1>4, <1>6, <1>9, <1>10, <1>11, <1>12, <1>13, MovesServe

LEMMA RenameServes ==
    ASSUME CacheInv, ServeInv, run' = run, NEW t \in Tasks, Rename(t)
    PROVE  Serves
  <1> PICK i : i = call[t].image
    OBVIOUS
  <1> PICK n : n = Final(i)
    OBVIOUS
  <1>1. call[t].at = "rename" /\ call[t].at \in Storing /\ flight' = flight
    BY DEF Rename, Storing
  <1>2. i \in Images /\ dir[i] \in Directory /\ CacheTypes /\ Phase(t, i) /\ call[t].at # "fill"
    BY <1>1, StoreFacts
  <1>3. Temp \in Names /\ Temp \notin Finals
    BY <1>2, TempFacts
  <1>4. n \in Finals /\ n \in Names
    BY <1>1, <1>2, NameFacts DEF Phase, Storing
  <1>5. CASE ~Present(i, Temp)
    BY <1>1, <1>2, <1>5, GivesUpServes DEF Rename
  <1>6. CASE Present(i, Temp)
    <2>1. dir[i].files[Temp] = "whole"
      BY <1>1, <1>2, <1>6 DEF Phase, Present
    <2> DEFINE files == [dir[i].files EXCEPT ![Temp] = "none", ![n] = "whole"]
               d == [dir[i] EXCEPT !.files = files, !.kept = TRUE]
    <2>2. dir' = [dir EXCEPT ![i] = d]
      <3>1. dir' = [dir EXCEPT ![i].files[Temp] = "none", ![i].files[n] = "whole", ![i].kept = TRUE]
        BY <1>6, <2>1 DEF Rename
      <3> QED BY <1>2, <3>1, RenamedDirectory
    <2>3. /\ files[n] = "whole" /\ files[Temp] = "none"
          /\ \A m \in Names \ {n, Temp} : files[m] = dir[i].files[m]
      BY <1>2, <1>3, <1>4 DEF Directory
    <2> HIDE DEF files
    <2>4. d.files = files /\ d.version = n /\ d.cut = dir[i].cut
      BY <1>2 DEF Directory, Final
    <2> HIDE DEF d
    <2> PICK o : o = Overtaken(call, i, t)
      OBVIOUS
    <2>5. call' = [o EXCEPT ![t].at = "metaTemp"]
      BY <1>6 DEF Rename
    <2>6. Told(t)
      BY <1>2, <2>5 DEF Told, Overtaken
    <2>7. Remade(t, i, d)
      BY <1>3, <1>4, <2>3, <2>4, <2>6 DEF Remade
    <2>8. \A m \in Names : d.files[m] = "torn" => m \notin Finals /\ d.cut
      BY <1>1, <1>3, <1>4, <2>3, <2>4, TornFacts
    <2>9. d.files[d.version] = "whole"
      BY <2>3, <2>4
    <2>10. "metaTemp" \in Storing
      BY DEF Storing
    <2> QED BY <1>1, <1>2, <2>2, <2>5, <2>7, <2>8, <2>9, <2>10, MovesServe
  <1> QED BY <1>5, <1>6

\* The files stay while the metadata is written.
LEMMA MetaServes ==
    ASSUME CacheInv, ServeInv, run' = run, NEW t \in Tasks,
           WriteMeta(t) \/ ReplaceMeta(t) \/ RenameMeta(t)
    PROVE  Serves
  <1> PICK i : i = call[t].image
    OBVIOUS
  <1>1. /\ call[t].at \in Named /\ call[t].at \in Storing /\ call[t].at # "fill"
        /\ flight' = flight
    BY DEF WriteMeta, ReplaceMeta, RenameMeta, Storing, Named
  <1>2. i \in Images /\ dir[i] \in Directory /\ CacheTypes
    BY <1>1, StoreFacts
  <1>3. Put(i, call[t].over)
    BY <1>1 DEF ServeInv, Served
  <1>4. ASSUME NEW d, dir' = [dir EXCEPT ![i] = d],
               d.files = dir[i].files, d.version = dir[i].version, d.cut = dir[i].cut,
               NEW at \in {"metaReplace", "metaRename", "sweep"}, call' = [call EXCEPT ![t].at = at]
        PROVE  Serves
    <2>1. Remade(t, i, d)
      BY <1>4 DEF Remade
    <2>2. \A n \in Names : d.files[n] = "torn" => n \notin Finals /\ d.cut
      BY <1>1, <1>4, TornFacts
    <2>3. d.files[d.version] = "whole" \/ (d.files[d.version] = "none" /\ call[t].over)
      BY <1>3, <1>4 DEF Put, Final
    <2>4. at \in Storing
      BY DEF Storing
    <2>5. dir' = [dir EXCEPT ![i] = d] /\ call' = [call EXCEPT ![t].at = at]
      BY <1>4
    <2> QED BY <1>1, <2>1, <2>2, <2>3, <2>4, <2>5, MovesServe
  <1>5. CASE WriteMeta(t)
    <2>1. CASE dir[i].exists
      <3> DEFINE d == [dir[i] EXCEPT !.metaTemp = TRUE]
      <3>1. d.files = dir[i].files /\ d.version = dir[i].version /\ d.cut = dir[i].cut
        BY <1>2 DEF Directory
      <3>2. dir' = [dir EXCEPT ![i] = d] /\ call' = [call EXCEPT ![t].at = "metaReplace"]
        BY <1>2, <1>5, <2>1 DEF WriteMeta, CacheTypes
      <3> HIDE DEF d
      <3> QED BY <1>4, <3>1, <3>2
    <2>2. CASE ~dir[i].exists
      BY <1>1, <1>5, <2>2, GivesUpServes DEF WriteMeta
    <2> QED BY <2>1, <2>2
  <1>6. CASE ReplaceMeta(t)
    <2> DEFINE d == [dir[i] EXCEPT !.meta = NoMeta]
    <2>1. d.files = dir[i].files /\ d.version = dir[i].version /\ d.cut = dir[i].cut
      BY <1>2 DEF Directory
    <2>2. dir' = [dir EXCEPT ![i] = d] /\ call' = [call EXCEPT ![t].at = "metaRename"]
      BY <1>2, <1>6 DEF ReplaceMeta, CacheTypes
    <2> HIDE DEF d
    <2> QED BY <1>4, <2>1, <2>2
  <1>7. CASE RenameMeta(t)
    <2>1. CASE dir[i].metaTemp
      <3> DEFINE d == [dir[i] EXCEPT !.metaTemp = FALSE, !.meta = [name |-> Final(i), fresh |-> TRUE]]
      <3>1. d.files = dir[i].files /\ d.version = dir[i].version /\ d.cut = dir[i].cut
        BY <1>2 DEF Directory
      <3>2. dir' = [dir EXCEPT ![i] = d] /\ call' = [call EXCEPT ![t].at = "sweep"]
        BY <1>2, <1>7, <2>1 DEF RenameMeta, CacheTypes
      <3> HIDE DEF d
      <3> QED BY <1>4, <3>1, <3>2
    <2>2. CASE ~dir[i].metaTemp
      BY <1>1, <1>7, <2>2, GivesUpServes DEF RenameMeta
    <2> QED BY <2>1, <2>2
  <1> QED BY <1>5, <1>6, <1>7

LEMMA SweepServes ==
    ASSUME CacheInv, ServeInv, run' = run, NEW t \in Tasks, Sweep(t)
    PROVE  Serves
  <1> PICK i : i = call[t].image
    OBVIOUS
  <1>1. /\ call[t].at = "sweep" /\ call[t].at \in Storing /\ call[t].at \in Named
        /\ flight' = flight
    BY DEF Sweep, Storing, Named
  <1>2. /\ i \in Images /\ dir[i] \in Directory /\ CacheTypes /\ call[t] \in Call
        /\ Final(i) \in Finals
    BY <1>1, StoreFacts DEF CacheTypes, Phase, Storing
  <1>3. Put(i, call[t].over)
    BY <1>1 DEF ServeInv, Served
  <1>4. \A n \in Names : dir[i].files[n] = "torn" => n \notin Finals /\ dir[i].cut
    BY <1>1, TornFacts
  <1>5. CASE Stale(t) = {}
    <2> DEFINE d == [dir[i] EXCEPT !.cut = FALSE]
    <2>1. dir' = [dir EXCEPT ![i] = d] /\ call' = Completed(t, Final(i))
      BY <1>2, <1>5 DEF Sweep, CacheTypes
    <2>2. d.files = dir[i].files
      BY <1>2 DEF Directory
    <2>3. \A n \in Names : dir[i].files[n] # "none" => n = Final(i)
      BY <1>5 DEF Stale, PresentIn
    <2>4. \A n \in Names : d.files[n] = "torn" => d.cut
      BY <1>2, <1>4, <2>2, <2>3
    <2> HIDE DEF d
    <2>5. Fits(d, Final(i), call[t].over)
      BY <1>3, <2>2 DEF Put, Fits
    <2> PICK result : result = Final(i)
      OBVIOUS
    <2>6. call' = Completed(t, result) /\ (result \in Names => Fits(d, result, call[t].over))
      BY <2>1, <2>5
    <2> QED BY <1>1, <2>1, <2>2, <2>4, <2>6, EndsServe
  <1>6. CASE Stale(t) # {}
    <2>1. PICK n \in Stale(t) : /\ dir' = [dir EXCEPT ![i].files[n] = "none"]
                                /\ call' = Overtaken(call, i, t)
      BY <1>6 DEF Sweep
    <2> DEFINE d == [dir[i] EXCEPT !.files[n] = "none"]
    <2>2. dir' = [dir EXCEPT ![i] = d]
      BY <1>2, <2>1 DEF CacheTypes
    <2>3. n \in Names /\ n # Final(i)
      BY DEF Stale, PresentIn
    <2>4. /\ d.files[n] = "none" /\ d.cut = dir[i].cut /\ d.version = Final(i)
          /\ \A m \in Names : m # n => d.files[m] = dir[i].files[m]
      BY <1>2, <2>3 DEF Directory, Final
    <2> HIDE DEF d
    <2> DEFINE c == call'[t]
    <2>5. c = call[t]
      BY <2>1 DEF Overtaken
    <2>6. Told(t)
      BY <2>1 DEF Told
    <2>7. Remade(t, i, d)
      BY <2>4, <2>6 DEF Remade
    <2>8. c.follows = None /\ c.at \in Leading /\ c.at = "sweep" /\ c.image = i
      BY <1>1, <2>5, AtFacts DEF ServeInv, Served
    <2>9. d.files[d.version] = "whole" \/ (d.files[d.version] = "none" /\ c.over)
      BY <1>2, <1>3, <2>3, <2>4, <2>5, NameFacts DEF Put
    <2>10. Makes(t, i, d, c)
      BY <1>1, <1>4, <2>3, <2>4, <2>5, <2>7, <2>8, <2>9 DEF Makes
    <2>11. flight' = flight
      BY <1>1
    <2> PICK e : e = call'[t]
      OBVIOUS
    <2>12. Makes(t, i, d, e)
      BY <2>10
    <2> HIDE DEF c
    <2> QED BY <1>1, <2>2, <2>6, <2>11, <2>12, FilesServe
  <1> QED BY <1>5, <1>6

LEMMA StoreFailsServes ==
    ASSUME CacheInv, ServeInv, run' = run, NEW t \in Tasks, StoreFails(t)
    PROVE  Serves
  <1> PICK i : i = call[t].image
    OBVIOUS
  <1> DEFINE cut == dir[i].cut \/ call[t].at = "fill"
             kept == dir[i].kept /\ (i \in CoverArt \/ call[t].at # "rename")
             d == [dir[i] EXCEPT !.cut = cut, !.kept = kept]
  <1>1. call[t].at \in Storing /\ flight' = flight /\ call' = Completed(t, Error)
    BY DEF StoreFails
  <1>2. i \in Images /\ dir[i] \in Directory /\ CacheTypes
    BY <1>1, StoreFacts
  <1>3. dir' = [dir EXCEPT ![i] = d]
    BY <1>2 DEF StoreFails, CacheTypes, Directory
  <1> HIDE DEF kept
  <1>4. d.files = dir[i].files /\ (cut => d.cut)
    BY <1>2 DEF Directory
  <1> HIDE DEF d
  <1>5. \A n \in Names : d.files[n] = "torn" => d.cut
    BY <1>1, <1>4, TornFacts
  <1>6. Error \in Names => Fits(d, Error, call[t].over)
    BY NoName
  <1> QED BY <1>1, <1>3, <1>4, <1>5, <1>6, EndsServe

\* Files of an image are taken, and its calls marked, or nothing is.
Takes(i, d) ==
    /\ d.version = dir[i].version
    /\ call' = call \/ call' = Overtaken(call, i, None)
    /\ \A n \in Names :
          \/ d.files[n] = dir[i].files[n] /\ (d.files[n] = "torn" /\ dir[i].cut => d.cut)
          \/ d.files[n] = "none" /\ call' = Overtaken(call, i, None)

LEMMA TakenServes ==
    ASSUME CacheInv, ServeInv, run' = run, flight' = flight, NEW i \in Images,
           NEW d, dir' = [dir EXCEPT ![i] = d], Takes(i, d)
    PROVE  Serves
  <1> USE DEF Takes
  <1>1. CacheTypes /\ Temp' = Temp /\ Names' = Names
    BY DEF CacheInv, Temp, Names, MaxVersion
  <1>2. dir'[i] = d /\ \A j \in Images \ {i} : dir'[j] = dir[j]
    BY <1>1 DEF CacheTypes
  <1>3. ASSUME NEW s \in Tasks
        PROVE  /\ Marked(s) /\ (call[s].image # i => call'[s] = call[s])
               /\ call' = Overtaken(call, i, None) /\ call[s].at \in Running /\ call[s].image = i =>
                     call'[s].over
    <2>1. call[s] \in Call /\ s # None
      BY <1>1, CacheAssumption DEF CacheTypes
    <2>2. CASE call' = call /\ call' # Overtaken(call, i, None)
      BY <2>2 DEF Marked
    <2>3. CASE call' = Overtaken(call, i, None)
      <3>1. call'[s] = IF call[s].at \in Running /\ call[s].image = i
                         THEN [call[s] EXCEPT !.over = TRUE] ELSE call[s]
        BY <2>1, <2>3 DEF Overtaken
      <3>2. [call[s] EXCEPT !.over = TRUE].over
        BY <2>1 DEF Call
      <3> QED BY <3>1, <3>2 DEF Marked
    <2> QED BY <2>2, <2>3
  <1>4. ASSUME NEW s \in Tasks
        PROVE  /\ call'[s].at = call[s].at /\ call'[s].image = call[s].image
               /\ call'[s].found = call[s].found /\ call'[s].result = call[s].result
               /\ call'[s].follows = call[s].follows
               /\ call[s].over => call'[s].over
    BY <1>1, <1>3, MarkedFields
  <1>5. ASSUME NEW s \in Tasks, call[s].at \in Running, NEW n \in Names,
               Fits(dir[call[s].image], n, call[s].over)
        PROVE  Fits(dir'[call[s].image], n, call'[s].over)
    <2>1. call[s].image \in Images /\ (call[s].over => call'[s].over)
      BY <1>4, <1>5 DEF CacheInv, Leads
    <2>2. CASE call[s].image # i
      BY <1>2, <1>5, <2>1, <2>2, FitsMore
    <2>3. CASE call[s].image = i
      BY <1>2, <1>3, <1>5, <2>1, <2>3 DEF Fits
    <2> QED BY <2>2, <2>3
  <1>6. ASSUME NEW s \in Tasks, call[s].at \in Running, NEW n \in Names, Filled(call[s].image, n)
        PROVE  Fits(dir'[call[s].image], n, call'[s].over) \/ Filled(call[s].image, n)'
    <2>1. call[s].image \in Images
      BY <1>6 DEF CacheInv, Leads
    <2>2. CASE dir'[call[s].image].files[n] = dir[call[s].image].files[n]
      BY <1>1, <1>4, <1>6, <2>2 DEF Filled
    <2>3. CASE dir'[call[s].image].files[n] # dir[call[s].image].files[n]
      BY <1>2, <1>3, <1>6, <2>1, <2>3 DEF Fits
    <2> QED BY <2>2, <2>3
  <1>7. ASSUME NEW s \in Tasks, call[s].at \in Named, Put(call[s].image, call[s].over)
        PROVE  Put(call[s].image, call[s].over)'
    <2> PICK j : j = call[s].image
      OBVIOUS
    <2>1. call[s].at \in Storing /\ call[s].at \in Running /\ call[s].at # "mkdir"
      BY <1>7, AtFacts
    <2>2. j \in Images /\ Final(j) \in Names
      BY <2>1, StoreFacts, NameFacts DEF Phase
    <2>3. Final(j)' = Final(j)
      BY <1>2, <2>2 DEF Final
    <2>4. call[s].over => call'[s].over
      BY <1>4
    <2>5. Put(j, call[s].over) /\ call'[s].image = j
      BY <1>4, <1>7
    <2>6. \/ dir'[j].files[Final(j)] = "whole"
          \/ dir'[j].files[Final(j)] = "none" /\ call'[s].over
      <3>1. CASE j # i
        BY <1>2, <2>2, <2>4, <2>5, <3>1 DEF Put
      <3>2. CASE j = i
        BY <1>2, <1>3, <2>1, <2>2, <2>4, <2>5, <3>2 DEF Put
      <3> QED BY <3>1, <3>2
    <2> QED BY <2>3, <2>5, <2>6 DEF Put
  <1>8. ASSUME NEW s \in Tasks, call[s].at = "wait"
        PROVE  LET l == call[s].follows
               IN /\ call[l].at = "done" => call'[l].at = "done" /\ call'[l].result = call[l].result
                  /\ call[l].at \in Leading =>
                        call'[l].at \in Leading /\ call'[l].image = call[l].image
                  /\ call[l].at \in Leading /\ (call[l].over => call[s].over) =>
                        (call'[l].over => call'[s].over)
    <2> DEFINE l == call[s].follows
    <2>1. l \in Tasks /\ call[s].at \in Running
      BY <1>8, AtFacts DEF CacheInv, Leads
    <2>2. Followed(call[s])
      BY <1>8 DEF ServeInv, Served
    <2>3. ASSUME call[l].at \in Leading, call[l].over => call[s].over, call'[l].over
          PROVE  call'[s].over
      <3>1. call[l].image = call[s].image
        BY <2>2, <2>3, AtFacts DEF Followed
      <3>2. CASE call' = call
        BY <2>3, <3>2
      <3>3. CASE call' # call /\ call[s].image = i
        BY <1>3, <2>1, <3>3
      <3>4. CASE call[s].image # i
        BY <1>3, <2>1, <2>3, <3>1, <3>4
      <3> QED BY <3>2, <3>3, <3>4
    <2> QED BY <1>4, <2>1, <2>3
  <1>9. ASSUME NEW s \in Tasks PROVE Served(s)'
    <2> PICK j : j = call[s].image
      OBVIOUS
    <2>1. Served(s)
      BY DEF ServeInv
    <2>2. call[s].at \in {"acquire", "fetch", "leave", "wait"} => call[s].at \in Running
      BY AtFacts
    <2> QED BY <1>4, <1>5, <1>6, <1>7, <1>8, <2>1, <2>2, ServedOn
  <1>10. ASSUME NEW j \in Images PROVE TornAt(j)'
    <2>1. TornAt(j)
      BY DEF ServeInv
    <2>2. \A n \in Names : dir'[j].files[n] = "torn" =>
             dir[j].files[n] = "torn" /\ (dir[j].cut => dir'[j].cut)
      BY <1>2
    <2>3. \A n \in Names : dir'[j].files[n] = "torn" /\ Filled(j, n) => Filled(j, n)'
      BY <1>1, <1>4 DEF Filled
    <2>4. Finals' = Finals
      BY DEF Finals, MaxVersion
    <2> QED BY <1>1, <2>1, <2>2, <2>3, <2>4 DEF TornAt
  <1>11. ASSUME NEW j \in Images PROVE Flown(j)'
    <2>1. Flown(j) /\ flight[j] \in Tasks \cup {None}
      BY <1>1 DEF ServeInv, CacheTypes
    <2> QED BY <1>1, <1>4, <2>1 DEF Flown
  <1>12. \A s \in Tasks : Answered(s)
    BY <1>4, AtFacts DEF Answered
  <1> QED BY <1>9, <1>10, <1>11, <1>12 DEF Serves, ServeInv

LEMMA UnlinkServes ==
    ASSUME CacheInv, ServeInv, run' = run, NEW i \in Images, Unlink(i)
    PROVE  Serves
  <1>1. dir[i] \in Directory /\ dir \in [Images -> Directory] /\ flight' = flight
    BY DEF CacheInv, CacheTypes, Unlink
  <1>2. CASE \E n \in PresentIn(i) : /\ dir' = [dir EXCEPT ![i].files[n] = "none", ![i].kept = FALSE]
                                     /\ call' = Overtaken(call, i, None)
    <2>1. PICK n \in Names : /\ dir' = [dir EXCEPT ![i].files[n] = "none", ![i].kept = FALSE]
                             /\ call' = Overtaken(call, i, None)
      BY <1>2 DEF PresentIn
    <2> DEFINE d == [dir[i] EXCEPT !.files[n] = "none", !.kept = FALSE]
    <2>2. dir' = [dir EXCEPT ![i] = d]
      BY <1>1, <2>1
    <2>3. /\ d.version = dir[i].version /\ d.cut = dir[i].cut /\ d.files[n] = "none"
          /\ \A m \in Names : m # n => d.files[m] = dir[i].files[m]
      BY <1>1 DEF Directory
    <2> HIDE DEF d
    <2>4. Takes(i, d)
      BY <2>1, <2>3 DEF Takes
    <2> QED BY <1>1, <2>2, <2>4, TakenServes
  <1>3. ASSUME NEW d, dir' = [dir EXCEPT ![i] = d], call' = call,
               d.files = dir[i].files, d.version = dir[i].version, d.cut = dir[i].cut
        PROVE  Serves
    <2>1. Takes(i, d)
      BY <1>3 DEF Takes
    <2> QED BY <1>1, <1>3, <2>1, TakenServes
  <1>4. CASE dir' = [dir EXCEPT ![i].meta = NoMeta, ![i].kept = FALSE] /\ call' = call
    <2> DEFINE d == [dir[i] EXCEPT !.meta = NoMeta, !.kept = FALSE]
    <2>1. dir' = [dir EXCEPT ![i] = d]
      BY <1>1, <1>4
    <2>2. d.files = dir[i].files /\ d.version = dir[i].version /\ d.cut = dir[i].cut
      BY <1>1 DEF Directory
    <2> HIDE DEF d
    <2> QED BY <1>3, <1>4, <2>1, <2>2
  <1>5. CASE dir' = [dir EXCEPT ![i].metaTemp = FALSE, ![i].kept = FALSE] /\ call' = call
    <2> DEFINE d == [dir[i] EXCEPT !.metaTemp = FALSE, !.kept = FALSE]
    <2>1. dir' = [dir EXCEPT ![i] = d]
      BY <1>1, <1>5
    <2>2. d.files = dir[i].files /\ d.version = dir[i].version /\ d.cut = dir[i].cut
      BY <1>1 DEF Directory
    <2> HIDE DEF d
    <2> QED BY <1>3, <1>5, <2>1, <2>2
  <1> QED BY <1>2, <1>4, <1>5 DEF Unlink

LEMMA RemoveDirServes ==
    ASSUME CacheInv, ServeInv, run' = run, NEW i \in Images, RemoveDir(i)
    PROVE  Serves
  <1> DEFINE d == [dir[i] EXCEPT !.exists = FALSE, !.cut = FALSE]
  <1>1. dir[i] \in Directory /\ dir \in [Images -> Directory]
    BY DEF CacheInv, CacheTypes
  <1>2. dir' = [dir EXCEPT ![i] = d] /\ flight' = flight /\ call' = call
    BY <1>1 DEF RemoveDir
  <1>3. d.files = dir[i].files /\ d.version = dir[i].version
    BY <1>1 DEF Directory
  <1>4. \A n \in Names : dir[i].files[n] = "none"
    BY DEF RemoveDir, IsEmpty, PresentIn
  <1> HIDE DEF d
  <1>5. Takes(i, d)
    BY <1>2, <1>3, <1>4 DEF Takes
  <1> QED BY <1>2, <1>5, TakenServes

LEMMA ExpireServes ==
    ASSUME CacheInv, ServeInv, run' = run, NEW i \in Images, Expire(i)
    PROVE  Serves
  <1> DEFINE meta == [dir[i].meta EXCEPT !.fresh = FALSE]
             d == [dir[i] EXCEPT !.meta = meta]
  <1>1. dir[i] \in Directory /\ dir \in [Images -> Directory]
    BY DEF CacheInv, CacheTypes
  <1>2. dir' = [dir EXCEPT ![i] = d] /\ flight' = flight /\ call' = call
    BY <1>1 DEF Expire
  <1> HIDE DEF meta
  <1>3. d.files = dir[i].files /\ d.version = dir[i].version /\ d.cut = dir[i].cut
    BY <1>1 DEF Directory
  <1> HIDE DEF d
  <1>4. Takes(i, d)
    BY <1>2, <1>3 DEF Takes
  <1> QED BY <1>2, <1>4, TakenServes

LEMMA NothingServes ==
    ASSUME ServeInv, UNCHANGED <<run, dir, flight, call>>
    PROVE  Serves
  <1>1. Temp' = Temp /\ Names' = Names /\ Finals' = Finals
    BY DEF Temp, Names, Finals, MaxVersion
  <1>2. ASSUME NEW t \in Tasks PROVE Served(t)'
    <2>1. Served(t)
      BY DEF ServeInv
    <2>2. Filled(call[t].image, call[t].found) => Filled(call[t].image, call[t].found)'
      BY <1>1 DEF Filled
    <2>3. Put(call[t].image, call[t].over) => Put(call[t].image, call[t].over)'
      BY DEF Put, Final
    <2>4. Followed(call[t]) => Followed(call[t])'
      BY <1>1 DEF Followed, Fits
    <2> QED BY <1>1, <2>1, <2>2, <2>3, <2>4 DEF Served, Fits
  <1>3. ASSUME NEW i \in Images PROVE Flown(i)' /\ TornAt(i)'
    <2>1. Flown(i) /\ TornAt(i)
      BY DEF ServeInv
    <2>2. \A n : Filled(i, n) => Filled(i, n)'
      BY <1>1 DEF Filled
    <2> QED BY <1>1, <2>1, <2>2 DEF Flown, TornAt
  <1>4. \A t \in Tasks : Answered(t)
    BY AtFacts DEF Answered
  <1> QED BY <1>2, <1>3, <1>4 DEF Serves, ServeInv

\* A temporary file that was being filled is cut short when the program ends.
LEMMA StopServes ==
    ASSUME CacheInv, ServeInv, NEW leave \in BOOLEAN, Stop(leave)
    PROVE  Serves
  <1> DEFINE cut(i) == dir[i].cut \/ \E t \in Tasks : call[t].image = i /\ call[t].at = "fill"
  <1>1. /\ dir' = [i \in Images |-> [dir[i] EXCEPT !.cut = cut(i)]]
        /\ flight' = [i \in Images |-> None] /\ call' = [t \in Tasks |-> NoCall]
    BY DEF Stop, CacheStops
  <1> HIDE DEF cut
  <1>2. ASSUME NEW i \in Images PROVE dir'[i].files = dir[i].files /\ (cut(i) => dir'[i].cut)
    <2>1. dir[i] \in Directory
      BY DEF CacheInv, CacheTypes
    <2> QED BY <1>1, <2>1 DEF Directory
  <1>3. ASSUME NEW t \in Tasks PROVE call'[t].at = "idle" /\ call'[t].follows = None
    BY <1>1 DEF NoCall
  <1>4. ASSUME NEW i \in Images PROVE TornAt(i)'
    <2>1. TornAt(i)
      BY DEF ServeInv
    <2>2. Names' = Names /\ Finals' = Finals
      BY DEF Names, Finals, MaxVersion
    <2>3. \A n \in Names : dir[i].files[n] = "torn" => n \notin Finals /\ cut(i)
      BY <2>1 DEF TornAt, Filled, cut
    <2> QED BY <1>2, <2>2, <2>3 DEF TornAt
  <1>5. \A i \in Images : Flown(i)'
    BY <1>1 DEF Flown
  <1>6. \A t \in Tasks : Served(t)'
    BY <1>3, AtFacts DEF Served, Named
  <1>7. \A t \in Tasks : Answered(t)
    BY <1>3 DEF Answered
  <1> QED BY <1>4, <1>5, <1>6, <1>7 DEF Serves, ServeInv

LEMMA InitServes ==
    ASSUME Init
    PROVE  ServeInv
  <1>1. PICK age \in [Images -> {"absent", "stale", "fresh"}] :
          \A i \in Images : dir[i] = Cached(age[i])
    BY CacheAssumption DEF Init, CacheInit
  <1>2. flight = [i \in Images |-> None] /\ call = [t \in Tasks |-> NoCall]
    BY DEF Init, CacheInit
  <1>3. ASSUME NEW i \in Images PROVE Flown(i) /\ TornAt(i)
    <2>1. dir[i].files = NoFiles \/ dir[i].files = [NoFiles EXCEPT ![1] = "whole"]
      <3>1. CASE age[i] = "absent"
        <4>1. dir[i] = NoDirectory
          BY <1>1, <3>1 DEF Cached
        <4> QED BY <4>1 DEF NoDirectory
      <3>2. CASE age[i] # "absent"
        <4>1. dir[i] = [NoDirectory EXCEPT !.exists = TRUE,
                                           !.meta = [name |-> 1, fresh |-> age[i] = "fresh"],
                                           !.files[1] = "whole", !.version = 1, !.kept = TRUE]
          BY <1>1, <3>2 DEF Cached
        <4> QED BY <4>1 DEF NoDirectory
      <3> QED BY <3>1, <3>2
    <2>2. \A n \in Names : dir[i].files[n] # "torn"
      BY <2>1 DEF NoFiles
    <2> QED BY <1>2, <2>2 DEF Flown, TornAt
  <1>4. \A t \in Tasks : Served(t)
    BY <1>2, AtFacts DEF Served, Named, NoCall
  <1> QED BY <1>3, <1>4 DEF ServeInv

LEMMA StoreServed ==
    ASSUME CacheInv, ServeInv, run' = run, NEW t \in Tasks, Store(t)
    PROVE  Serves
  BY MakeDirServes, WriteTempServes, FillTempServes, ReplaceServes, RenameServes, MetaServes,
     SweepServes, StoreFailsServes DEF Store

LEMMA NextServes ==
    ASSUME CacheInv, ServeInv, [Next]_vars
    PROVE  Serves
  <1>1. CASE \E t \in Tasks, kind \in Kinds, i \in Images : Images_(Begin(t, kind, i))
    BY <1>1, BeginServes DEF Images_
  <1>2. CASE \E t \in Tasks : Task(t)
    <2>1. PICK t \in Tasks : TaskStep(t) /\ run' = run
      BY <1>2 DEF Task
    <2> QED BY <2>1, ReadServes, StoreServed, AnswerServes DEF TaskStep
  <1>3. CASE Images_(ClearCoverArt)
    BY <1>3, NothingServes DEF Images_, ClearCoverArt, BeginRemoval
  <1>4. CASE Remove
    <2>1. run' = run
      BY <1>4 DEF Remove
    <2>2. CASE EndRemoval
      BY <2>1, <2>2, NothingServes DEF EndRemoval
    <2>3. CASE \E i \in Images : Unlink(i)
      BY <2>1, <2>3, UnlinkServes
    <2>4. CASE \E i \in Images : RemoveDir(i)
      BY <2>1, <2>4, RemoveDirServes
    <2>5. CASE \E i \in Images : RemovalFails(i)
      BY <2>1, <2>5, NothingServes DEF RemovalFails
    <2> QED BY <1>4, <2>2, <2>3, <2>4, <2>5 DEF Remove, RemovalStep
  <1>5. CASE \E i \in Images : Expire(i) /\ UNCHANGED <<windows, run, calls, appVars>>
    BY <1>5, ExpireServes
  <1>6. CASE \E a : BeginConnect(a) \/ BeginBootstrap(a)
    BY <1>6, NothingServes DEF BeginConnect, BeginBootstrap, cacheVars
  <1>7. CASE \E a \in Actors : JobStep(a)
    BY <1>7, JobLeaves, NothingServes
  <1>8. CASE BeginDelete \/ BeginImport \/ Export \/ Play
    BY <1>8, NothingServes DEF BeginDelete, BeginRemoval, BeginImport, Export, Play, Same, cacheVars
  <1>9. CASE \E leave \in BOOLEAN : Stop(leave)
    BY <1>9, StopServes
  <1>10. CASE UNCHANGED vars
    BY <1>10, NothingServes DEF vars, cacheVars
  <1>11. FirstOf({s \in Tasks : call[s].at = "idle"}) \subseteq Tasks
    BY DEF FirstOf
  <1> QED BY <1>1, <1>2, <1>3, <1>4, <1>5, <1>6, <1>7, <1>8, <1>9, <1>10, <1>11 DEF Next

\* ServedIsWhole: a call for an image is answered with a file that is whole, or
\* that another store or a removal has taken or written anew since it was seen; a
\* torn one only where a store was cut short (read_entry, refresh_entry and the
\* commands around them), whoever leads and whoever waits.
THEOREM AnswersAreWhole == Spec => ServedIsWhole
  <1>1. Init => CacheInv /\ ServeInv
    BY InitInv, InitServes
  <1>2. CacheInv /\ ServeInv /\ [Next]_vars => CacheInv' /\ ServeInv'
    BY NextInv, NextServes DEF Serves
  <1>3. CacheInv /\ ServeInv /\ [Next]_vars =>
          [\A t \in Tasks :
             (call[t].at \in Running /\ call'[t].at = "done" /\ call'[t].result \in Names) =>
               LET d == dir[call[t].image]
               IN \/ d.files[call'[t].result] = "whole"
                  \/ d.files[call'[t].result] = "none" /\ call[t].over
                  \/ d.files[call'[t].result] = "torn" /\ d.cut
                  \/ /\ d.files[call'[t].result] = "torn" /\ call'[t].result \notin Finals
                     /\ call[t].over]_call
    <2> SUFFICES ASSUME CacheInv, ServeInv, [Next]_vars, NEW t \in Tasks
                 PROVE  Answered(t)
      BY DEF Answered, Fits
    <2> QED BY NextServes DEF Serves
  <1> QED BY <1>1, <1>2, <1>3, PTL DEF Spec, ServedIsWhole
=============================================================================
