------------------------- MODULE SharedPlaybackProofs ------------------------
(***************************************************************************)
(* Theorems about SharedPlayback, for every set of devices, commands and   *)
(* reports and for queues of any length: the stored state is always one    *)
(* that decoding leaves alone, the active device is online, sequence       *)
(* number, queue revision and index map keep their promises, the current   *)
(* entry stays current through every edit that keeps it, and the play-next *)
(* region covers only what was enqueued to play next.                      *)
(***************************************************************************)
EXTENDS PlayNextMarks, PlaybackRoomProofs

-----------------------------------------------------------------------------
(* The theorems.                                                           *)

LEMMA InitTypeOK == Init => TypeOK
  <1>1. NoShared \in SharedState /\ NoShared.state = EmptyPlaybackState
    BY EmptyPlaybackStateType DEF NoShared, SharedState
  <1>2. QED
    BY <1>1, EmptyPlaybackStateType DEF Init, TypeOK, WellFormedShared

\* Every step of the room is sound, whichever handler takes it.
LEMMA NextSound ==
    ASSUME TypeOK, [Next]_vars
    PROVE  SoundChange(shared, shared') /\ online' \subseteq Devices
  <1> DEFINE now(elapsed) == AsOfNow(shared, elapsed)
  <1>1. WellFormedShared(shared) /\ online \subseteq Devices
    BY DEF TypeOK, WellFormedShared
  <1>2. SoundChange(shared, shared)
    BY <1>1, SharedFields DEF SoundChange, WellFormedShared, Sequenced, RevisionFollows
  <1>3. \A elapsed \in BOOLEAN : WellFormedShared(now(elapsed))
    BY <1>1, AsOfNowSound
  <1>4. ASSUME NEW elapsed \in BOOLEAN, NEW new, SoundChange(now(elapsed), new)
        PROVE  SoundChange(shared, new)
    BY <1>1, <1>4, SoundAsOfNow
  <1>5. CASE UNCHANGED vars
    BY <1>1, <1>2, <1>5 DEF vars
  <1>6. ASSUME NEW d \in Devices, NEW elapsed \in BOOLEAN, NEW cmd \in Commands,
               QueueCommand(d, cmd, elapsed)
        PROVE  SoundChange(shared, shared') /\ online' \subseteq Devices
    <2>1. cmd \in Command
      BY CommandsAssumption
    <2>2. /\ Accepts(now(elapsed).state, cmd)
          /\ shared' = AfterCommand(now(elapsed), cmd, d) /\ online' = online
      BY <1>6 DEF QueueCommand
    <2> HIDE DEF now
    <2>3. SoundChange(now(elapsed), shared')
      BY <1>3, <2>1, <2>2, CommandSound
    <2>4. QED
      BY <1>1, <1>4, <2>2, <2>3
  <1>7. ASSUME NEW d \in Devices, NEW elapsed \in BOOLEAN, ControlCommand(d, elapsed)
        PROVE  SoundChange(shared, shared') /\ online' \subseteq Devices
    <2>1. shared' = AfterControl(now(elapsed), d) /\ online' = online
      BY <1>7 DEF ControlCommand
    <2> HIDE DEF now
    <2>2. SoundChange(now(elapsed), shared')
      BY <1>3, <2>1, ClaimSound
    <2>3. QED
      BY <1>1, <1>4, <2>1, <2>2
  <1>8. ASSUME NEW d \in Devices, NEW elapsed \in BOOLEAN, NEW target \in Devices,
               TransferPlayback(d, target, elapsed)
        PROVE  SoundChange(shared, shared') /\ online' \subseteq Devices
    <2>1. shared' = AfterTransfer(now(elapsed), target) /\ online' = online
      BY <1>8 DEF TransferPlayback
    <2> HIDE DEF now
    <2>2. SoundChange(now(elapsed), shared')
      BY <1>3, <2>1, ClaimSound
    <2>3. QED
      BY <1>1, <1>4, <2>1, <2>2
  <1>9. ASSUME NEW d \in Devices, NEW elapsed \in BOOLEAN, NEW report \in Reports,
               PlaybackReport(d, report, elapsed)
        PROVE  SoundChange(shared, shared') /\ online' \subseteq Devices
    <2>1. report \in Report
      BY ReportsAssumption
    <2>2. /\ ReportAccepted(now(elapsed), report, d)
          /\ shared' = AfterReport(now(elapsed), report, d) /\ online' = online
      BY <1>9 DEF PlaybackReport
    <2> HIDE DEF now
    <2>3. SoundChange(now(elapsed), shared')
      BY <1>3, <2>1, <2>2, ReportSound
    <2>4. QED
      BY <1>1, <1>4, <2>2, <2>3
  <1>10. ASSUME NEW d \in Devices, Register(d)
         PROVE  SoundChange(shared, shared') /\ online' \subseteq Devices
    BY <1>1, <1>2, <1>10 DEF Register
  <1>11. ASSUME NEW d \in Devices, NEW elapsed \in BOOLEAN, Unregister(d, elapsed)
         PROVE  SoundChange(shared, shared') /\ online' \subseteq Devices
    <2>1. online' \subseteq Devices
      BY <1>1, <1>11 DEF Unregister
    <2>2. CASE shared.active = d
      <3>1. shared' = AfterFreeze(now(elapsed))
        BY <1>11, <2>2 DEF Unregister
      <3> HIDE DEF now
      <3>2. SoundChange(now(elapsed), shared')
        BY <1>3, <3>1, FreezeSound
      <3>3. QED
        BY <1>4, <2>1, <3>2
    <2>3. CASE shared.active # d
      <3>1. shared' = shared
        BY <1>11, <2>3 DEF Unregister
      <3>2. QED
        BY <1>2, <2>1, <3>1
    <2>4. QED
      BY <2>2, <2>3
  <1>12. QED
    BY <1>5, <1>6, <1>7, <1>8, <1>9, <1>10, <1>11 DEF Next

\* The stored state is always well formed: the hub never saves a queue, index,
\* play-next length or playing state the next decode would have to repair.
THEOREM TypeCorrect == Spec => []TypeOK
  <1>1. TypeOK /\ [Next]_vars => TypeOK'
    BY NextSound DEF SoundChange, WellFormedShared, TypeOK
  <1>2. QED
    BY InitTypeOK, <1>1, PTL DEF Spec

\* Sequence numbers never go back, and the queue never changes under one.
THEOREM SequencedCorrect == Spec => QueueChangeIsSequenced
  <1>1. TypeOK /\ [Next]_vars =>
            [/\ shared'.seq >= shared.seq
             /\ shared'.seq = shared.seq
                   => /\ shared'.state.queue = shared.state.queue
                      /\ shared'.state.queueRevision = shared.state.queueRevision]_vars
    BY NextSound DEF SoundChange, Sequenced
  <1>2. QED
    BY TypeCorrect, <1>1, PTL DEF Spec, QueueChangeIsSequenced

\* Every saved change of the queue comes with the next revision and a map that
\* leads every entry that stays to its new index (or with no map at all).
THEOREM RevisionCorrect == Spec => QueueRevisionFollowsQueue
  <1>1. TypeOK /\ [Next]_vars => [RevisionFollows(shared.state, shared'.state)]_vars
    BY NextSound DEF SoundChange
  <1>2. QED
    BY TypeCorrect, <1>1, PTL DEF Spec, QueueRevisionFollowsQueue

\* A device is active only while it is online: every way to become active goes
\* through an online device, and going offline releases it.
THEOREM ActiveCorrect == Spec => []ActiveIsOnline
  <1>1. Init => ActiveIsOnline
    BY DEF Init, ActiveIsOnline, NoShared
  <1>2. ASSUME TypeOK, ActiveIsOnline, [Next]_vars
        PROVE  ActiveIsOnline'
    <2>1. shared \in SharedState /\ WellFormed(shared.state)
      BY <1>2 DEF TypeOK, WellFormedShared
    <2>2. \A elapsed \in BOOLEAN :
              /\ AsOfNow(shared, elapsed) \in SharedState
              /\ AsOfNow(shared, elapsed).active = shared.active
      BY <2>1, AsOfNowSound DEF WellFormedShared
    <2>3. CASE UNCHANGED vars
      BY <1>2, <2>3 DEF vars, ActiveIsOnline
    <2>4. ASSUME NEW d \in Devices, NEW elapsed \in BOOLEAN, NEW cmd \in Commands,
                 QueueCommand(d, cmd, elapsed)
          PROVE  ActiveIsOnline'
      <3> DEFINE current == AsOfNow(shared, elapsed)
      <3>1. shared' = AfterCommand(current, cmd, d) /\ d \in online /\ online' = online
        BY <2>4 DEF QueueCommand
      <3>2. current \in SharedState /\ current.active = shared.active
        BY <2>2
      <3> HIDE DEF current
      <3>3. ActiveAfter(current, cmd, d) \in {d, current.active}
        BY <3>2, ActiveAfterType
      <3>4. shared'.active \in {d, shared.active}
        BY <3>1, <3>2, <3>3 DEF AfterCommand
      <3>5. QED
        BY <1>2, <3>1, <3>4 DEF ActiveIsOnline
    <2>5. ASSUME NEW d \in Devices, NEW elapsed \in BOOLEAN, ControlCommand(d, elapsed)
          PROVE  ActiveIsOnline'
      <3>1. shared'.active = d /\ d \in online /\ online' = online
        BY <2>2, <2>5 DEF ControlCommand, AfterControl, SharedState
      <3>2. QED
        BY <3>1 DEF ActiveIsOnline
    <2>6. ASSUME NEW d \in Devices, NEW elapsed \in BOOLEAN, NEW target \in Devices,
                 TransferPlayback(d, target, elapsed)
          PROVE  ActiveIsOnline'
      <3>1. shared'.active = target /\ target \in online /\ online' = online
        BY <2>2, <2>6 DEF TransferPlayback, AfterTransfer, SharedState
      <3>2. QED
        BY <3>1 DEF ActiveIsOnline
    <2>7. ASSUME NEW d \in Devices, NEW elapsed \in BOOLEAN, NEW report \in Reports,
                 PlaybackReport(d, report, elapsed)
          PROVE  ActiveIsOnline'
      <3>1. /\ shared'.active \in {d, shared.active}
            /\ d \in online /\ online' = online
        BY <2>2, <2>7 DEF PlaybackReport, AfterReport, Claimed, SharedState
      <3>2. QED
        BY <1>2, <3>1 DEF ActiveIsOnline
    <2>8. ASSUME NEW d \in Devices, Register(d)
          PROVE  ActiveIsOnline'
      BY <1>2, <2>8 DEF Register, ActiveIsOnline
    <2>9. ASSUME NEW d \in Devices, NEW elapsed \in BOOLEAN, Unregister(d, elapsed)
          PROVE  ActiveIsOnline'
      <3>1. CASE shared.active = d
        <4>1. shared'.active = NoDevice
          BY <2>2, <2>9, <3>1 DEF Unregister, AfterFreeze, SharedState
        <4>2. QED
          BY <4>1 DEF ActiveIsOnline
      <3>2. CASE shared.active # d
        <4>1. shared' = shared /\ online' = online \ {d}
          BY <2>9, <3>2 DEF Unregister
        <4>2. QED
          BY <1>2, <3>2, <4>1 DEF ActiveIsOnline
      <3>3. QED
        BY <3>1, <3>2
    <2>10. QED
      BY <1>2, <2>3, <2>4, <2>5, <2>6, <2>7, <2>8, <2>9 DEF Next
  <1>3. QED
    BY TypeCorrect, <1>1, <1>2, PTL DEF Spec

-----------------------------------------------------------------------------
(* What the reducers do to the current entry and to the play-next region.  *)

\* An edit that keeps the current entry moves the index with it.
CurrentKept(s, t) ==
    EditKeepsCurrent(s, t) => t.currentIndex = ItemAt(t.queueIndexMap, s.currentIndex)

\* A queue without entries has none left to be current.
LEMMA EmptiedKept ==
    ASSUME NEW s, WellFormed(s), NEW t, Follows(s, t), t.queue = <<>>
    PROVE  ~EditKeepsCurrent(s, t)
  <1> SUFFICES ASSUME EditKeepsCurrent(s, t) PROVE FALSE
    OBVIOUS
  <1>1. /\ s.currentIndex \in Indices(s.queue) /\ s.queueRevision \in Nat
        /\ Len(s.queue) \in Nat /\ Len(s.queue) # 0
    BY WellFormedFields, StateFields DEF EditKeepsCurrent, Indices, NoIndex
  <1>2. MapTracks(s.queue, t.queue, t.queueIndexMap)
    BY <1>1 DEF Follows, RevisionFollows, EditKeepsCurrent, EmptyMap
  <1>3. s.currentIndex \in Survivors(t.queueIndexMap)
    BY <1>1, <1>2 DEF EditKeepsCurrent, MapTracks, Survivors, Indices
  <1>4. Indices(t.queue) = {}
    BY DEF Indices
  <1>5. QED
    BY <1>2, <1>3, <1>4 DEF MapTracks

\* Decoding and encoding do not touch the index of a queue with entries.
LEMMA NormalizedKept ==
    ASSUME NEW s, WellFormed(s), NEW t, Follows(s, t), ValidState(t), CurrentKept(s, t)
    PROVE  CurrentKept(s, Normalized(t))
  <1> DEFINE u == Normalized(t)
  <1>1. /\ u.queue = t.queue /\ u.queueRevision = t.queueRevision
        /\ u.queueIndexMap = t.queueIndexMap
        /\ t.queue # <<>> => u.currentIndex = t.currentIndex
    BY NormalizedFields DEF Follows
  <1> HIDE DEF u
  <1>2. CASE t.queue # <<>>
    BY <1>1, <1>2 DEF CurrentKept, EditKeepsCurrent, u
  <1>3. CASE t.queue = <<>>
    <2>1. ~EditKeepsCurrent(s, t)
      BY <1>3, EmptiedKept
    <2>2. QED
      BY <1>1, <2>1 DEF CurrentKept, EditKeepsCurrent, u
  <1>4. QED
    BY <1>2, <1>3 DEF u

\* Without a map, or with the same revision, there is nothing to keep.
LEMMA UnmappedKept ==
    ASSUME NEW s, WellFormed(s), NEW t,
           t.queueIndexMap = EmptyMap \/ t.queueRevision = s.queueRevision
    PROVE  CurrentKept(s, t)
  <1>1. /\ s.currentIndex \in -1 .. Len(s.queue) - 1 /\ s.queueRevision \in Nat
        /\ Len(s.queue) \in Nat
    BY WellFormedFields, StateFields
  <1>2. QED
    BY <1>1 DEF CurrentKept, EditKeepsCurrent, EmptyMap, NoIndex

\* insertAfterCurrent with a current entry: the index stays, the items follow
\* the region, which grows by them.
LEMMA InsertedFields ==
    ASSUME NEW s, WellFormed(s), s.currentIndex # NoIndex, NEW items \in Seq(Entries)
    PROVE  LET t == InsertAfterCurrent(s, items)
               n == Len(s.queue)
               at == s.currentIndex + 1 + s.playNextQueueLen
           IN  /\ at \in 0 .. n
               /\ t.queue = SubSeq(s.queue, 1, at) \o items \o SubSeq(s.queue, at + 1, n)
               /\ t.queueIndexMap = InsertedIndexMap(n, at, Len(items))
               /\ t.currentIndex = s.currentIndex
               /\ t.playNextQueueLen = s.playNextQueueLen + Len(items)
  <1> DEFINE n == Len(s.queue)
             at == PlayNextEnd(n, s.currentIndex, s.playNextQueueLen)
             queue == SubSeq(s.queue, 1, at) \o items \o SubSeq(s.queue, at + 1, n)
             map == InsertedIndexMap(n, at, Len(items))
             inserted == RecordQueueChange(s, queue, map)
             u == [inserted EXCEPT !.playNextQueueLen = @ + Len(items)]
  <1>1. /\ s \in PlaybackState /\ s.queue \in Seq(Entries)
        /\ n \in Nat /\ Len(items) \in Nat
        /\ s.currentIndex \in -1 .. n - 1
        /\ s.playNextQueueLen \in 0 .. n - (s.currentIndex + 1)
    BY WellFormedFields, StateFields, LenProperties
  <1>2. at \in 0 .. n /\ at = s.currentIndex + 1 + s.playNextQueueLen
    <2> HIDE DEF n
    <2>1. s.playNextQueueLen \in Int
      BY <1>1
    <2>2. /\ PlayNextStart(n, s.currentIndex) = s.currentIndex + 1
          /\ ClampedPlayNextLen(n, s.currentIndex, s.playNextQueueLen) = s.playNextQueueLen
      BY <1>1, <2>1, ClampedFits
    <2>3. QED
      BY <1>1, <2>2 DEF PlayNextEnd
  <1>8. InsertAfterCurrent(s, items) = WithCurrent(u)
    BY DEF InsertAfterCurrent
  <1> HIDE DEF at, n
  <1>3. queue \in Seq(Entries) /\ map \in Seq(Int)
    BY <1>1, <1>2, InsertedIsTracked DEF n
  <1> HIDE DEF queue, map
  <1>4. /\ inserted \in PlaybackState /\ inserted.queue = queue /\ inserted.queueIndexMap = map
        /\ inserted.currentIndex = s.currentIndex
        /\ inserted.playNextQueueLen = s.playNextQueueLen
    BY <1>1, <1>3, RecordedType
  <1> HIDE DEF inserted
  <1>5. /\ u.queue = queue /\ u.queueIndexMap = map /\ u.currentIndex = s.currentIndex
        /\ u.playNextQueueLen = s.playNextQueueLen + Len(items)
    BY <1>4 DEF PlaybackState
  <1> HIDE DEF u
  <1>6. WithCurrent(u) = u
    BY <1>5 DEF WithCurrent
  <1>7. QED
    BY <1>2, <1>5, <1>6, <1>8 DEF queue, map, n

\* appendToQueue with a current entry: index and region stay.
LEMMA AppendedFields ==
    ASSUME NEW s, WellFormed(s), NEW items \in Seq(Entries)
    PROVE  LET t == AppendToQueue(s, items)
               n == Len(s.queue)
           IN  /\ t.queue = s.queue \o items
               /\ t.queueIndexMap = InsertedIndexMap(n, n, 0)
               /\ s.currentIndex # NoIndex => /\ t.currentIndex = s.currentIndex
                                              /\ t.playNextQueueLen = s.playNextQueueLen
               /\ s.currentIndex = NoIndex => t.playNextQueueLen = 0
  <1> DEFINE n == Len(s.queue)
             queue == s.queue \o items
             map == InsertedIndexMap(n, n, 0)
             appended == RecordQueueChange(s, queue, map)
             u == [appended EXCEPT !.playNextQueueLen =
                                      IF s.currentIndex = NoIndex THEN 0 ELSE @]
  <1>1. /\ s \in PlaybackState /\ s.queue \in Seq(Entries) /\ n \in Nat
        /\ s.currentIndex \in -1 .. n - 1
    BY WellFormedFields, StateFields
  <1>2. AppendToQueue(s, items) = WithCurrent(u)
    BY DEF AppendToQueue
  <1>3. queue \in Seq(Entries) /\ map \in Seq(Int)
    <2>1. queue \in Seq(Entries)
      BY <1>1, ConcatProperties
    <2> HIDE DEF n
    <2>2. map \in [1 .. n -> Int]
      BY <1>1 DEF InsertedIndexMap
    <2>3. QED
      BY <1>1, <2>1, <2>2
  <1> HIDE DEF queue, map
  <1>4. /\ appended \in PlaybackState /\ appended.queue = queue
        /\ appended.queueIndexMap = map
        /\ appended.currentIndex = s.currentIndex
        /\ appended.playNextQueueLen = s.playNextQueueLen
    BY <1>1, <1>3, RecordedType
  <1> HIDE DEF appended
  <1>5. /\ u \in PlaybackState /\ u.queue = queue /\ u.queueIndexMap = map
        /\ u.currentIndex = s.currentIndex
        /\ u.playNextQueueLen = IF s.currentIndex = NoIndex THEN 0 ELSE s.playNextQueueLen
    <2> DEFINE len == IF s.currentIndex = NoIndex THEN 0 ELSE s.playNextQueueLen
    <2>1. u = [appended EXCEPT !.playNextQueueLen = len]
      BY <1>4
    <2>2. len \in Nat
      <3>1. s.playNextQueueLen \in Nat
        BY <1>1, WellFormedFields
      <3>2. QED
        BY <3>1
    <2> HIDE DEF len, u
    <2>3. u \in PlaybackState
      BY <1>4, <2>1, <2>2 DEF PlaybackState
    <2>4. /\ u.queue = appended.queue /\ u.queueIndexMap = appended.queueIndexMap
          /\ u.currentIndex = appended.currentIndex /\ u.playNextQueueLen = len
      BY <1>4, <2>1 DEF PlaybackState
    <2>5. QED
      BY <1>4, <2>3, <2>4 DEF len
  <1> HIDE DEF u
  <1>6. CASE s.currentIndex # NoIndex
    <2>1. WithCurrent(u) = u
      BY <1>5, <1>6 DEF WithCurrent
    <2>2. QED
      BY <1>2, <1>5, <1>6, <2>1 DEF queue, map
  <1>7. CASE s.currentIndex = NoIndex
    <2>1. WithCurrent(u) = Located(u, 0, u.playNextQueueLen, AtStart, StoppedOrIdle(u.queue))
      BY <1>5, <1>7 DEF WithCurrent
    <2>2. /\ WithCurrent(u).queue = queue /\ WithCurrent(u).queueIndexMap = map
          /\ WithCurrent(u).playNextQueueLen = 0
      BY <1>5, <1>7, <2>1 DEF Located, PlaybackState
    <2>3. QED
      BY <1>2, <1>7, <2>2 DEF queue, map
  <1>8. QED
    BY <1>6, <1>7

\* Moving a state within its queue leaves queue and map alone.
LEMMA LocatedRecorded ==
    ASSUME NEW s \in PlaybackState, NEW queue \in Seq(Entries), NEW map \in Seq(Int),
           NEW index, NEW len, NEW position, NEW playing
    PROVE  LET t == Located(RecordQueueChange(s, queue, map), index, len, position, playing)
           IN  /\ t.queue = queue /\ t.queueIndexMap = map
               /\ t.currentIndex = index /\ t.playNextQueueLen = len
  <1> DEFINE r == RecordQueueChange(s, queue, map)
  <1>1. r \in PlaybackState /\ r.queue = queue /\ r.queueIndexMap = map
    BY RecordedType
  <1> HIDE DEF r
  <1>2. QED
    BY <1>1 DEF Located, PlaybackState, r

\* One index out: what stays above it moves down by one.
LEMMA RankOfOne ==
    ASSUME NEW i \in Nat, NEW x \in Nat
    PROVE  Rank(i, {x}) = IF i <= x THEN i ELSE i - 1
  <1> DEFINE below == 0 .. i - 1
  <1>1. IsFiniteSet(below) /\ Cardinality(below) = i
    BY FS_Interval
  <1>2. CASE i <= x
    <2>1. below \ {x} = below
      BY <1>2
    <2>2. QED
      BY <1>1, <1>2, <2>1 DEF Rank
  <1>3. CASE x < i
    <2>1. x \in below
      BY <1>3
    <2> HIDE DEF below
    <2>2. Cardinality(below \ {x}) = Cardinality(below) - 1
      BY <1>1, <2>1, FS_RemoveElement
    <2>3. QED
      BY <1>1, <1>3, <2>2 DEF Rank, below
  <1>4. QED
    BY <1>2, <1>3

\* removeQueueIndex of an entry that is not the only one.
LEMMA RemovedIndexFields ==
    ASSUME NEW s, WellFormed(s), NEW index \in Indices(s.queue), Len(s.queue) # 1
    PROVE  LET t == RemoveQueueIndex(s, index)
               n == Len(s.queue)
               map == RemovedIndexMap(n, {index})
               len == IF ConsumesPlayNext(s, index)
                      THEN s.playNextQueueLen - 1 ELSE s.playNextQueueLen
           IN  /\ n \in Nat /\ n >= 2 /\ Len(map) = n
               /\ Len(t.queue) = n - 1
               /\ \A k \in 0 .. n - 2 :
                     ItemAt(t.queue, k) = ItemAt(s.queue, IF k < index THEN k ELSE k + 1)
               /\ t.queueIndexMap = map
               /\ \A i \in 0 .. n - 1 :
                     ItemAt(map, i) = IF i = index THEN Gone ELSE IF i < index THEN i ELSE i - 1
               /\ t.currentIndex = CurrentAfterRemoval(n, s.currentIndex, index)
               /\ t.playNextQueueLen = ClampedPlayNextLen(n - 1, t.currentIndex, len)
  <1> DEFINE n == Len(s.queue)
             map == RemovedIndexMap(n, {index})
             queue == ApplyIndexMap(s.queue, map)
             current == CurrentAfterRemoval(n, s.currentIndex, index)
             len == IF ConsumesPlayNext(s, index)
                    THEN s.playNextQueueLen - 1 ELSE s.playNextQueueLen
             clamped == ClampedPlayNextLen(n - 1, current, len)
             position == IF current = index THEN AtStart ELSE s.position
             t == RemoveQueueIndex(s, index)
  <1>1. /\ s \in PlaybackState /\ s.queue \in Seq(Entries) /\ n \in Nat
        /\ index \in 0 .. n - 1 /\ index \in Nat /\ n # 1
    BY WellFormedFields, StateFields DEF Indices
  <1>2. n >= 2
    <2> HIDE DEF n
    <2>1. QED
      BY <1>1
  <1>3. Rank(n, {index}) = n - 1
    BY <1>1, RankOfOne
  <1>4. t = Located(RecordQueueChange(s, queue, map), current, clamped, position, s.playingState)
    BY <1>2 DEF RemoveQueueIndex
  <1> HIDE DEF t, n
  <1>5. /\ Survivors(map) = (0 .. n - 1) \ {index}
        /\ \A i \in Survivors(map) : ItemAt(map, i) = Rank(i, {index})
        /\ IndexMap(map, n, n - 1)
    BY <1>1, <1>3, RemovedIsIndexMap
  <1>6. \A i \in 0 .. n - 1 : ItemAt(map, i) = IF i = index THEN Gone
                                               ELSE IF i < index THEN i ELSE i - 1
    <2>1. ItemAt(map, index) = Gone
      BY <1>1 DEF RemovedIndexMap, ItemAt
    <2>2. ASSUME NEW i \in 0 .. n - 1, i # index
          PROVE  ItemAt(map, i) = IF i < index THEN i ELSE i - 1
      <3>1. ItemAt(map, i) = Rank(i, {index})
        BY <1>5, <2>2
      <3>2. i \in Nat /\ (i <= index <=> i < index)
        BY <1>1, <2>2
      <3> HIDE DEF map
      <3>3. QED
        BY <1>1, <3>1, <3>2, RankOfOne
    <2> HIDE DEF map
    <2>3. QED
      BY <2>1, <2>2
  <1> HIDE DEF map
  <1>7. /\ queue \in Seq(Entries) /\ Len(queue) = n - 1
        /\ \A i \in Survivors(map) : ItemAt(queue, ItemAt(map, i)) = ItemAt(s.queue, i)
    BY <1>1, <1>2, <1>5, AppliedIndexMap DEF n
  <1> HIDE DEF queue
  <1>8. ASSUME NEW k \in 0 .. n - 2
        PROVE  ItemAt(queue, k) = ItemAt(s.queue, IF k < index THEN k ELSE k + 1)
    <2> DEFINE i == IF k < index THEN k ELSE k + 1
    <2>1. i \in 0 .. n - 1 /\ i # index
      BY <1>1
    <2>2. ItemAt(map, i) = k
      BY <1>1, <1>6, <2>1
    <2> HIDE DEF i
    <2>3. QED
      BY <1>5, <1>7, <2>1, <2>2 DEF i
  <1>9. map \in Seq(Int) /\ Len(map) = n
    BY <1>5 DEF IndexMap
  <1> HIDE DEF current, clamped, position, len
  <1>10. /\ t.queue = queue /\ t.queueIndexMap = map
         /\ t.currentIndex = current /\ t.playNextQueueLen = clamped
    BY <1>1, <1>4, <1>7, <1>9, LocatedRecorded
  <1>11. QED
    BY <1>1, <1>2, <1>6, <1>7, <1>8, <1>9, <1>10 DEF t, n, map, current, clamped, len

\* The region as an interval: within it, and exactly it when the length fits.
LEMMA RegionIs ==
    ASSUME NEW n \in Nat, NEW current \in -1 .. n - 1, NEW len \in Int
    PROVE  /\ PlayNextRegion(n, current, len) \subseteq current + 1 .. current + len
           /\ PlayNextRegion(n, current, len) \subseteq 0 .. n - 1
           /\ ClampedPlayNextLen(n, current, len) <= IF len <= 0 THEN 0 ELSE len
           /\ len \in 0 .. n - (current + 1) =>
                 PlayNextRegion(n, current, len) = current + 1 .. current + len
  <1> DEFINE clamped == ClampedPlayNextLen(n, current, len)
  <1>1. /\ PlayNextStart(n, current) = current + 1
        /\ clamped \in 0 .. n - (current + 1)
        /\ len \in 0 .. n - (current + 1) => clamped = len
    BY ClampedFits
  <1>2. clamped <= IF len <= 0 THEN 0 ELSE len
    BY <1>1 DEF ClampedPlayNextLen
  <1>3. PlayNextRegion(n, current, len) = current + 1 .. current + 1 + clamped - 1
    BY <1>1 DEF PlayNextRegion, PlayNextEnd
  <1> HIDE DEF clamped
  <1>4. QED
    BY <1>1, <1>2, <1>3 DEF clamped

\* How many of an interval stay.
LEMMA RankBetween ==
    ASSUME NEW a \in Nat, NEW b \in Nat, NEW R, a <= b
    PROVE  Cardinality((a .. b - 1) \ R) = Rank(b, R) - Rank(a, R)
  <1> DEFINE A == (0 .. a - 1) \ R
             B == (a .. b - 1) \ R
             C == (0 .. b - 1) \ R
  <1>1. /\ IsFiniteSet(A) /\ IsFiniteSet(C)
        /\ Cardinality(A) = Rank(a, R) /\ Cardinality(C) = Rank(b, R)
        /\ Rank(a, R) \in Nat /\ Rank(b, R) \in Nat
    BY RankType DEF Rank
  <1>2. B \in SUBSET C /\ A \cup B = C /\ A \cap B = {}
    OBVIOUS
  <1> HIDE DEF A, B, C
  <1>3. IsFiniteSet(B) /\ Cardinality(B) \in Nat
    BY <1>1, <1>2, FS_Subset, FS_CardinalityType
  <1>4. Cardinality(C) = Cardinality(A) + Cardinality(B) - 0
    BY <1>1, <1>2, <1>3, FS_Union, FS_EmptySet
  <1>5. QED
    BY <1>1, <1>3, <1>4 DEF B

\* Every index of the shorter queue is the rank of an index that stays.
LEMMA RankOnto ==
    ASSUME NEW n \in Nat, NEW R, NEW k \in 0 .. Rank(n, R) - 1
    PROVE  \E i \in (0 .. n - 1) \ R : Rank(i, R) = k
  <1> DEFINE S == (0 .. n - 1) \ R
             m == Rank(n, R)
             map == RemovedIndexMap(n, R)
             f == [i \in S |-> Rank(i, R)]
  <1>1. m \in Nat /\ IsFiniteSet(S) /\ Cardinality(S) = m
    BY RankType DEF Rank
  <1>2. /\ Survivors(map) = S
        /\ \A i \in Survivors(map) : ItemAt(map, i) = Rank(i, R)
        /\ IndexMap(map, n, m)
    BY RemovedIsIndexMap
  <1>3. \A i \in S : Rank(i, R) \in 0 .. m - 1
    <2> HIDE DEF S, m, map
    <2>1. QED
      BY <1>2 DEF IndexMap
  <1>4. \A i, j \in S : Rank(i, R) = Rank(j, R) => i = j
    <2> HIDE DEF S, m, map
    <2>1. QED
      BY <1>2 DEF IndexMap
  <1>5. f \in [S -> 0 .. m - 1] /\ \A i, j \in S : f[i] = f[j] => i = j
    BY <1>3, <1>4
  <1>6. k \in 0 .. m - 1 /\ \A i \in S : f[i] = Rank(i, R)
    OBVIOUS
  <1> HIDE DEF S, m, f
  <1>7. \E i \in S : f[i] = k
    BY <1>1, <1>5, <1>6, OntoByCounting
  <1>8. QED
    BY <1>6, <1>7 DEF S

\* An index that stays counts for the next one.
LEMMA RankNext ==
    ASSUME NEW i \in Nat, NEW R, i \notin R
    PROVE  Rank(i + 1, R) = Rank(i, R) + 1
  <1> DEFINE b == i + 1
  <1>1. (i .. b - 1) \ R = {i}
    OBVIOUS
  <1>2. b \in Nat /\ i <= b
    OBVIOUS
  <1> HIDE DEF b
  <1>3. /\ Cardinality((i .. b - 1) \ R) = Rank(b, R) - Rank(i, R)
        /\ Rank(b, R) \in Nat /\ Rank(i, R) \in Nat
    BY <1>2, RankBetween, RankType
  <1>4. Cardinality({i}) = 1
    BY FS_Singleton
  <1>5. Rank(b, R) = Rank(i, R) + 1
    BY <1>1, <1>3, <1>4
  <1>6. QED
    BY <1>5 DEF b

\* The entry that is at k after the removal was in the region before it.
CoveredBefore(s, removing, k) ==
    \E i \in (s.currentIndex + 1 .. s.currentIndex + s.playNextQueueLen) \ removing :
        Rank(i, removing) = k

\* removeQueueIndices: the current entry is followed, or replaced by the next
\* one that stays, and what the region covers was covered before.
LEMMA RemovedIndicesFields ==
    ASSUME NEW s, WellFormed(s), NEW removing \in SUBSET Indices(s.queue)
    PROVE  LET t == RemoveQueueIndices(s, removing)
               n == Len(s.queue)
               c == s.currentIndex
               map == RemovedIndexMap(n, removing)
               m == Rank(n, removing)
           IN  /\ t.queueIndexMap = map
               /\ Len(t.queue) = m /\ m \in Nat
               /\ \A i \in (0 .. n - 1) \ removing :
                     ItemAt(t.queue, Rank(i, removing)) = ItemAt(s.queue, i)
               /\ m # 0 /\ c # NoIndex /\ c \notin removing =>
                     t.currentIndex = Rank(c, removing) /\ t.currentIndex = ItemAt(map, c)
               /\ \A k \in PlayNextRegion(m, t.currentIndex, t.playNextQueueLen) :
                     CoveredBefore(s, removing, k)
  <1> DEFINE R == removing
             n == Len(s.queue)
             c == s.currentIndex
             size == s.playNextQueueLen
             region == c + 1 .. c + size
             map == RemovedIndexMap(n, R)
             kept == Survivors(map)
             m == Cardinality(kept)
             queue == ApplyIndexMap(s.queue, map)
             removingCurrent == c \in R
             after == {i \in kept : i > c}
             hasReplacement == removingCurrent /\ after # {}
             replacement == CHOOSE i \in after : \A j \in after : i <= j
             surviving == {i \in kept : /\ ~(hasReplacement /\ i = replacement)
                                        /\ i \in PlayNextRegion(n, c, size)}
             current == IF c = NoIndex THEN NoIndex
                        ELSE IF ~removingCurrent THEN ItemAt(map, c)
                        ELSE IF hasReplacement THEN ItemAt(map, replacement)
                        ELSE m - 1
             len == ClampedPlayNextLen(m, current, Cardinality(surviving))
             position == IF removingCurrent THEN AtStart ELSE s.position
             playing == IF ~removingCurrent THEN s.playingState
                        ELSE IF hasReplacement /\ s.playingState \in LoadedStates
                        THEN "paused" ELSE "stopped"
             t == RemoveQueueIndices(s, removing)
  <1>1. /\ s \in PlaybackState /\ s.queue \in Seq(Entries) /\ n \in Nat
        /\ c \in -1 .. n - 1
        /\ size \in 0 .. n - (c + 1) /\ size \in Int
    BY WellFormedFields, StateFields
  <1>2. m = 0 => t = RemovedAll(s, map)
    BY DEF RemoveQueueIndices
  <1>3. m # 0 => t = Located(RecordQueueChange(s, queue, map), current, len, position, playing)
    BY DEF RemoveQueueIndices
  <1>4. /\ kept = (0 .. n - 1) \ R /\ m = Rank(n, R) /\ m \in Nat
        /\ IndexMap(map, n, m)
        /\ \A i \in kept : ItemAt(map, i) = Rank(i, R)
    <2>1. /\ kept = (0 .. n - 1) \ R
          /\ Rank(n, R) \in Nat /\ IndexMap(map, n, Rank(n, R))
          /\ \A i \in kept : ItemAt(map, i) = Rank(i, R)
      <3> HIDE DEF n
      <3>1. QED
        BY <1>1, RemovedIsIndexMap
    <2>2. m = Rank(n, R)
      BY <2>1 DEF IndexMap
    <2>3. QED
      BY <2>1, <2>2
  <1>5. /\ map \in Seq(Int) /\ Len(map) = n /\ IsFiniteSet(kept) /\ Cardinality(kept) = m
        /\ \A i \in kept : Rank(i, R) \in 0 .. m - 1
    BY <1>4 DEF IndexMap
  <1>6. /\ queue \in Seq(Entries) /\ Len(queue) = m
        /\ \A i \in kept : ItemAt(queue, Rank(i, R)) = ItemAt(s.queue, i)
    <2>1. /\ queue \in Seq(Entries) /\ Len(queue) = m
          /\ \A i \in kept : ItemAt(queue, ItemAt(map, i)) = ItemAt(s.queue, i)
      <3> HIDE DEF map, m
      <3>1. QED
        BY <1>1, <1>4, AppliedIndexMap
    <2>2. QED
      BY <1>4, <2>1
  <1> HIDE DEF t, queue, map, kept, m, n, c, size, current, len, position, playing, R
  <1>7. m = 0 => /\ t.queue = <<>> /\ t.queueIndexMap = map
                 /\ t.currentIndex = NoIndex /\ t.playNextQueueLen = 0
    <2> DEFINE none == <<>>
               idle == "idle"
               u == Located(RecordQueueChange(s, none, map), NoIndex, 0, AtStart, idle)
    <2>1. none \in Seq(Entries)
      BY EmptySeq
    <2>2. m = 0 => t = u
      BY <1>2 DEF RemovedAll
    <2> HIDE DEF none, idle
    <2>3. /\ u.queue = none /\ u.queueIndexMap = map
          /\ u.currentIndex = NoIndex /\ u.playNextQueueLen = 0
      BY <1>1, <1>5, <2>1, LocatedRecorded
    <2> HIDE DEF u
    <2>4. QED
      BY <2>2, <2>3 DEF none
  <1>8. m # 0 => /\ t.queue = queue /\ t.queueIndexMap = map
                 /\ t.currentIndex = current /\ t.playNextQueueLen = len
    BY <1>1, <1>3, <1>5, <1>6, LocatedRecorded
  <1>9. t.queueIndexMap = map /\ Len(t.queue) = m
    BY <1>6, <1>7, <1>8
  <1>10. \A i \in (0 .. n - 1) \ R : ItemAt(t.queue, Rank(i, R)) = ItemAt(s.queue, i)
    <2>1. m = 0 => kept = {}
      BY <1>5, FS_EmptySet
    <2>2. QED
      BY <1>4, <1>6, <1>8, <2>1
  <1>11. c # NoIndex /\ c \notin R => current = Rank(c, R) /\ current = ItemAt(map, c)
    BY <1>1, <1>4 DEF current, NoIndex
  <1>12. /\ c + 1 \in Nat /\ c + size + 1 \in Nat /\ c + 1 <= c + size + 1
         /\ c + size + 1 <= n
    BY <1>1
  <1> DEFINE low == Rank(c + 1, R)
             cut == Rank(c + size + 1, R)
             both == region \ R
  <1>13. /\ low \in Nat /\ cut \in Nat /\ IsFiniteSet(both)
         /\ Cardinality(both) = cut - low
    <2>1. low \in Nat /\ cut \in Nat
      BY <1>12, RankType
    <2>2. both = (c + 1 .. (c + size + 1) - 1) \ R
      BY <1>1
    <2>3. Cardinality(both) = cut - low
      <3> DEFINE a == c + 1
                 b == c + size + 1
      <3>1. a \in Nat /\ b \in Nat /\ a <= b
        BY <1>12
      <3> HIDE DEF a, b
      <3>2. Cardinality((a .. b - 1) \ R) = Rank(b, R) - Rank(a, R)
        BY <3>1, RankBetween
      <3>3. QED
        BY <2>2, <3>2 DEF a, b
    <2>4. both \in SUBSET kept
      BY <1>1, <1>4, <1>12
    <2>5. QED
      BY <1>5, <2>1, <2>3, <2>4, FS_Subset
  <1>14. both = {i \in kept : i \in PlayNextRegion(n, c, size)}
    <2>1. PlayNextRegion(n, c, size) = region
      BY <1>1, RegionIs
    <2>2. QED
      BY <1>1, <1>4, <1>12, <2>1
  \* What survives of the region fits between its new start and its new end.
  <1>15. /\ m # 0 => current \in -1 .. m - 1
         /\ current + 1 >= low
         /\ IsFiniteSet(surviving)
         /\ surviving = {} \/ current + Cardinality(surviving) < cut
    <2>1. \A r \in kept : Rank(r, R) \in 0 .. m - 1
      BY <1>5
    <2>2. CASE c \notin R
      <3>1. surviving = both
        BY <1>14, <2>2
      <3>2. current = low - 1 /\ (m # 0 => current \in -1 .. m - 1)
        <4>1. CASE c = NoIndex
          <5>1. low = 0
            <6>1. c + 1 = 0 /\ (0 .. 0 - 1) \ R = {}
              BY <4>1 DEF NoIndex
            <6>2. QED
              BY <6>1, FS_EmptySet DEF Rank
          <5>2. current = -1
            BY <4>1 DEF current, NoIndex
          <5>3. QED
            BY <1>4, <5>1, <5>2
        <4>2. CASE c # NoIndex
          <5>1. c \in kept /\ c \in Nat /\ current = Rank(c, R)
            BY <1>1, <1>4, <1>11, <2>2, <4>2 DEF NoIndex
          <5>2. low = Rank(c, R) + 1
            BY <2>2, <5>1, RankNext
          <5>3. QED
            BY <1>4, <2>1, <5>1, <5>2
        <4>3. QED
          BY <4>1, <4>2
      <3>3. current + Cardinality(surviving) = cut - 1
        BY <1>13, <3>1, <3>2
      <3>4. QED
        BY <1>13, <3>1, <3>2, <3>3
    <2>3. CASE c \in R /\ after = {}
      <3>1. surviving = {}
        BY <1>1, <1>14, <2>3
      <3>2. low <= m /\ c # NoIndex
        <4> DEFINE a == c + 1
        <4>1. a \in Nat /\ a <= n
          BY <1>1
        <4> HIDE DEF a
        <4>2. Rank(a, R) <= Rank(n, R)
          BY <1>1, <4>1, RankMonotone
        <4>3. QED
          BY <1>4, <2>3, <4>2 DEF R, Indices, NoIndex, a
      <3>3. current = m - 1
        <4>1. removingCurrent /\ ~hasReplacement
          BY <2>3
        <4> HIDE DEF removingCurrent, hasReplacement, replacement
        <4>2. QED
          BY <3>2, <4>1 DEF current
      <3>4. QED
        BY <1>4, <1>13, <3>1, <3>2, <3>3, FS_EmptySet
    <2>4. CASE c \in R /\ after # {}
      <3> DEFINE r == replacement
      <3>1. r \in after /\ \A j \in after : r <= j
        <4>1. after \in SUBSET Nat
          BY <1>1, <1>4
        <4>2. \E i \in after : \A j \in after : i <= j
          <5> HIDE DEF after
          <5>1. QED
            BY <2>4, <4>1, LeastExists
        <4>3. QED
          BY <4>2
      <3> HIDE DEF replacement
      <3>2. r \in kept /\ r \in 0 .. n - 1 /\ r \notin R /\ r > c
        BY <1>4, <3>1
      <3>3. c # NoIndex
        BY <2>4 DEF R, Indices, NoIndex
      <3>4. current = Rank(r, R)
        BY <1>4, <2>4, <3>2, <3>3 DEF current
      <3>5. Rank(r, R) = low
        <4>1. r \in Nat /\ c + 1 <= r
          BY <1>1, <3>2
        <4>2. (c + 1 .. r - 1) \ R = {}
          BY <1>1, <1>4, <3>1, <3>2
        <4> DEFINE a == c + 1
        <4>3. Cardinality((a .. r - 1) \ R) = Rank(r, R) - Rank(a, R)
          <5>1. a \in Nat /\ a <= r
            BY <1>12, <4>1
          <5> HIDE DEF a
          <5>2. QED
            BY <4>1, <5>1, RankBetween
        <4>4. Rank(r, R) \in Nat
          BY <4>1, RankType
        <4>5. QED
          BY <1>13, <4>2, <4>3, <4>4, FS_EmptySet
      <3>6. surviving = both \ {r}
        BY <1>14, <2>4
      <3>7. CASE r \in both
        <4>1. Cardinality(surviving) = cut - low - 1 /\ IsFiniteSet(surviving)
          <5> HIDE DEF both
          <5>1. QED
            BY <1>13, <3>6, <3>7, FS_RemoveElement
        <4>2. QED
          BY <1>13, <2>1, <3>2, <3>4, <3>5, <4>1
      <3>8. CASE r \notin both
        <4>1. both = {}
          <5>1. ASSUME NEW x \in both PROVE x \in after /\ r <= x
            BY <1>1, <1>14, <3>1, <5>1
          <5>2. ASSUME NEW x \in both PROVE r \in both
            BY <1>1, <3>2, <5>1, <5>2
          <5>3. QED
            BY <3>8, <5>2
        <4>2. surviving = {}
          BY <3>6, <4>1
        <4>3. QED
          BY <1>13, <2>1, <3>2, <3>4, <3>5, <4>2, FS_EmptySet
      <3>9. QED
        BY <3>7, <3>8
    <2>5. QED
      BY <2>2, <2>3, <2>4
  <1> HIDE DEF surviving
  <1>16. ASSUME NEW k \in PlayNextRegion(m, t.currentIndex, t.playNextQueueLen)
         PROVE  CoveredBefore(s, R, k)
    <2>1. m # 0
      <3>1. CASE m = 0
        <4>1. -1 \in -1 .. 0 - 1 /\ 0 \in Nat /\ 0 \in Int
          OBVIOUS
        <4>2. PlayNextRegion(0, -1, 0) \subseteq 0 .. 0 - 1
          BY <4>1, RegionIs
        <4>3. QED
          BY <1>7, <1>16, <3>1, <4>2 DEF NoIndex
      <3>2. QED
        BY <3>1
    <2>2. Cardinality(surviving) \in Nat
      BY <1>15, FS_CardinalityType
    <2>3. len \in Int /\ len <= Cardinality(surviving)
      <3>1. len \in 0 .. m - (current + 1)
        BY <1>4, <1>15, <2>1, <2>2, ClampedFits DEF len
      <3>2. current \in -1 .. m - 1 /\ Cardinality(surviving) \in Int
        BY <1>15, <2>1, <2>2
      <3>3. len <= IF Cardinality(surviving) <= 0 THEN 0 ELSE Cardinality(surviving)
        BY <1>4, <3>2, RegionIs DEF len
      <3>4. QED
        BY <2>2, <3>1, <3>3
    <2>4. k \in 0 .. m - 1 /\ k \in current + 1 .. current + len
      <3>1. /\ PlayNextRegion(m, current, len) \subseteq current + 1 .. current + len
            /\ PlayNextRegion(m, current, len) \subseteq 0 .. m - 1
        BY <1>4, <1>15, <2>1, <2>3, RegionIs
      <3>2. QED
        BY <1>8, <1>16, <2>1, <3>1
    <2>5. k < cut
      BY <1>13, <1>15, <2>1, <2>2, <2>3, <2>4, FS_EmptySet
    <2>6. k >= low /\ k \in Nat
      BY <1>13, <1>15, <2>1, <2>4
    <2>7. PICK i \in (0 .. n - 1) \ R : Rank(i, R) = k
      BY <1>1, <1>4, <2>4, RankOnto
    <2>8. i \in Nat
      BY <1>1
    <2>9. ~(i < c + 1)
      BY <1>12, <1>13, <2>6, <2>7, <2>8, RankGrows
    <2>10. ~(c + size + 1 <= i)
      <3> DEFINE b == c + size + 1
      <3>1. b \in Nat /\ Rank(b, R) \in Nat /\ k < Rank(b, R)
        BY <1>12, <1>13, <2>5
      <3> HIDE DEF b
      <3>2. ~(b <= i)
        BY <2>6, <2>7, <2>8, <3>1, RankMonotone
      <3>3. QED
        BY <3>2 DEF b
    <2>11. i \in region
      BY <1>1, <2>8, <2>9, <2>10
    <2>12. QED
      BY <2>7, <2>11 DEF CoveredBefore, c, size
  <1>17. QED
    BY <1>4, <1>8, <1>9, <1>10, <1>11, <1>16 DEF t, n, c, map, m, size, R

-----------------------------------------------------------------------------
(* The current entry.                                                      *)

LEMMA SetQueueMap ==
    ASSUME NEW s, WellFormed(s), NEW queue \in Seq(Entries), NEW index
    PROVE  SetQueue(s, queue, index).queueIndexMap = EmptyMap
  <1>1. s \in PlaybackState /\ EmptyMap \in Seq(Int)
    BY WellFormedFields DEF EmptyMap
  <1> DEFINE current == IF queue = <<>> THEN NoIndex ELSE IF index = NoIndex THEN 0 ELSE index
             t == Located(RecordQueueChange(s, queue, EmptyMap), current, 0, AtStart,
                          StoppedOrIdle(queue))
  <1>2. SetQueue(s, queue, index) = t
    BY DEF SetQueue
  <1> HIDE DEF current
  <1>3. t.queueIndexMap = EmptyMap
    BY <1>1, LocatedRecorded
  <1>4. QED
    BY <1>2, <1>3

LEMMA ReplacedMap ==
    ASSUME NEW s \in PlaybackState, NEW state \in PlaybackState, NEW queue
    PROVE  RecordQueueChange([state EXCEPT !.queueRevision = s.queueRevision],
                             queue, EmptyMap).queueIndexMap = EmptyMap
  BY DEF RecordQueueChange, PlaybackState

\* A command that moves the queue around its current entry moves the index.
LEMMA MoveKept ==
    ASSUME NEW s, WellFormed(s), NEW moving \in SUBSET Indices(s.queue),
           NEW insertBefore \in 0 .. Len(s.queue)
    PROVE  CurrentKept(s, MoveQueueIndices(s, moving, insertBefore))
  <1> DEFINE n == Len(s.queue)
             map == MovedIndexMap(n, moving, insertBefore)
             queue == ApplyIndexMap(s.queue, map)
             current == IF s.currentIndex = NoIndex THEN NoIndex
                        ELSE ItemAt(map, s.currentIndex)
             len == AdjustedPlayNextLen(n, s.currentIndex, s.playNextQueueLen, current)
             t == MoveQueueIndices(s, moving, insertBefore)
  <1>1. s \in PlaybackState /\ s.queue \in Seq(Entries) /\ n \in Nat
    BY WellFormedFields, StateFields
  <1>2. CASE \A i \in Indices(map) : ItemAt(map, i) = i
    <2>1. t = s
      BY <1>2 DEF MoveQueueIndices
    <2> HIDE DEF t
    <2>2. QED
      BY <2>1, UnmappedKept DEF t
  <1>3. CASE ~ \A i \in Indices(map) : ItemAt(map, i) = i
    <2>1. IndexMap(map, n, n)
      <3>1. moving \in SUBSET (0 .. n - 1)
        BY DEF Indices
      <3>2. QED
        BY <1>1, <3>1, MovedIsIndexMap
    <2>2. t = Located(RecordQueueChange(s, queue, map), current, len, s.position, s.playingState)
      BY <1>3 DEF MoveQueueIndices
    <2> HIDE DEF map, t
    <2>3. map \in Seq(Int) /\ queue \in Seq(Entries)
      BY <1>1, <2>1, AppliedIsTracked DEF IndexMap
    <2>4. s.currentIndex # NoIndex => current = ItemAt(map, s.currentIndex)
      OBVIOUS
    <2> HIDE DEF current, len, queue
    <2>5. t.queueIndexMap = map /\ t.currentIndex = current
      BY <1>1, <2>2, <2>3, LocatedRecorded
    <2>6. QED
      BY <2>4, <2>5 DEF CurrentKept, EditKeepsCurrent, t
  <1>4. QED
    BY <1>2, <1>3

LEMMA RemoveIndexKept ==
    ASSUME NEW s, WellFormed(s), NEW index \in Indices(s.queue)
    PROVE  CurrentKept(s, RemoveQueueIndex(s, index))
  <1> DEFINE t == RemoveQueueIndex(s, index)
             n == Len(s.queue)
             map == RemovedIndexMap(n, {index})
  <1>1. s.currentIndex \in -1 .. n - 1 /\ n \in Nat /\ index \in 0 .. n - 1
    BY WellFormedFields DEF Indices
  <1>2. CASE n = 1
    <2>1. t = RemovedAll(s, map)
      BY <1>2 DEF RemoveQueueIndex
    <2>2. t.queueIndexMap = map
      <3>1. s \in PlaybackState /\ map \in Seq(Int)
        <4>1. s \in PlaybackState
          BY WellFormedFields
        <4>2. IndexMap(map, n, Rank(n, {index}))
          BY <1>1, RemovedIsIndexMap
        <4>3. QED
          BY <4>1, <4>2 DEF IndexMap
      <3> HIDE DEF map, t
      <3>2. <<>> \in Seq(Entries)
        BY EmptySeq
      <3> DEFINE none == <<>>
                 idle == "idle"
                 u == Located(RecordQueueChange(s, none, map), NoIndex, 0, AtStart, idle)
      <3>3. t = u /\ none \in Seq(Entries)
        BY <2>1, <3>2 DEF RemovedAll
      <3> HIDE DEF none, idle
      <3>4. u.queueIndexMap = map
        BY <3>1, <3>3, LocatedRecorded
      <3>5. QED
        BY <3>3, <3>4
    <2>3. s.currentIndex # NoIndex => ItemAt(map, s.currentIndex) = Gone
      BY <1>1, <1>2 DEF RemovedIndexMap, ItemAt, NoIndex
    <2> HIDE DEF map, t
    <2>4. QED
      BY <2>2, <2>3 DEF CurrentKept, EditKeepsCurrent, t
  <1>3. CASE n # 1
    <2>1. /\ t.queueIndexMap = map
          /\ \A i \in 0 .. n - 1 :
                ItemAt(map, i) = IF i = index THEN Gone ELSE IF i < index THEN i ELSE i - 1
          /\ t.currentIndex = CurrentAfterRemoval(n, s.currentIndex, index)
      BY <1>3, RemovedIndexFields
    <2> HIDE DEF map, t, n
    <2>2. s.currentIndex # NoIndex /\ ItemAt(map, s.currentIndex) # Gone
             => t.currentIndex = ItemAt(map, s.currentIndex)
      BY <1>1, <2>1 DEF CurrentAfterRemoval, NoIndex
    <2>3. QED
      BY <2>1, <2>2 DEF CurrentKept, EditKeepsCurrent, t
  <1>4. QED
    BY <1>2, <1>3

LEMMA RemoveIndicesKept ==
    ASSUME NEW s, WellFormed(s), NEW removing \in SUBSET Indices(s.queue)
    PROVE  CurrentKept(s, RemoveQueueIndices(s, removing))
  <1> DEFINE t == RemoveQueueIndices(s, removing)
             n == Len(s.queue)
             c == s.currentIndex
             map == RemovedIndexMap(n, removing)
             m == Rank(n, removing)
  <1>1. /\ t.queueIndexMap = map
        /\ Len(t.queue) = m /\ m \in Nat
        /\ m # 0 /\ c # NoIndex /\ c \notin removing => t.currentIndex = ItemAt(map, c)
    BY RemovedIndicesFields
  <1>2. c # NoIndex /\ c \in removing => ItemAt(map, c) = Gone
    <2>1. c \in -1 .. n - 1
      BY WellFormedFields
    <2>2. QED
      BY <2>1 DEF RemovedIndexMap, ItemAt, NoIndex
  <1>3. Follows(s, t)
    BY RemoveIndicesFollows
  <1>4. m = 0 => t.queue = <<>>
    <2>1. t.queue \in Seq(Entries)
      BY <1>3, StateFields DEF Follows
    <2> HIDE DEF t, m
    <2>2. QED
      BY <1>1, <2>1, EmptySeq
  <1> HIDE DEF t, m, map
  <1>5. QED
    BY <1>1, <1>2, <1>3, <1>4, EmptiedKept DEF CurrentKept, EditKeepsCurrent, t

\* Entries inserted behind the current entry leave its index alone.
LEMMA InsertKept ==
    ASSUME NEW s, WellFormed(s), NEW items \in Seq(Entries)
    PROVE  /\ CurrentKept(s, InsertAfterCurrent(s, items))
           /\ CurrentKept(s, AppendToQueue(s, items))
  <1> DEFINE n == Len(s.queue)
             c == s.currentIndex
             at == c + 1 + s.playNextQueueLen
  <1>1. /\ c \in -1 .. n - 1 /\ n \in Nat
        /\ s.playNextQueueLen \in 0 .. n - (c + 1)
    BY WellFormedFields
  <1>2. CASE c = NoIndex
    BY <1>2 DEF CurrentKept, EditKeepsCurrent
  <1>3. CASE c # NoIndex
    <2>1. /\ InsertAfterCurrent(s, items).queueIndexMap = InsertedIndexMap(n, at, Len(items))
          /\ InsertAfterCurrent(s, items).currentIndex = c
      BY <1>3, InsertedFields
    <2>2. /\ AppendToQueue(s, items).queueIndexMap = InsertedIndexMap(n, n, 0)
          /\ AppendToQueue(s, items).currentIndex = c
      BY <1>3, AppendedFields
    <2>3. \A k \in c + 1 .. n : \A count : ItemAt(InsertedIndexMap(n, k, count), c) = c
      <3>1. c + 1 \in 1 .. n
        BY <1>1, <1>3 DEF NoIndex
      <3> HIDE DEF n, c
      <3>2. QED
        BY <1>1, <3>1 DEF InsertedIndexMap, ItemAt
    <2>4. at \in c + 1 .. n /\ n \in c + 1 .. n
      BY <1>1
    <2>5. /\ ItemAt(InsertedIndexMap(n, at, Len(items)), c) = c
          /\ ItemAt(InsertedIndexMap(n, n, 0), c) = c
      BY <2>3, <2>4
    <2>6. QED
      BY <2>1, <2>2, <2>5 DEF CurrentKept
  <1>4. QED
    BY <1>2, <1>3

\* The same of the reducer, whatever the command.
LEMMA ReducedKept ==
    ASSUME NEW s, WellFormed(s), NEW cmd \in Command, Accepts(s, cmd)
    PROVE  CurrentKept(s, Reduced(s, cmd))
  <1>0. ASSUME NEW t, Follows(s, t), ValidState(t), CurrentKept(s, t),
               Reduced(s, cmd) = Normalized(t)
        PROVE  CurrentKept(s, Reduced(s, cmd))
    BY <1>0, NormalizedKept
  <1>s. s \in PlaybackState
    BY WellFormedFields
  <1>1. CASE cmd.op = "setQueue"
    <2> DEFINE t == SetQueue(s, cmd.queue, cmd.index)
    <2>1. cmd.queue \in Seq(Entries) /\ cmd.index \in Int
      BY <1>1 DEF Command, NoIndex
    <2>2. cmd.queue # <<>> => cmd.index \in 0 .. Len(cmd.queue) - 1 \cup {NoIndex}
      BY <1>1 DEF Accepts
    <2>3. Reduced(s, cmd) = Normalized(t)
      BY <1>1 DEF Reduced
    <2>4. Follows(s, t) /\ ValidState(t) /\ t.queueIndexMap = EmptyMap
      BY <2>1, <2>2, SetQueueFollows, SetQueueMap
    <2> HIDE DEF t
    <2>5. QED
      BY <1>0, <2>3, <2>4, UnmappedKept
  <1>2. CASE cmd.op \in {"insertAfterCurrent", "appendToQueue"}
    <2>1. cmd.items \in Seq(Entries)
      BY <1>2 DEF Command
    <2>2. \/ Reduced(s, cmd) = Normalized(InsertAfterCurrent(s, cmd.items))
          \/ Reduced(s, cmd) = Normalized(AppendToQueue(s, cmd.items))
      BY <1>2 DEF Reduced
    <2>3. QED
      BY <1>0, <2>1, <2>2, InsertKept, InsertAfterCurrentFollows, AppendToQueueFollows
  <1>3. CASE cmd.op = "moveQueueIndices"
    <2>1. /\ cmd.indices \in SUBSET Indices(s.queue)
          /\ cmd.insertBefore \in 0 .. Len(s.queue)
      BY <1>3 DEF Accepts
    <2>2. Reduced(s, cmd) = Normalized(MoveQueueIndices(s, cmd.indices, cmd.insertBefore))
      BY <1>3 DEF Reduced
    <2>3. QED
      BY <1>0, <2>1, <2>2, MoveFollows, MoveKept
  <1>4. CASE cmd.op = "removeQueueIndex"
    <2>1. cmd.index \in Indices(s.queue)
      BY <1>4 DEF Accepts
    <2>2. Reduced(s, cmd) = Normalized(RemoveQueueIndex(s, cmd.index))
      BY <1>4 DEF Reduced
    <2>3. QED
      BY <1>0, <2>1, <2>2, RemoveIndexFollows, RemoveIndexKept
  <1>5. CASE cmd.op = "removeQueueIndices"
    <2>1. cmd.indices \in SUBSET Indices(s.queue)
      BY <1>5 DEF Accepts
    <2>2. Reduced(s, cmd) = Normalized(RemoveQueueIndices(s, cmd.indices))
      BY <1>5 DEF Reduced
    <2>3. QED
      BY <1>0, <2>1, <2>2, RemoveIndicesFollows, RemoveIndicesKept
  <1>6. CASE cmd.op = "clearQueue"
    <2>1. Reduced(s, cmd) = Normalized(ClearQueue(s))
      BY <1>6 DEF Reduced
    <2>2. ClearQueue(s).queueIndexMap = EmptyMap
      BY <1>s, EmptyPlaybackStateType, ReplacedMap DEF ClearQueue
    <2>3. QED
      BY <1>0, <2>1, <2>2, ClearQueueFollows, UnmappedKept
  <1>7. CASE cmd.op = "pushState"
    <2>1. cmd.state \in PlaybackState
      BY <1>7 DEF Command
    <2>2. ValidState(cmd.state)
      BY <1>7 DEF Accepts
    <2>3. Reduced(s, cmd) = Normalized(PushState(s, cmd.state))
      BY <1>7 DEF Reduced
    <2>4. PushState(s, cmd.state).queueIndexMap = EmptyMap
      BY <1>s, <2>1, ReplacedMap DEF PushState
    <2>5. QED
      BY <1>0, <2>1, <2>2, <2>3, <2>4, PushStateFollows, UnmappedKept
  <1>8. CASE cmd.op = "playQueueIndex"
    <2> DEFINE t == PlayQueueIndex(s, cmd.index)
    <2>1. cmd.index \in Indices(s.queue)
      BY <1>8 DEF Accepts
    <2>2. Reduced(s, cmd) = Normalized(t)
      BY <1>8 DEF Reduced
    <2>3. t.queueRevision = s.queueRevision
      BY <1>s DEF PlayQueueIndex, Located, PlaybackState
    <2>4. Follows(s, t) /\ ValidState(t)
      BY <2>1, PlayQueueIndexFollows
    <2> HIDE DEF t
    <2>5. QED
      BY <1>0, <2>2, <2>3, <2>4, UnmappedKept
  <1>9. cmd.op \in {"setQueue", "insertAfterCurrent", "appendToQueue", "moveQueueIndices",
                    "removeQueueIndex", "playQueueIndex", "removeQueueIndices",
                    "clearQueue", "pushState"}
    BY DEF Command
  <1>10. QED
    BY <1>1, <1>2, <1>3, <1>4, <1>5, <1>6, <1>7, <1>8, <1>9

-----------------------------------------------------------------------------
(* The handlers around the reducer.                                        *)

LEMMA AsOfNowFields ==
    ASSUME NEW sh, WellFormedShared(sh), NEW elapsed
    PROVE  LET now == AsOfNow(sh, elapsed).state
           IN  /\ now.queue = sh.state.queue
               /\ now.queueRevision = sh.state.queueRevision
               /\ now.currentIndex = sh.state.currentIndex
               /\ now.playNextQueueLen = sh.state.playNextQueueLen
  <1>1. sh \in SharedState /\ sh.state \in PlaybackState
    BY SharedFields DEF WellFormedShared
  <1> DEFINE later == [sh.state EXCEPT !.position = Later]
             moved == [sh EXCEPT !.state.position = Later]
  <1>2. /\ later.queue = sh.state.queue /\ later.queueRevision = sh.state.queueRevision
        /\ later.currentIndex = sh.state.currentIndex
        /\ later.playNextQueueLen = sh.state.playNextQueueLen
    BY <1>1 DEF PlaybackState
  <1>3. moved.state = later
    BY <1>1 DEF SharedState
  <1>4. AsOfNow(sh, elapsed) \in {sh, moved}
    BY DEF AsOfNow
  <1> HIDE DEF later, moved
  <1>5. QED
    BY <1>2, <1>3, <1>4

\* Releasing the active device keeps the queue and the place in it.
LEMMA FrozenFields ==
    ASSUME NEW current, WellFormedShared(current)
    PROVE  LET s == current.state
               t == AfterFreeze(current).state
           IN  /\ t.queue = s.queue
               /\ t.queueRevision = s.queueRevision
               /\ t.currentIndex = s.currentIndex
               /\ t.playNextQueueLen = s.playNextQueueLen
  <1> DEFINE s == current.state
             n == Len(s.queue)
             playing == StoppedOrIdle(s.queue)
             stopped == [s EXCEPT !.playingState = playing]
             t == Normalized(stopped)
  <1>1. current \in SharedState /\ WellFormed(s) /\ s \in PlaybackState /\ ValidState(s)
    BY SharedFields DEF WellFormedShared, WellFormed
  <1>2. AfterFreeze(current).state = t
    BY <1>1 DEF AfterFreeze, SharedState
  <1>3. playing \in PlayingStates
    BY StoppedOrIdleType
  <1> HIDE DEF playing
  <1>4. /\ stopped \in PlaybackState
        /\ stopped.queue = s.queue /\ stopped.queueRevision = s.queueRevision
        /\ stopped.currentIndex = s.currentIndex
        /\ stopped.playNextQueueLen = s.playNextQueueLen
    BY <1>1, <1>3 DEF PlaybackState
  <1> HIDE DEF stopped
  <1>5. ValidState(stopped)
    BY <1>1, <1>4 DEF ValidState
  <1>6. /\ t.queue = s.queue /\ t.queueRevision = s.queueRevision
        /\ s.queue = <<>> => t.currentIndex = NoIndex /\ t.playNextQueueLen = 0
        /\ s.queue # <<>> =>
              /\ t.currentIndex = s.currentIndex
              /\ t.playNextQueueLen = ClampedPlayNextLen(n, s.currentIndex, s.playNextQueueLen)
    BY <1>4, <1>5, NormalizedFields
  <1> HIDE DEF t
  <1>7. s.queue = <<>> => s.currentIndex = NoIndex /\ s.playNextQueueLen = 0
    BY <1>1, NormalizedFields DEF WellFormed
  <1>8. ClampedPlayNextLen(n, s.currentIndex, s.playNextQueueLen) = s.playNextQueueLen
    <2>1. /\ n \in Nat /\ s.currentIndex \in -1 .. n - 1
          /\ s.playNextQueueLen \in 0 .. n - (s.currentIndex + 1)
          /\ s.playNextQueueLen \in Int
      BY <1>1, WellFormedFields, StateFields
    <2> HIDE DEF n, s
    <2>2. QED
      BY <2>1, ClampedFits
  <1>9. QED
    BY <1>2, <1>6, <1>7, <1>8

\* A report jumps to the entry it names.
LEMMA ReportedFields ==
    ASSUME NEW current, WellFormedShared(current), NEW report \in Report, NEW d,
           ReportAccepted(current, report, d)
    PROVE  LET s == current.state
               t == MergeReport(s, report)
           IN  /\ AfterReport(current, report, d).state = Normalized(t)
               /\ Follows(s, t) /\ ValidState(t)
               /\ t.queue = s.queue /\ t.queueRevision = s.queueRevision
               /\ CompatibleReportIndex(s, report) \in Indices(s.queue)
  <1> DEFINE s == current.state
             t == MergeReport(s, report)
             matches == ReportMatches(s, report)
  <1>1. current \in SharedState /\ WellFormed(s)
    BY SharedFields DEF WellFormedShared
  <1>2. matches # {} /\ report.position \in {AtStart, Later} /\ report.playingState \in PlayingStates
    BY DEF ReportAccepted, Report
  <1>3. /\ Follows(s, t) /\ ValidState(t)
        /\ t.queue = s.queue /\ t.queueRevision = s.queueRevision
    BY <1>1, <1>2, MergeReportFollows
  <1>4. AfterReport(current, report, d).state = Normalized(t)
    BY <1>1 DEF AfterReport, SharedState
  <1>5. matches \in SUBSET Indices(s.queue) /\ matches \in SUBSET Nat
    BY DEF ReportMatches, Indices
  <1>6. \E i \in matches : \A j \in matches : i <= j
    <2> HIDE DEF matches
    <2>1. QED
      BY <1>2, <1>5, LeastExists
  <1>7. CompatibleReportIndex(s, report) \in Indices(s.queue)
    BY <1>2, <1>5, <1>6 DEF CompatibleReportIndex
  <1>8. QED
    BY <1>3, <1>4, <1>7

\* No step of the room leaves the current entry behind.
LEMMA NextKept ==
    ASSUME TypeOK, [Next]_vars
    PROVE  CurrentKept(shared.state, shared'.state)
  <1> DEFINE s == shared.state
             now(elapsed) == AsOfNow(shared, elapsed)
             t == shared'.state
  <1>1. WellFormedShared(shared) /\ WellFormed(s)
    BY DEF TypeOK, WellFormedShared
  <1>2. ASSUME NEW elapsed \in BOOLEAN
        PROVE  /\ WellFormedShared(now(elapsed)) /\ now(elapsed) \in SharedState
               /\ WellFormed(now(elapsed).state)
               /\ now(elapsed).state.queueRevision = s.queueRevision
               /\ \A u : CurrentKept(now(elapsed).state, u) => CurrentKept(s, u)
    <2>1. WellFormedShared(now(elapsed))
      BY <1>1, AsOfNowSound
    <2>2. /\ now(elapsed).state.queue = s.queue
          /\ now(elapsed).state.queueRevision = s.queueRevision
          /\ now(elapsed).state.currentIndex = s.currentIndex
      BY <1>1, AsOfNowFields
    <2> HIDE DEF now
    <2>3. QED
      BY <2>1, <2>2 DEF WellFormedShared, CurrentKept, EditKeepsCurrent
  <1>3. t.queueRevision = s.queueRevision => CurrentKept(s, t)
    BY <1>1, UnmappedKept
  <1>4. CASE UNCHANGED vars
    BY <1>3, <1>4 DEF vars
  <1>5. ASSUME NEW d \in Devices, NEW elapsed \in BOOLEAN, NEW cmd \in Commands,
               QueueCommand(d, cmd, elapsed)
        PROVE  CurrentKept(s, t)
    <2>1. cmd \in Command
      BY CommandsAssumption
    <2>2. /\ Accepts(now(elapsed).state, cmd)
          /\ shared' = AfterCommand(now(elapsed), cmd, d)
      BY <1>5 DEF QueueCommand
    <2> HIDE DEF now
    <2>3. CASE IsNoop(cmd)
      BY <1>2, <1>3, <2>2, <2>3 DEF AfterCommand
    <2>4. CASE ~IsNoop(cmd)
      <3>1. t = Reduced(now(elapsed).state, cmd)
        BY <2>2, <2>4 DEF AfterCommand
      <3>2. CurrentKept(now(elapsed).state, Reduced(now(elapsed).state, cmd))
        BY <1>2, <2>1, <2>2, ReducedKept
      <3> HIDE DEF t
      <3>3. QED
        BY <1>2, <3>1, <3>2
    <2>5. QED
      BY <2>3, <2>4
  <1>6. ASSUME NEW d \in Devices, NEW elapsed \in BOOLEAN, NEW target \in Devices,
               ControlCommand(d, elapsed) \/ TransferPlayback(d, target, elapsed)
        PROVE  t.queueRevision = s.queueRevision
    <2>1. \/ shared' = AfterControl(now(elapsed), d)
          \/ shared' = AfterTransfer(now(elapsed), target)
      BY <1>6 DEF ControlCommand, TransferPlayback
    <2>2. now(elapsed) \in SharedState
      BY <1>2
    <2> HIDE DEF now
    <2>3. t = now(elapsed).state
      BY <2>1, <2>2 DEF AfterControl, AfterTransfer, SharedState
    <2>4. QED
      BY <1>2, <2>3
  <1>7. ASSUME NEW d \in Devices, NEW elapsed \in BOOLEAN, NEW report \in Reports,
               PlaybackReport(d, report, elapsed)
        PROVE  t.queueRevision = s.queueRevision
    <2>1. report \in Report
      BY ReportsAssumption
    <2>2. /\ ReportAccepted(now(elapsed), report, d)
          /\ shared' = AfterReport(now(elapsed), report, d)
      BY <1>7 DEF PlaybackReport
    <2> DEFINE merged == MergeReport(now(elapsed).state, report)
    <2> HIDE DEF now
    <2>3. /\ t = Normalized(merged) /\ ValidState(merged)
          /\ merged \in PlaybackState
          /\ merged.queueRevision = now(elapsed).state.queueRevision
      BY <1>2, <2>1, <2>2, ReportedFields DEF Follows
    <2> HIDE DEF merged
    <2>4. QED
      BY <1>2, <2>3, NormalizedFields
  <1>8. ASSUME NEW d \in Devices, NEW elapsed \in BOOLEAN,
               Register(d) \/ Unregister(d, elapsed)
        PROVE  t.queueRevision = s.queueRevision
    <2>1. shared' = shared \/ shared' = AfterFreeze(now(elapsed))
      BY <1>8 DEF Register, Unregister
    <2> HIDE DEF now
    <2>2. AfterFreeze(now(elapsed)).state.queueRevision = s.queueRevision
      BY <1>2, FrozenFields
    <2>3. QED
      BY <2>1, <2>2
  <1>9. QED
    BY <1>3, <1>4, <1>5, <1>6, <1>7, <1>8 DEF Next

\* Whatever is inserted, appended, moved or removed around it, the entry that
\* is current stays current while it is in the queue.
THEOREM CurrentEntryKept == Spec => QueueEditsKeepCurrentEntry
  <1>1. TypeOK /\ [Next]_vars =>
            [EditKeepsCurrent(shared.state, shared'.state)
               => shared'.state.currentIndex
                    = ItemAt(shared'.state.queueIndexMap, shared.state.currentIndex)]_vars
    BY NextKept DEF CurrentKept
  <1>2. QED
    BY TypeCorrect, <1>1, PTL DEF Spec, QueueEditsKeepCurrentEntry

-----------------------------------------------------------------------------
(* The play-next region.                                                   *)

\* A region is within its queue.
LEMMA RegionInQueue ==
    ASSUME NEW s, WellFormed(s)
    PROVE  /\ PlayNextRegion(Len(s.queue), s.currentIndex, s.playNextQueueLen)
                 = s.currentIndex + 1 .. s.currentIndex + s.playNextQueueLen
           /\ RegionEntries(s) \subseteq Range(s.queue)
  <1> DEFINE n == Len(s.queue)
             region == PlayNextRegion(n, s.currentIndex, s.playNextQueueLen)
  <1>1. /\ s \in PlaybackState /\ s.queue \in Seq(Entries) /\ n \in Nat
        /\ s.currentIndex \in -1 .. n - 1
        /\ s.playNextQueueLen \in 0 .. n - (s.currentIndex + 1)
        /\ s.playNextQueueLen \in Int
    BY WellFormedFields, StateFields
  <1>2. DOMAIN s.queue = 1 .. n
    BY <1>1
  <1> HIDE DEF n
  <1>3. region \subseteq 0 .. n - 1
    BY <1>1, RegionIs
  <1>4. ASSUME NEW i \in region PROVE ItemAt(s.queue, i) \in Range(s.queue)
    <2>1. i + 1 \in DOMAIN s.queue
      BY <1>1, <1>2, <1>3
    <2>2. QED
      BY <2>1 DEF ItemAt, Range
  <1>5. region = s.currentIndex + 1 .. s.currentIndex + s.playNextQueueLen
    BY <1>1, RegionIs
  <1>6. QED
    BY <1>4, <1>5 DEF RegionEntries, n

\* There is no region in an empty queue.
LEMMA EmptyRegion ==
    ASSUME NEW t \in PlaybackState, ValidState(t), t.queue = <<>>
    PROVE  RegionEntries(Normalized(t)) = {}
  <1> DEFINE u == Normalized(t)
  <1>1. u.queue = <<>> /\ u.currentIndex = NoIndex /\ u.playNextQueueLen = 0
    BY NormalizedFields
  <1> HIDE DEF u
  <1>2. Len(u.queue) = 0 /\ u.currentIndex = -1 /\ u.playNextQueueLen = 0
    BY <1>1, EmptySeq DEF NoIndex
  <1>3. -1 \in -1 .. 0 - 1 /\ 0 \in Nat /\ 0 \in Int
    OBVIOUS
  <1>4. PlayNextRegion(0, -1, 0) \subseteq 0 .. 0 - 1
    BY <1>3, RegionIs
  <1>5. QED
    BY <1>2, <1>4 DEF RegionEntries, u

\* Normalising covers nothing that was not covered.
LEMMA RegionNormalized ==
    ASSUME NEW t \in PlaybackState, ValidState(t)
    PROVE  RegionEntries(Normalized(t)) \subseteq RegionEntries(t)
  <1> DEFINE u == Normalized(t)
             n == Len(t.queue)
  <1>1. /\ u.queue = t.queue
        /\ t.queue # <<>> =>
              /\ u.currentIndex = t.currentIndex
              /\ u.playNextQueueLen
                    = ClampedPlayNextLen(n, t.currentIndex, t.playNextQueueLen)
    BY NormalizedFields
  <1> HIDE DEF u
  <1>2. CASE t.queue = <<>>
    BY <1>2, EmptyRegion
  <1>3. CASE t.queue # <<>>
    <2> DEFINE c == t.currentIndex
               len == ClampedPlayNextLen(n, c, t.playNextQueueLen)
    <2>1. n \in Nat /\ c \in -1 .. n - 1 /\ t.playNextQueueLen \in Int
      BY <1>3, StateFields DEF ValidState, Indices, NoIndex
    <2> HIDE DEF n, c
    <2>2. len \in 0 .. n - (c + 1)
      BY <2>1, ClampedFits
    <2>3. ClampedPlayNextLen(n, c, len) = len
      <3> HIDE DEF len
      <3>1. len \in Int
        BY <2>1, <2>2
      <3>2. QED
        BY <2>1, <2>2, <3>1, ClampedFits
    <2>4. PlayNextRegion(n, c, len) = PlayNextRegion(n, c, t.playNextQueueLen)
      BY <2>3 DEF PlayNextRegion, PlayNextEnd
    <2>5. QED
      BY <1>1, <1>3, <2>4 DEF RegionEntries, u, n, c
  <1>4. QED
    BY <1>2, <1>3

\* A jump consumes the region up to the entry it goes to, or drops it.
LEMMA RegionAdjusted ==
    ASSUME NEW n \in Nat, NEW previous \in -1 .. n - 1, NEW next \in -1 .. n - 1,
           NEW len \in Int
    PROVE  PlayNextRegion(n, next, AdjustedPlayNextLen(n, previous, len, next))
              \subseteq PlayNextRegion(n, previous, len)
  <1> DEFINE adjusted == AdjustedPlayNextLen(n, previous, len, next)
             clamped == ClampedPlayNextLen(n, previous, len)
  <1> SUFFICES PlayNextRegion(n, next, adjusted) \subseteq PlayNextRegion(n, previous, len)
    OBVIOUS
  <1>1. /\ PlayNextStart(n, previous) = previous + 1
        /\ clamped \in 0 .. n - (previous + 1)
    BY ClampedFits
  <1>2. PlayNextRegion(n, previous, len) = previous + 1 .. previous + clamped
    BY <1>1 DEF PlayNextRegion, PlayNextEnd
  <1>3. adjusted \in Int
    BY AdjustedFits
  <1>4. PlayNextRegion(n, next, adjusted) \subseteq next + 1 .. next + adjusted
    <2> HIDE DEF adjusted
    <2>1. QED
      BY <1>3, RegionIs
  <1>5. CASE len <= 0
    <2>1. adjusted = 0
      BY <1>5 DEF AdjustedPlayNextLen
    <2> HIDE DEF adjusted
    <2>2. QED
      BY <1>4, <2>1
  <1>6. CASE len > 0 /\ previous = next
    <2>1. adjusted = clamped
      BY <1>6 DEF AdjustedPlayNextLen
    <2> HIDE DEF adjusted, clamped
    <2>2. QED
      BY <1>2, <1>4, <1>6, <2>1
  <1>7. CASE len > 0 /\ previous # next /\ next \notin PlayNextRegion(n, previous, len)
    <2>1. adjusted = 0
      BY <1>7 DEF AdjustedPlayNextLen
    <2> HIDE DEF adjusted
    <2>2. QED
      BY <1>4, <2>1
  <1>8. CASE len > 0 /\ previous # next /\ next \in PlayNextRegion(n, previous, len)
    <2>1. adjusted = previous + 1 + clamped - next - 1
      BY <1>1, <1>8 DEF AdjustedPlayNextLen, PlayNextEnd
    <2> HIDE DEF adjusted, clamped
    <2>2. next \in previous + 1 .. previous + clamped
      BY <1>2, <1>8
    <2>3. next + adjusted = previous + clamped
      BY <1>1, <2>1
    <2>4. QED
      BY <1>1, <1>2, <1>4, <2>2, <2>3
  <1>9. QED
    BY <1>5, <1>6, <1>7, <1>8

\* Jumping to an entry covers nothing that was not covered.
LEMMA JumpRegion ==
    ASSUME NEW s, WellFormed(s), NEW index \in Indices(s.queue), NEW position, NEW playing
    PROVE  LET len == AdjustedPlayNextLen(Len(s.queue), s.currentIndex,
                                          s.playNextQueueLen, index)
           IN  RegionEntries(Located(s, index, len, position, playing)) \subseteq RegionEntries(s)
  <1> DEFINE n == Len(s.queue)
             len == AdjustedPlayNextLen(n, s.currentIndex, s.playNextQueueLen, index)
             t == Located(s, index, len, position, playing)
  <1>1. /\ s \in PlaybackState /\ n \in Nat /\ s.currentIndex \in -1 .. n - 1
        /\ s.playNextQueueLen \in Int /\ index \in -1 .. n - 1
    BY WellFormedFields, StateFields DEF Indices
  <1>2. t.queue = s.queue /\ t.currentIndex = index /\ t.playNextQueueLen = len
    BY <1>1 DEF Located, PlaybackState
  <1> HIDE DEF t
  <1>3. PlayNextRegion(n, index, len) \subseteq PlayNextRegion(n, s.currentIndex, s.playNextQueueLen)
    <2> HIDE DEF n
    <2>1. QED
      BY <1>1, RegionAdjusted
  <1>4. QED
    BY <1>2, <1>3 DEF RegionEntries, t

\* A region of no length covers nothing.
LEMMA ZeroRegion ==
    ASSUME NEW t \in PlaybackState, t.playNextQueueLen = 0
    PROVE  RegionEntries(t) = {}
  <1>1. Len(t.queue) \in Nat /\ t.currentIndex \in Int
    BY StateFields
  <1>2. PlayNextStart(Len(t.queue), t.currentIndex) \in Int
    BY <1>1 DEF PlayNextStart
  <1>3. PlayNextRegion(Len(t.queue), t.currentIndex, 0) = {}
    BY <1>2 DEF PlayNextRegion, PlayNextEnd, ClampedPlayNextLen
  <1>4. QED
    BY <1>3 DEF RegionEntries

\* appendToQueue leaves the region where it is.
LEMMA AppendRegion ==
    ASSUME NEW s, WellFormed(s), NEW items \in Seq(Entries)
    PROVE  RegionEntries(AppendToQueue(s, items)) \subseteq RegionEntries(s)
  <1> DEFINE t == AppendToQueue(s, items)
             n == Len(s.queue)
             m == Len(t.queue)
             c == s.currentIndex
             size == s.playNextQueueLen
  <1>1. /\ t.queue = s.queue \o items
        /\ c # NoIndex => t.currentIndex = c /\ t.playNextQueueLen = size
        /\ c = NoIndex => t.playNextQueueLen = 0
    BY AppendedFields
  <1>2. t \in PlaybackState
    BY AppendToQueueFollows DEF Follows
  <1> HIDE DEF t
  <1>3. /\ s.queue \in Seq(Entries) /\ n \in Nat /\ Len(items) \in Nat
        /\ c \in -1 .. n - 1 /\ size \in 0 .. n - (c + 1) /\ size \in Int
    BY WellFormedFields, StateFields, LenProperties
  <1>4. /\ m = n + Len(items)
        /\ \A x \in 1 .. n : t.queue[x] = s.queue[x]
    BY <1>1, <1>3, ConcatProperties
  <1> HIDE DEF n, m, c, size
  <1>5. CASE c # NoIndex
    <2>1. PlayNextRegion(n, c, size) = c + 1 .. c + size
      BY <1>3, RegionIs
    <2>2. PlayNextRegion(m, c, size) = c + 1 .. c + size
      <3>1. m \in Nat /\ c \in -1 .. m - 1 /\ size \in 0 .. m - (c + 1)
        BY <1>3, <1>4
      <3>2. QED
        BY <1>3, <3>1, RegionIs
    <2>3. \A i \in c + 1 .. c + size : ItemAt(t.queue, i) = ItemAt(s.queue, i)
      BY <1>3, <1>4 DEF ItemAt
    <2>4. QED
      BY <1>1, <1>5, <2>1, <2>2, <2>3 DEF RegionEntries, n, m, c, size, t
  <1>6. CASE c = NoIndex
    BY <1>1, <1>2, <1>6, ZeroRegion DEF t
  <1>7. QED
    BY <1>5, <1>6

\* insertAfterCurrent covers the items, behind what it covered.
LEMMA InsertRegion ==
    ASSUME NEW s, WellFormed(s), s.currentIndex # NoIndex, NEW items \in Seq(Entries)
    PROVE  RegionEntries(InsertAfterCurrent(s, items))
              \subseteq RegionEntries(s) \cup Range(items)
  <1> DEFINE t == InsertAfterCurrent(s, items)
             n == Len(s.queue)
             m == Len(t.queue)
             c == s.currentIndex
             size == s.playNextQueueLen
             count == Len(items)
             at == c + 1 + size
  <1>1. /\ at \in 0 .. n
        /\ t.queue = SubSeq(s.queue, 1, at) \o items \o SubSeq(s.queue, at + 1, n)
        /\ t.currentIndex = c /\ t.playNextQueueLen = size + count
    BY InsertedFields
  <1>2. /\ s.queue \in Seq(Entries) /\ n \in Nat /\ count \in Nat
        /\ c \in -1 .. n - 1 /\ size \in 0 .. n - (c + 1)
    BY WellFormedFields, StateFields, LenProperties
  <1>3. /\ m = n + count
        /\ \A x \in 1 .. at : t.queue[x] = s.queue[x]
        /\ \A x \in at + 1 .. at + count : t.queue[x] = items[x - at]
    <2> DEFINE new == SubSeq(s.queue, 1, at) \o items \o SubSeq(s.queue, at + 1, n)
    <2>1. t.queue = new
      BY <1>1
    <2>2. at \in 0 .. n
      BY <1>1
    <2> HIDE DEF t, at
    <2>3. /\ Len(new) = n + Len(items)
          /\ \A x \in 1 .. at : new[x] = s.queue[x]
          /\ \A x \in at + 1 .. at + Len(items) : new[x] = items[x - at]
      BY <1>2, <2>2, InsertedIsTracked
    <2> HIDE DEF new
    <2>4. QED
      BY <2>1, <2>3
  <1>4. PlayNextRegion(n, c, size) = c + 1 .. c + size
    <2> HIDE DEF n, c, size
    <2>1. size \in Int
      BY <1>2
    <2>2. QED
      BY <1>2, <2>1, RegionIs
  <1> HIDE DEF t, n, m, c, size, count
  <1>5. PlayNextRegion(m, c, size + count) = c + 1 .. c + (size + count)
    <2> DEFINE len == size + count
    <2>1. /\ m \in Nat /\ c \in -1 .. m - 1 /\ len \in Int
          /\ len \in 0 .. m - (c + 1)
      BY <1>2, <1>3
    <2> HIDE DEF len
    <2>2. PlayNextRegion(m, c, len) = c + 1 .. c + len
      BY <2>1, RegionIs
    <2>3. QED
      BY <2>2 DEF len
  <1>6. ASSUME NEW i \in c + 1 .. c + (size + count)
        PROVE  ItemAt(t.queue, i) \in RegionEntries(s) \cup Range(items)
    <2>1. CASE i < at
      <3>1. i + 1 \in 1 .. at /\ i \in c + 1 .. c + size
        BY <1>2, <2>1
      <3>2. ItemAt(t.queue, i) = ItemAt(s.queue, i)
        BY <1>3, <3>1 DEF ItemAt
      <3>3. QED
        BY <1>4, <3>1, <3>2 DEF RegionEntries, n, c, size
    <2>2. CASE i >= at
      <3> DEFINE x == i + 1
      <3>1. x \in at + 1 .. at + count /\ x - at \in 1 .. count
        BY <1>2, <2>2
      <3>2. DOMAIN items = 1 .. count
        BY DEF count
      <3> HIDE DEF x, at
      <3>3. t.queue[x] \in Range(items)
        BY <1>3, <3>1, <3>2 DEF Range
      <3>4. QED
        BY <3>3 DEF ItemAt, x
    <2>3. QED
      BY <1>2, <2>1, <2>2
  <1>7. RegionEntries(t) = {ItemAt(t.queue, i) : i \in PlayNextRegion(m, c, size + count)}
    BY <1>1 DEF RegionEntries, m
  <1>8. RegionEntries(t) \subseteq RegionEntries(s) \cup Range(items)
    BY <1>5, <1>6, <1>7
  <1>9. QED
    BY <1>8 DEF t

\* Removing an entry of the region, or the current one, shortens the region by
\* one; what follows moves up.
LEMMA RemoveIndexRegion ==
    ASSUME NEW s, WellFormed(s), NEW index \in Indices(s.queue)
    PROVE  RegionEntries(Normalized(RemoveQueueIndex(s, index))) \subseteq RegionEntries(s)
  <1> DEFINE t == RemoveQueueIndex(s, index)
             n == Len(s.queue)
             c == s.currentIndex
             size == s.playNextQueueLen
             len == IF ConsumesPlayNext(s, index) THEN size - 1 ELSE size
             current == CurrentAfterRemoval(n, c, index)
             clamped == ClampedPlayNextLen(n - 1, current, len)
  <1> SUFFICES RegionEntries(Normalized(t)) \subseteq RegionEntries(s)
    OBVIOUS
  <1>1. /\ n \in Nat /\ c \in -1 .. n - 1 /\ size \in 0 .. n - (c + 1) /\ size \in Int
        /\ index \in 0 .. n - 1
    BY WellFormedFields DEF Indices
  <1>2. Follows(s, t) /\ ValidState(t)
    BY RemoveIndexFollows
  <1>3. t \in PlaybackState
    BY <1>2 DEF Follows
  <1>4. CASE n = 1
    <2>1. t = RemovedAll(s, RemovedIndexMap(n, {index}))
      BY <1>4 DEF RemoveQueueIndex
    <2>2. t.queue = <<>>
      <3>1. s \in PlaybackState
        BY WellFormedFields
      <3> HIDE DEF t
      <3>2. QED
        BY <2>1, <3>1 DEF RemovedAll, Located, RecordQueueChange, PlaybackState
    <2> HIDE DEF t
    <2>3. QED
      BY <1>2, <1>3, <2>2, EmptyRegion
  <1>5. CASE n # 1
    <2>1. /\ n >= 2
          /\ Len(t.queue) = n - 1
          /\ \A k \in 0 .. n - 2 :
                ItemAt(t.queue, k) = ItemAt(s.queue, IF k < index THEN k ELSE k + 1)
          /\ t.currentIndex = current
          /\ t.playNextQueueLen = clamped
      BY <1>5, RemovedIndexFields
    <2>2. PlayNextRegion(n, c, size) = c + 1 .. c + size
      <3> HIDE DEF n, c, size
      <3>1. QED
        BY <1>1, RegionIs
    <2>3. ConsumesPlayNext(s, index) <=> size > 0 /\ (c = index \/ index \in c + 1 .. c + size)
      BY <2>2 DEF ConsumesPlayNext
    <2>4. current \in -1 .. (n - 1) - 1 /\ len \in Int /\ len >= 0
      <3> HIDE DEF n, c, size
      <3>1. QED
        BY <1>1, <2>1, <2>3 DEF CurrentAfterRemoval
    <2> HIDE DEF t
    <2>5. /\ PlayNextRegion(n - 1, current, clamped) \subseteq 0 .. n - 2
          /\ PlayNextRegion(n - 1, current, clamped) \subseteq current + 1 .. current + len
      <3> DEFINE m == n - 1
      <3>1. m \in Nat /\ current \in -1 .. m - 1 /\ len \in Int /\ m - 1 = n - 2
        BY <1>1, <2>1, <2>4
      <3> HIDE DEF m, current, len
      <3>2. /\ ClampedPlayNextLen(m, current, len) \in 0 .. m - (current + 1)
            /\ ClampedPlayNextLen(m, current, len) <= IF len <= 0 THEN 0 ELSE len
        BY <3>1, ClampedFits, RegionIs
      <3> DEFINE fits == ClampedPlayNextLen(m, current, len)
      <3>3. fits \in Int /\ fits <= len
        BY <2>4, <3>1, <3>2
      <3> HIDE DEF fits
      <3>4. /\ PlayNextRegion(m, current, fits) \subseteq 0 .. m - 1
            /\ PlayNextRegion(m, current, fits) \subseteq current + 1 .. current + fits
        BY <3>1, <3>3, RegionIs
      <3>5. PlayNextRegion(m, current, fits) \subseteq current + 1 .. current + len
        BY <3>1, <3>3, <3>4
      <3>6. clamped = fits
        BY DEF fits, m, len
      <3> HIDE DEF clamped
      <3>7. QED
        BY <3>1, <3>4, <3>5, <3>6 DEF m
    <2>6. ASSUME NEW k \in 0 .. n - 2, k \in current + 1 .. current + len
          PROVE  (IF k < index THEN k ELSE k + 1) \in c + 1 .. c + size
      <3> HIDE DEF n, c, size
      <3>1. CASE c > index
        <4>1. current = c - 1 /\ len = size
          BY <1>1, <2>3, <3>1 DEF CurrentAfterRemoval
        <4>2. QED
          BY <1>1, <2>6, <3>1, <4>1
      <3>2. CASE c = index
        <4>1. len = IF size > 0 THEN size - 1 ELSE size
          BY <1>1, <2>3, <3>2
        <4>2. current = IF index >= n - 1 THEN n - 2 ELSE c
          BY <1>1, <3>2 DEF CurrentAfterRemoval
        <4> HIDE DEF current, len
        <4>3. QED
          BY <1>1, <2>6, <3>2, <4>1, <4>2
      <3>3. CASE c < index
        <4>1. current = c
          BY <1>1, <3>3 DEF CurrentAfterRemoval
        <4>2. CASE index \in c + 1 .. c + size
          <5>1. len = size - 1
            BY <1>1, <2>3, <3>3, <4>2
          <5> HIDE DEF current, len
          <5>2. QED
            BY <1>1, <2>6, <3>3, <4>1, <4>2, <5>1
        <4>3. CASE index \notin c + 1 .. c + size
          <5>1. len = size
            BY <1>1, <2>3, <3>3, <4>3
          <5> HIDE DEF current, len
          <5>2. QED
            BY <1>1, <2>6, <3>3, <4>1, <4>3, <5>1
        <4>4. QED
          BY <4>2, <4>3
      <3>4. QED
        BY <1>1, <3>1, <3>2, <3>3
    <2>7. RegionEntries(t) \subseteq RegionEntries(s)
      <3> HIDE DEF current, clamped, len
      <3>1. RegionEntries(t) = {ItemAt(t.queue, k) : k \in PlayNextRegion(n - 1, current, clamped)}
        BY <2>1 DEF RegionEntries
      <3>2. RegionEntries(s) = {ItemAt(s.queue, k) : k \in c + 1 .. c + size}
        BY <2>2 DEF RegionEntries
      <3> HIDE DEF n, c, size
      <3>3. QED
        BY <2>1, <2>5, <2>6, <3>1, <3>2
    <2>8. QED
      BY <1>2, <1>3, <2>7, RegionNormalized
  <1>6. QED
    BY <1>4, <1>5

LEMMA RemoveIndicesRegion ==
    ASSUME NEW s, WellFormed(s), NEW removing \in SUBSET Indices(s.queue)
    PROVE  RegionEntries(RemoveQueueIndices(s, removing)) \subseteq RegionEntries(s)
  <1> DEFINE t == RemoveQueueIndices(s, removing)
             n == Len(s.queue)
             c == s.currentIndex
             size == s.playNextQueueLen
  <1>1. /\ Len(t.queue) = Rank(n, removing)
        /\ \A i \in (0 .. n - 1) \ removing :
              ItemAt(t.queue, Rank(i, removing)) = ItemAt(s.queue, i)
    BY RemovedIndicesFields
  <1>1a. \A k \in PlayNextRegion(Rank(n, removing), t.currentIndex, t.playNextQueueLen) :
            CoveredBefore(s, removing, k)
    BY RemovedIndicesFields
  <1>2. n \in Nat /\ c \in -1 .. n - 1 /\ size \in 0 .. n - (c + 1)
    BY WellFormedFields
  <1>3. PlayNextRegion(n, c, size) = c + 1 .. c + size
    BY RegionInQueue
  <1>4. (c + 1 .. c + size) \subseteq 0 .. n - 1
    BY <1>2
  <1>5. RegionEntries(s) = {ItemAt(s.queue, k) : k \in c + 1 .. c + size}
    BY <1>3 DEF RegionEntries
  <1> HIDE DEF t, n, c, size
  <1>6. ASSUME NEW k \in PlayNextRegion(Rank(n, removing), t.currentIndex, t.playNextQueueLen)
        PROVE  ItemAt(t.queue, k) \in RegionEntries(s)
    <2>1. PICK i \in (c + 1 .. c + size) \ removing : Rank(i, removing) = k
      BY <1>1a DEF CoveredBefore, c, size
    <2>2. ItemAt(t.queue, k) = ItemAt(s.queue, i)
      BY <1>1, <1>4, <2>1
    <2>3. QED
      BY <1>5, <2>1, <2>2
  <1>7. RegionEntries(t) \subseteq RegionEntries(s)
    BY <1>1, <1>6 DEF RegionEntries
  <1>8. QED
    BY <1>7 DEF t

\* Only insertAfterCurrent, moves and pushState put anything into the region.
LEMMA ReducedRegion ==
    ASSUME NEW s, WellFormed(s), NEW cmd \in Command, Accepts(s, cmd)
    PROVE  LET r == Reduced(s, cmd)
           IN  /\ cmd.op = "setQueue" => RegionEntries(r) = {}
               /\ cmd.op = "insertAfterCurrent" /\ s.currentIndex # NoIndex
                     => RegionEntries(r) \subseteq RegionEntries(s) \cup Range(cmd.items)
               /\ cmd.op \in {"appendToQueue", "removeQueueIndex", "removeQueueIndices",
                              "clearQueue", "playQueueIndex"}
                     => RegionEntries(r) \subseteq RegionEntries(s)
  <1> DEFINE r == Reduced(s, cmd)
  <1> SUFFICES /\ cmd.op = "setQueue" => RegionEntries(r) = {}
               /\ cmd.op = "insertAfterCurrent" /\ s.currentIndex # NoIndex
                     => RegionEntries(r) \subseteq RegionEntries(s) \cup Range(cmd.items)
               /\ cmd.op \in {"appendToQueue", "removeQueueIndex", "removeQueueIndices",
                              "clearQueue", "playQueueIndex"}
                     => RegionEntries(r) \subseteq RegionEntries(s)
    OBVIOUS
  <1>s. s \in PlaybackState
    BY WellFormedFields
  <1>1. ASSUME cmd.op = "setQueue" PROVE RegionEntries(r) = {}
    <2> DEFINE t == SetQueue(s, cmd.queue, cmd.index)
    <2>1. cmd.queue \in Seq(Entries) /\ cmd.index \in Int
      BY <1>1 DEF Command, NoIndex
    <2>2. cmd.queue # <<>> => cmd.index \in 0 .. Len(cmd.queue) - 1 \cup {NoIndex}
      BY <1>1 DEF Accepts
    <2>3. r = Normalized(t)
      BY <1>1 DEF Reduced
    <2>4. t \in PlaybackState /\ ValidState(t)
      BY <2>1, <2>2, SetQueueFollows DEF Follows
    <2>5. t.playNextQueueLen = 0
      BY <1>s DEF SetQueue, Located, RecordQueueChange, PlaybackState
    <2> HIDE DEF t, r
    <2>6. QED
      BY <2>3, <2>4, <2>5, ZeroRegion, RegionNormalized
  <1>2. ASSUME cmd.op = "insertAfterCurrent", s.currentIndex # NoIndex
        PROVE  RegionEntries(r) \subseteq RegionEntries(s) \cup Range(cmd.items)
    <2> DEFINE t == InsertAfterCurrent(s, cmd.items)
    <2>1. cmd.items \in Seq(Entries)
      BY <1>2 DEF Command
    <2>2. r = Normalized(t)
      BY <1>2 DEF Reduced
    <2>3. t \in PlaybackState /\ ValidState(t)
      BY <2>1, InsertAfterCurrentFollows DEF Follows
    <2>4. RegionEntries(t) \subseteq RegionEntries(s) \cup Range(cmd.items)
      BY <1>2, <2>1, InsertRegion
    <2> HIDE DEF t, r
    <2>5. RegionEntries(r) \subseteq RegionEntries(t)
      BY <2>2, <2>3, RegionNormalized
    <2>6. QED
      BY <2>4, <2>5
  <1>3. ASSUME NEW t, t \in PlaybackState, ValidState(t), r = Normalized(t),
               RegionEntries(t) \subseteq RegionEntries(s)
        PROVE  RegionEntries(r) \subseteq RegionEntries(s)
    <2> HIDE DEF r
    <2>1. RegionEntries(r) \subseteq RegionEntries(t)
      BY <1>3, RegionNormalized
    <2>2. QED
      BY <1>3, <2>1
  <1>4. ASSUME cmd.op = "appendToQueue"
        PROVE  RegionEntries(r) \subseteq RegionEntries(s)
    <2>1. cmd.items \in Seq(Entries)
      BY <1>4 DEF Command
    <2>2. r = Normalized(AppendToQueue(s, cmd.items))
      BY <1>4 DEF Reduced
    <2> HIDE DEF r
    <2>3. QED
      BY <1>3, <2>1, <2>2, AppendToQueueFollows, AppendRegion DEF Follows
  <1>5. ASSUME cmd.op = "removeQueueIndex"
        PROVE  RegionEntries(r) \subseteq RegionEntries(s)
    <2>1. cmd.index \in Indices(s.queue)
      BY <1>5 DEF Accepts
    <2>2. r = Normalized(RemoveQueueIndex(s, cmd.index))
      BY <1>5 DEF Reduced
    <2>3. QED
      BY <2>1, <2>2, RemoveIndexRegion
  <1>6. ASSUME cmd.op = "removeQueueIndices"
        PROVE  RegionEntries(r) \subseteq RegionEntries(s)
    <2>1. cmd.indices \in SUBSET Indices(s.queue)
      BY <1>6 DEF Accepts
    <2>2. r = Normalized(RemoveQueueIndices(s, cmd.indices))
      BY <1>6 DEF Reduced
    <2> HIDE DEF r
    <2>3. QED
      BY <1>3, <2>1, <2>2, RemoveIndicesFollows, RemoveIndicesRegion DEF Follows
  <1>7. ASSUME cmd.op = "clearQueue"
        PROVE  RegionEntries(r) \subseteq RegionEntries(s)
    <2>1. r = Normalized(ClearQueue(s))
      BY <1>7 DEF Reduced
    <2>2. ClearQueue(s) \in PlaybackState /\ ValidState(ClearQueue(s))
      BY ClearQueueFollows DEF Follows
    <2>3. ClearQueue(s).queue = <<>>
      BY <1>s, EmptyPlaybackStateType DEF ClearQueue, RecordQueueChange, PlaybackState
    <2>4. RegionEntries(r) = {}
      BY <2>1, <2>2, <2>3, EmptyRegion
    <2>5. QED
      BY <2>4
  <1>8. ASSUME cmd.op = "playQueueIndex"
        PROVE  RegionEntries(r) \subseteq RegionEntries(s)
    <2>1. cmd.index \in Indices(s.queue)
      BY <1>8 DEF Accepts
    <2>2. r = Normalized(PlayQueueIndex(s, cmd.index))
      BY <1>8 DEF Reduced
    <2>3. RegionEntries(PlayQueueIndex(s, cmd.index)) \subseteq RegionEntries(s)
      BY <2>1, JumpRegion DEF PlayQueueIndex
    <2>4. PlayQueueIndex(s, cmd.index) \in PlaybackState /\ ValidState(PlayQueueIndex(s, cmd.index))
      BY <2>1, PlayQueueIndexFollows DEF Follows
    <2> HIDE DEF r
    <2>5. QED
      BY <1>3, <2>2, <2>3, <2>4
  <1> HIDE DEF r
  <1>9. QED
    BY <1>1, <1>2, <1>4, <1>5, <1>6, <1>7, <1>8

\* Neither the clock nor the end of a connection changes the region, and what a
\* report covers was covered.
LEMMA RoomRegion ==
    ASSUME NEW sh, WellFormedShared(sh), NEW elapsed
    PROVE  LET current == AsOfNow(sh, elapsed)
           IN  /\ RegionEntries(current.state) = RegionEntries(sh.state)
               /\ RegionEntries(AfterFreeze(current).state) = RegionEntries(sh.state)
               /\ \A report \in Report, d \in Devices :
                     ReportAccepted(current, report, d) =>
                        RegionEntries(AfterReport(current, report, d).state)
                           \subseteq RegionEntries(sh.state)
  <1> DEFINE current == AsOfNow(sh, elapsed)
  <1>1. WellFormedShared(current) /\ WellFormed(current.state)
    BY AsOfNowSound DEF WellFormedShared
  <1>2. RegionEntries(current.state) = RegionEntries(sh.state)
    BY AsOfNowFields DEF RegionEntries
  <1> HIDE DEF current
  <1>3. RegionEntries(AfterFreeze(current).state) = RegionEntries(current.state)
    BY <1>1, FrozenFields DEF RegionEntries
  <1>4. ASSUME NEW report \in Report, NEW d \in Devices, ReportAccepted(current, report, d)
        PROVE  RegionEntries(AfterReport(current, report, d).state)
                  \subseteq RegionEntries(current.state)
    <2> DEFINE t == MergeReport(current.state, report)
    <2>1. /\ AfterReport(current, report, d).state = Normalized(t)
          /\ t \in PlaybackState /\ ValidState(t)
          /\ CompatibleReportIndex(current.state, report) \in Indices(current.state.queue)
      BY <1>1, <1>4, ReportedFields DEF Follows
    <2>2. RegionEntries(t) \subseteq RegionEntries(current.state)
      BY <1>1, <2>1, JumpRegion DEF MergeReport
    <2> HIDE DEF t
    <2>3. RegionEntries(Normalized(t)) \subseteq RegionEntries(t)
      BY <2>1, RegionNormalized
    <2>4. QED
      BY <2>1, <2>2, <2>3
  <1>5. QED
    BY <1>2, <1>3, <1>4 DEF current

\* The history follows the room and changes nothing of it.
LEMMA MarksStep ==
    ASSUME [MarksNext]_marksVars
    PROVE  [Next]_vars
  <1>1. CASE UNCHANGED marksVars
    BY <1>1 DEF marksVars, vars
  <1>2. CASE MarksNext
    BY <1>2 DEF MarksNext, MarkingCommand, OtherStep, Next
  <1>3. QED
    BY <1>1, <1>2

LEMMA MarksRoom == MarksSpec => Spec
  <1>1. MarksInit => Init
    BY DEF MarksInit
  <1>2. [MarksNext]_marksVars => [Next]_vars
    BY MarksStep
  <1>3. QED
    BY <1>1, <1>2, PTL DEF MarksSpec, Spec

LEMMA MarksKept ==
    ASSUME TypeOK, TypeOK', RegionWasPlayNext, [MarksNext]_marksVars
    PROVE  RegionWasPlayNext'
  <1> DEFINE s == shared.state
             t == shared'.state
             now(elapsed) == AsOfNow(shared, elapsed)
  <1>1. WellFormedShared(shared) /\ RegionEntries(s) \subseteq marked
    BY DEF TypeOK, RegionWasPlayNext
  <1>2. RegionEntries(t) \subseteq Range(t.queue)
    BY RegionInQueue DEF TypeOK, WellFormedShared
  <1>3. RegionEntries(t) \subseteq marked' => RegionWasPlayNext'
    BY DEF RegionWasPlayNext, RegionEntries
  <1>4. ASSUME NEW elapsed \in BOOLEAN
        PROVE  /\ WellFormedShared(now(elapsed)) /\ WellFormed(now(elapsed).state)
               /\ now(elapsed) \in SharedState
               /\ now(elapsed).state.currentIndex = s.currentIndex
               /\ RegionEntries(now(elapsed).state) = RegionEntries(s)
    <2>1. RegionEntries(now(elapsed).state) = RegionEntries(s)
      BY <1>1, RoomRegion
    <2>2. QED
      BY <1>1, <2>1, AsOfNowSound, AsOfNowFields DEF WellFormedShared
  <1>5. CASE UNCHANGED marksVars
    BY <1>1, <1>3, <1>5 DEF marksVars
  <1>6. ASSUME NEW d \in Devices, NEW elapsed \in BOOLEAN, NEW cmd \in Commands,
               MarkingCommand(d, cmd, elapsed)
        PROVE  RegionEntries(t) \subseteq marked'
    <2> DEFINE cur == now(elapsed).state
    <2>1. cmd \in Command
      BY CommandsAssumption
    <2>2. /\ Accepts(cur, cmd) /\ shared' = AfterCommand(now(elapsed), cmd, d)
          /\ marked' = MarkedAfter(cmd, s, t)
      BY <1>6 DEF MarkingCommand, QueueCommand
    <2>3. t = IF IsNoop(cmd) THEN cur ELSE Reduced(cur, cmd)
      <3> HIDE DEF now
      <3>1. QED
        BY <2>2 DEF AfterCommand
    <2>4. WellFormed(cur) /\ cur.currentIndex = s.currentIndex /\ RegionEntries(cur) = RegionEntries(s)
      BY <1>4
    <2> HIDE DEF cur, now, s, t
    <2>5. /\ cmd.op = "setQueue" => RegionEntries(t) = {}
          /\ cmd.op = "insertAfterCurrent" /\ s.currentIndex # NoIndex
                => RegionEntries(t) \subseteq RegionEntries(s) \cup Range(cmd.items)
          /\ cmd.op \in {"appendToQueue", "removeQueueIndex", "removeQueueIndices",
                         "clearQueue", "playQueueIndex"}
                => RegionEntries(t) \subseteq RegionEntries(s)
      <3>1. CASE IsNoop(cmd)
        BY <2>3, <2>4, <3>1 DEF IsNoop
      <3>2. CASE ~IsNoop(cmd)
        BY <2>1, <2>2, <2>3, <2>4, <3>2, ReducedRegion
      <3>3. QED
        BY <3>1, <3>2
    <2>6. cmd.op \in {"setQueue", "insertAfterCurrent", "appendToQueue", "moveQueueIndices",
                      "removeQueueIndex", "playQueueIndex", "removeQueueIndices",
                      "clearQueue", "pushState"}
      BY <2>1 DEF Command
    <2>7. CASE cmd.op = "insertAfterCurrent"
      BY <1>1, <1>2, <2>2, <2>5, <2>7 DEF MarkedAfter
    <2>8. CASE cmd.op \in {"moveQueueIndices", "pushState"}
      BY <1>1, <1>2, <2>2, <2>5, <2>8 DEF MarkedAfter
    <2>9. CASE cmd.op = "setQueue"
      BY <2>5, <2>9
    <2>10. CASE cmd.op \in {"appendToQueue", "removeQueueIndex", "removeQueueIndices",
                            "clearQueue", "playQueueIndex"}
      <3>1. marked' = marked \cap Range(t.queue)
        BY <2>2, <2>10 DEF MarkedAfter
      <3>2. QED
        BY <1>1, <1>2, <2>5, <2>10, <3>1
    <2>11. QED
      BY <2>6, <2>7, <2>8, <2>9, <2>10
  <1>7. ASSUME NEW d \in Devices, NEW elapsed \in BOOLEAN, OtherStep(d, elapsed)
        PROVE  RegionEntries(t) \subseteq marked'
    <2>1. marked' = marked
      BY <1>7 DEF OtherStep
    <2>2. RegionEntries(t) \subseteq RegionEntries(s)
      <3>1. CASE ControlCommand(d, elapsed) \/ \E target \in Devices : TransferPlayback(d, target, elapsed)
        <4>1. \/ shared' = AfterControl(now(elapsed), d)
              \/ \E target \in Devices : shared' = AfterTransfer(now(elapsed), target)
          BY <3>1 DEF ControlCommand, TransferPlayback
        <4>2. now(elapsed) \in SharedState /\ RegionEntries(now(elapsed).state) = RegionEntries(s)
          BY <1>4
        <4> HIDE DEF now
        <4>3. t = now(elapsed).state
          BY <4>1, <4>2 DEF AfterControl, AfterTransfer, SharedState
        <4> HIDE DEF t
        <4>4. QED
          BY <4>2, <4>3
      <3>2. CASE \E report \in Reports : PlaybackReport(d, report, elapsed)
        <4>1. PICK report \in Reports : PlaybackReport(d, report, elapsed)
          BY <3>2
        <4>2. report \in Report
          BY ReportsAssumption
        <4>3. /\ ReportAccepted(now(elapsed), report, d)
              /\ shared' = AfterReport(now(elapsed), report, d)
          BY <4>1 DEF PlaybackReport
        <4>4. QED
          BY <1>1, <4>2, <4>3, RoomRegion
      <3>3. CASE Register(d) \/ Unregister(d, elapsed)
        <4>1. shared' = shared \/ shared' = AfterFreeze(now(elapsed))
          BY <3>3 DEF Register, Unregister
        <4>2. RegionEntries(AfterFreeze(now(elapsed)).state) = RegionEntries(s)
          BY <1>1, RoomRegion
        <4> HIDE DEF now
        <4>3. QED
          BY <4>1, <4>2
      <3>4. QED
        BY <1>7, <3>1, <3>2, <3>3 DEF OtherStep
    <2> HIDE DEF s, t
    <2>3. QED
      BY <1>1, <2>1, <2>2
  <1>8. QED
    BY <1>3, <1>5, <1>6, <1>7 DEF MarksNext

\* Whatever is enqueued, removed, jumped to or reported, the region covers only
\* entries that were enqueued with "play next": nothing drifts into it.
THEOREM RegionKept == MarksSpec => []RegionWasPlayNext
  <1>1. MarksInit => RegionWasPlayNext
    <2>1. ASSUME MarksInit PROVE RegionEntries(shared.state) = {}
      <3>1. shared.state = EmptyPlaybackState
        BY <2>1 DEF MarksInit, Init, NoShared
      <3>2. QED
        BY <3>1, EmptyPlaybackStateType, ZeroRegion
    <2>2. QED
      BY <2>1 DEF RegionWasPlayNext
  <1>2. TypeOK /\ TypeOK' /\ RegionWasPlayNext /\ [MarksNext]_marksVars => RegionWasPlayNext'
    BY MarksKept
  <1>3. MarksSpec => []TypeOK
    BY MarksRoom, TypeCorrect, PTL
  <1>4. QED
    BY <1>1, <1>2, <1>3, PTL DEF MarksSpec
=============================================================================
