------------------------- MODULE ServerReportingProofs ------------------------
(***************************************************************************)
(* What a server is told, for every queue, any number of commands, errors  *)
(* and recoveries, and however far the thread and its requests are behind: *)
(* what one with the playbackReport extension was told last, where no      *)
(* request overtakes another; and, for one without it, the scrobbles of    *)
(* each play.                                                              *)
(***************************************************************************)
EXTENDS ServerReporting, TLAPS

States == {"none", "clear", "starting", "playing", "paused", "stopped"}
Statuses == {"stopped", "playing", "paused", "interrupted", "error"}
Reports == [state: States, song: Songs \cup {NoSong}, index: Nat, play: Nat]
Sessions == [due: BOOLEAN, state: States, song: Songs \cup {NoSong}, index: Nat, play: Nat]
Players == [status: Statuses, queue: Seq(Songs), index: Nat, play: Nat,
            resume: Statuses \cup {"none"}, attempts: Nat,
            plan: [index: Nat, autoplay: BOOLEAN, attempt: Nat]]

\* The index is one of the queue.
Points(p) == p \in Players /\ p.index \in DOMAIN p.queue

-----------------------------------------------------------------------------
(* The invariant.                                                          *)

\* The last report that left the thread.
Line == IF net = <<>> THEN told ELSE net[Len(net)]

\* What a report says is what the controller shows.
Says(r, p) ==
    IF p.status \in {"playing", "paused"}
    THEN r.state = p.status /\ r.song = p.queue[p.index]
    ELSE r.state \notin {"playing", "paused"}

\* The last report that waits in the channel, or the last that left it, says
\* what the controller shows; what waits behind it only drops the session.
LastOf(c, i) == c[i].state # "clear" /\ \A k \in DOMAIN c : k > i => c[k].state = "clear"
OnlyClears(c) == \A k \in DOMAIN c : c[k].state = "clear"
InStep ==
    \/ \E i \in DOMAIN channel : LastOf(channel, i) /\ Says(channel[i], player)
    \/ OnlyClears(channel) /\ Says(Line, player)

\* The session that heartbeats repeat is that of the last report.
Follows == report = NoReport \/ (report.state = Line.state /\ report.song = Line.song)

Typed ==
    /\ Points(player)
    /\ channel \in Seq(Reports) /\ net \in Seq(Reports) /\ told \in Reports
    /\ report \in Sessions \cup {NoReport}
    /\ stale \in BOOLEAN /\ extended \in BOOLEAN

StepInv == Typed /\ (extended => Follows /\ (stale \/ InStep))

-----------------------------------------------------------------------------
(* Reports.                                                                *)

LEMMA ReportTypes ==
    ASSUME NEW p, Points(p)
    PROVE  /\ \A state \in States : /\ Report(p, state) \in Reports
                                    /\ Report(p, state).state = state
                                    /\ Report(p, state).song = p.queue[p.index]
           /\ Clear \in Reports /\ Clear.state = "clear"
           /\ NoReport \in Reports /\ NoReport.state = "none"
  BY DEF Points, Players, Reports, Report, Clear, NoReport, States

-----------------------------------------------------------------------------
(* The controller: a command whose last report says what is shown from     *)
(* then on, one that changes nothing the server knows of, and one that is  *)
(* noted as not told.                                                      *)

\* What the thread and the requests have is not changed by a command.
LEMMA SendsTyped ==
    ASSUME StepInv, NEW p, Points(p), NEW reports \in Seq(Reports), Sends(p, reports),
           stale' \in BOOLEAN
    PROVE  /\ Typed' /\ Line' = Line /\ (extended' => Follows')
           /\ extended' = extended /\ player' = p /\ channel' = channel \o reports
  <1>1. /\ player' = p /\ channel' = channel \o reports
        /\ extended' = extended /\ net' = net /\ told' = told /\ report' = report
    BY DEF Sends
  <1>2. Typed'
    BY <1>1 DEF StepInv, Typed
  <1>3. Line' = Line
    BY <1>1 DEF Line
  <1> QED BY <1>1, <1>2, <1>3 DEF StepInv, Follows

\* Where the elements of two sequences are when one follows the other.
LEMMA Behind ==
    ASSUME NEW S, NEW a \in Seq(S), NEW b \in Seq(S)
    PROVE  /\ a \o b \in Seq(S) /\ Len(a) \in Nat /\ Len(b) \in Nat
           /\ Len(a \o b) = Len(a) + Len(b)
           /\ \A k \in 1 .. Len(a) : (a \o b)[k] = a[k]
           /\ \A k \in 1 .. Len(b) : (a \o b)[Len(a) + k] = b[k]
           /\ \A k \in 1 .. Len(a \o b) :
                k > Len(a) => k - Len(a) \in 1 .. Len(b) /\ (a \o b)[k] = b[k - Len(a)]
  <1>1. a \o b \in Seq(S) /\ Len(a) \in Nat /\ Len(b) \in Nat /\ Len(a \o b) = Len(a) + Len(b)
    OBVIOUS
  <1>2. \A k \in 1 .. Len(a) : (a \o b)[k] = a[k]
    OBVIOUS
  <1>3. \A k \in 1 .. Len(a \o b) :
            k > Len(a) => k - Len(a) \in 1 .. Len(b) /\ (a \o b)[k] = b[k - Len(a)]
    OBVIOUS
  <1>4. ASSUME NEW k \in 1 .. Len(b)
        PROVE  (a \o b)[Len(a) + k] = b[k]
    <2>1. Len(a) + k \in 1 .. Len(a \o b) /\ Len(a) + k > Len(a) /\ (Len(a) + k) - Len(a) = k
      BY <1>1
    <2> QED BY <1>3, <2>1
  <1> QED BY <1>1, <1>2, <1>3, <1>4

\* Whatever is reported first, a report that says what is shown, and nothing
\* behind it but that the session is dropped.
LEMMA SendsInStep ==
    ASSUME StepInv, NEW p, Points(p), NEW before \in Seq(Reports), NEW r \in Reports,
           r.state # "clear", Says(r, p), NEW drops \in {<<>>, <<Clear>>, <<Clear, Clear>>},
           Sends(p, before \o <<r>> \o drops), stale' \in BOOLEAN
    PROVE  StepInv'
  <1> DEFINE i == Len(before) + 1
             s == before \o <<r>> \o drops
  <1>1. Clear \in Reports /\ Clear.state = "clear"
    BY ReportTypes
  <1>2. drops \in Seq(Reports) /\ \A k \in DOMAIN drops : drops[k] = Clear
    <2>1. CASE drops = <<>>
      BY <2>1
    <2>2. CASE drops = <<Clear>>
      BY <1>1, <2>2
    <2>3. CASE drops = <<Clear, Clear>>
      BY <1>1, <2>3
    <2> QED BY <2>1, <2>2, <2>3
  <1>3. /\ s \in Seq(Reports) /\ i \in 1 .. Len(s) /\ s[i] = r
        /\ \A k \in 1 .. Len(s) : k > i => s[k] = Clear
    <2> DEFINE a == before \o <<r>>
    <2>1. a \in Seq(Reports) /\ Len(a) = i /\ a[i] = r /\ i \in Nat \ {0}
      OBVIOUS
    <2>2. s = a \o drops
      OBVIOUS
    <2> HIDE DEF a, i, s
    <2>3. a \o drops \in Seq(Reports) /\ Len(a \o drops) = Len(a) + Len(drops)
      <3>1. a \in Seq(Reports) /\ drops \in Seq(Reports)
        BY <1>2, <2>1
      <3>2. Len(a \o drops) = Len(a) + Len(drops)
        BY <3>1, Behind, Zenon
      <3>3. a \o drops \in Seq(Reports)
        BY <3>1, Behind, Zenon
      <3> QED BY <3>2, <3>3
    <2>4. (a \o drops)[i] = r /\ i \in 1 .. Len(a) /\ Len(drops) \in Nat
      BY <1>2, <2>1, Behind
    <2>5. ASSUME NEW k \in 1 .. Len(a \o drops), k > Len(a)
          PROVE  (a \o drops)[k] = Clear
      <3>1. k - Len(a) \in 1 .. Len(drops) /\ (a \o drops)[k] = drops[k - Len(a)]
        BY <1>2, <2>1, <2>5, Behind
      <3> QED BY <1>2, <3>1
    <2> QED BY <2>1, <2>2, <2>3, <2>4, <2>5
  <1> HIDE DEF s
  <1>4. Sends(p, s)
    BY DEF s
  <1>5. Typed' /\ channel' = channel \o s /\ player' = p /\ (extended' => Follows')
    BY <1>3, <1>4, SendsTyped
  <1>6. channel \in Seq(Reports) /\ i \in Nat
    BY DEF StepInv, Typed
  <1> HIDE DEF i
  <1>7. /\ Len(channel) + i \in DOMAIN channel' /\ channel'[Len(channel) + i] = r
        /\ \A k \in DOMAIN channel' : k > Len(channel) + i => channel'[k] = Clear
    <2>1. channel' = channel \o s /\ s \in Seq(Reports) /\ channel \in Seq(Reports)
      BY <1>3, <1>5, <1>6
    <2>2. /\ Len(channel') = Len(channel) + Len(s) /\ Len(channel) \in Nat /\ Len(s) \in Nat
          /\ DOMAIN channel' = 1 .. Len(channel')
      BY <2>1, Behind
    <2>3. Len(channel) + i \in DOMAIN channel'
      BY <1>3, <1>6, <2>2
    <2>4. channel'[Len(channel) + i] = s[i]
      BY <1>3, <2>1, Behind
    <2>5. ASSUME NEW k \in DOMAIN channel', k > Len(channel) + i
          PROVE  channel'[k] = Clear
      <3>1. k \in 1 .. Len(channel \o s) /\ k > Len(channel) /\ k - Len(channel) > i
        BY <1>6, <2>1, <2>2, <2>5
      <3>2. k - Len(channel) \in 1 .. Len(s) /\ channel'[k] = s[k - Len(channel)]
        BY <2>1, <3>1, Behind
      <3> QED BY <1>3, <3>1, <3>2
    <2> QED BY <1>3, <2>3, <2>4, <2>5
  <1>8. InStep'
    BY <1>1, <1>5, <1>7 DEF InStep, LastOf
  <1> QED BY <1>5, <1>8 DEF StepInv

\* Nothing, or only that the session is dropped, and the same is shown.
LEMMA SendsNothing ==
    ASSUME StepInv, NEW p, Points(p), NEW reports \in {<<>>, <<Clear>>}, Sends(p, reports),
           \A r : Says(r, player) => Says(r, p), stale' = (extended /\ stale) \/ stale' = stale
    PROVE  StepInv'
  <1>1. Clear \in Reports /\ Clear.state = "clear" /\ channel \in Seq(Reports) /\ stale \in BOOLEAN
    BY ReportTypes DEF StepInv, Typed
  <1>2. reports \in Seq(Reports) /\ \A k \in DOMAIN reports : reports[k] = Clear
    <2>1. CASE reports = <<>>
      BY <2>1
    <2>2. CASE reports = <<Clear>>
      BY <1>1, <2>2
    <2> QED BY <2>1, <2>2
  <1>3. /\ Typed' /\ Line' = Line /\ (extended' => Follows')
        /\ extended' = extended /\ player' = p /\ channel' = channel \o reports
    BY <1>1, <1>2, SendsTyped
  <1>4. /\ \A k \in DOMAIN channel : k \in DOMAIN channel' /\ channel'[k] = channel[k]
        /\ \A k \in DOMAIN channel' : k \in DOMAIN channel \/ channel'[k] = Clear
    BY <1>1, <1>2, <1>3
  <1>5. InStep => InStep'
    <2>1. ASSUME NEW i \in DOMAIN channel, LastOf(channel, i), Says(channel[i], player)
          PROVE  InStep'
      <3>1. LastOf(channel', i)
        BY <1>1, <1>4, <2>1 DEF LastOf
      <3>2. i \in DOMAIN channel' /\ Says(channel'[i], player')
        BY <1>3, <1>4, <2>1
      <3> QED BY <3>1, <3>2 DEF InStep
    <2>2. CASE OnlyClears(channel) /\ Says(Line, player)
      <3>1. OnlyClears(channel')
        BY <1>1, <1>4, <2>2 DEF OnlyClears
      <3>2. Says(Line', player')
        BY <1>3, <2>2
      <3> QED BY <3>1, <3>2 DEF InStep
    <2> QED BY <2>1, <2>2 DEF InStep
  <1> QED BY <1>3, <1>5 DEF StepInv

\* A change that no report names.
LEMMA SendsStale ==
    ASSUME StepInv, NEW p, Points(p), NEW reports \in Seq(Reports), Sends(p, reports),
           stale' = extended
    PROVE  StepInv'
  <1>1. stale' \in BOOLEAN
    BY DEF StepInv, Typed
  <1> QED BY <1>1, SendsTyped DEF StepInv

-----------------------------------------------------------------------------
(* Loading.                                                                *)

LEMMA LoadInStep ==
    ASSUME StepInv, NEW p \in Players, NEW i \in DOMAIN p.queue, NEW autoplay \in BOOLEAN,
           NEW before \in Seq(Reports), Load(p, i, autoplay, before)
    PROVE  StepInv'
  <1> DEFINE again == before = <<>> /\ player.status = "interrupted" /\ i = player.index
             play == IF again THEN p.play ELSE p.play + 1
             new == [p EXCEPT !.index = i, !.play = play, !.resume = "none"]
             state == IF autoplay THEN "playing" ELSE "paused"
             loaded == [new EXCEPT !.status = state, !.attempts = 0, !.plan = NoPlan]
             failed == [new EXCEPT !.status = "error"]
             starting == Report(new, "starting")
  <1>1. /\ new \in Players /\ new.index = i /\ new.queue = p.queue
        /\ state \in {"playing", "paused"}
    <2>1. p.play \in Nat /\ i \in Nat /\ play \in Nat
      BY DEF Players
    <2> HIDE DEF play
    <2> QED BY <2>1 DEF Players
  <1>2. \/ Sends(loaded, before \o <<starting, Report(new, state)>>) /\ stale' = FALSE
        \/ Sends(failed, before \o <<starting, Clear>>) /\ stale' = FALSE
        \/ Sends(failed, <<starting, Clear>>) /\ stale' = FALSE
    BY DEF Load, Tells, Loses
  <1> HIDE DEF new, state
  <1>3. /\ Points(loaded) /\ loaded.status = state /\ loaded.queue[loaded.index] = new.queue[new.index]
        /\ Points(failed) /\ failed.status = "error"
    BY <1>1 DEF Points, Players, NoPlan, Statuses
  <1> HIDE DEF loaded, failed
  <1>4. Points(new) /\ "starting" \in States /\ state \in States
    BY <1>1 DEF Points, States
  <1>5. /\ starting \in Reports /\ starting.state = "starting" /\ Says(starting, failed)
        /\ Report(new, state) \in Reports /\ Report(new, state).state = state
        /\ Says(Report(new, state), loaded)
    BY <1>1, <1>3, <1>4, ReportTypes DEF Says
  <1> HIDE DEF starting
  <1>6. CASE Sends(loaded, before \o <<starting, Report(new, state)>>) /\ stale' = FALSE
    <2> DEFINE r == Report(new, state)
               first == before \o <<starting>>
    <2> HIDE DEF r
    <2>1. first \in Seq(Reports)
      BY <1>5
    <2>2. before \o <<starting, r>> = first \o <<r>> \o <<>>
      BY <1>5 DEF r
    <2> HIDE DEF first
    <2>3. Sends(loaded, first \o <<r>> \o <<>>)
      BY <1>6, <2>2 DEF r
    <2>4. r.state # "clear" /\ r \in Reports /\ Says(r, loaded)
      BY <1>1, <1>5 DEF r
    <2> QED BY <1>3, <1>6, <2>1, <2>3, <2>4, SendsInStep
  <1>7. CASE Sends(failed, before \o <<starting, Clear>>) /\ stale' = FALSE
    <2>1. before \o <<starting, Clear>> = before \o <<starting>> \o <<Clear>>
      BY <1>5, ReportTypes, <1>4
    <2> QED BY <1>3, <1>5, <1>7, <2>1, SendsInStep
  <1>8. CASE Sends(failed, <<starting, Clear>>) /\ stale' = FALSE
    <2>1. <<starting, Clear>> = <<>> \o <<starting>> \o <<Clear>> /\ <<>> \in Seq(Reports)
      BY <1>5, ReportTypes, <1>4
    <2> QED BY <1>3, <1>5, <1>8, <2>1, SendsInStep
  <1> QED BY <1>2, <1>6, <1>7, <1>8

\* A reload: it works; or it fails, and what is shown is no longer a loaded
\* track, and the last report names none; or it is noted as not told.
LEMMA ReloadInStep ==
    ASSUME StepInv, NEW i \in Nat, NEW autoplay \in BOOLEAN, NEW before \in Seq(Reports),
           NEW kept, NEW attempts \in Nat, NEW failed, Points(failed.player),
           failed.reports \in Seq(Reports),
           failed.player.status \notin Loaded =>
              \/ i \in DOMAIN player.queue /\ failed.reports = <<Clear>>
              \/ failed.reports = <<Report(player, "stopped"), Clear>>,
           Reload(i, autoplay, before, kept, attempts, failed)
    PROVE  StepInv'
  <1> DEFINE play == IF i = player.index THEN player.play ELSE player.play + 1
             new == [player EXCEPT !.index = i, !.resume = "none", !.play = play]
             state == IF autoplay THEN "playing" ELSE "paused"
             loaded == [new EXCEPT !.status = state, !.attempts = attempts, !.plan = NoPlan]
             starting == Report(new, "starting")
             present == i \in DOMAIN player.queue
             told1 == IF present THEN <<starting, Clear>> ELSE <<>>
  <1>1. /\ player \in Players /\ Points(player)
        /\ new \in Players /\ new.index = i /\ new.queue = player.queue
        /\ state \in {"playing", "paused"}
    <2>1. player \in Players /\ Points(player)
      BY DEF StepInv, Typed, Points
    <2>2. play \in Nat
      BY <2>1 DEF Players
    <2> HIDE DEF play
    <2>3. new \in Players /\ new.index = i /\ new.queue = player.queue
      BY <2>1, <2>2 DEF Players
    <2> QED BY <2>1, <2>3
  <1>2. \/ present /\ Sends(loaded, <<starting, Report(new, state)>>) /\ stale' = FALSE
        \/ /\ present /\ stale' = FALSE
           /\ Sends(loaded, before \o <<starting, Report(new, state)>>)
        \/ /\ Sends(failed.player, before \o told1 \o failed.reports)
           /\ stale' = (extended /\ failed.player.status \in Loaded)
    BY DEF Reload, Tells, Loses
  <1> HIDE DEF new, state
  <1>3. /\ present => Points(loaded)
        /\ loaded.status = state /\ loaded.queue[loaded.index] = new.queue[new.index]
    BY <1>1 DEF Points, Players, NoPlan, Statuses
  <1> HIDE DEF loaded
  <1>4. (present => Points(new)) /\ "starting" \in States /\ state \in States /\ "stopped" \in States
    BY <1>1 DEF Points, States
  <1>5. present => /\ starting \in Reports /\ starting.state = "starting"
                   /\ Report(new, state) \in Reports /\ Report(new, state).state = state
                   /\ Says(Report(new, state), loaded)
    BY <1>1, <1>3, <1>4, ReportTypes DEF Says
  <1>6. Clear \in Reports /\ <<>> \in Seq(Reports)
    BY <1>1, ReportTypes
  <1> HIDE DEF starting
  <1>7. ASSUME present, stale' = FALSE, NEW b \in Seq(Reports),
               Sends(loaded, b \o <<starting, Report(new, state)>>)
        PROVE  StepInv'
    <2> DEFINE r == Report(new, state)
               first == b \o <<starting>>
    <2> HIDE DEF r
    <2>1. first \in Seq(Reports)
      BY <1>5, <1>7
    <2>2. b \o <<starting, r>> = first \o <<r>> \o <<>>
      BY <1>5, <1>7 DEF r
    <2> HIDE DEF first
    <2>3. Sends(loaded, first \o <<r>> \o <<>>)
      BY <1>7, <2>2 DEF r
    <2>4. r.state # "clear" /\ r \in Reports /\ Says(r, loaded)
      BY <1>1, <1>5, <1>7 DEF r
    <2> QED BY <1>3, <1>7, <2>1, <2>3, <2>4, SendsInStep
  <1>8. CASE present /\ Sends(loaded, <<starting, Report(new, state)>>) /\ stale' = FALSE
    <2>1. <<starting, Report(new, state)>> = <<>> \o <<starting, Report(new, state)>>
      BY <1>5, <1>8
    <2> QED BY <1>6, <1>7, <1>8, <2>1
  <1>9. CASE /\ Sends(failed.player, before \o told1 \o failed.reports)
             /\ stale' = (extended /\ failed.player.status \in Loaded)
    <2>1. told1 \in Seq(Reports)
      BY <1>5, <1>6
    <2>2. CASE failed.player.status \in Loaded
      <3>1. before \o told1 \o failed.reports \in Seq(Reports)
        BY <2>1
      <3>2. stale' = extended
        BY <1>9, <2>2 DEF StepInv, Typed
      <3> QED BY <1>9, <3>1, <3>2, SendsStale
    <2>3. CASE failed.player.status \notin Loaded /\ present /\ failed.reports = <<Clear>>
      <3>1. before \o told1 \o failed.reports = before \o <<starting>> \o <<Clear, Clear>>
        BY <1>5, <1>6, <2>3
      <3>2. Says(starting, failed.player)
        BY <1>5, <2>3 DEF Says, Loaded
      <3> QED BY <1>5, <1>9, <2>3, <3>1, <3>2, SendsInStep DEF StepInv, Typed
    <2>4. CASE /\ failed.player.status \notin Loaded
               /\ failed.reports = <<Report(player, "stopped"), Clear>>
      <3> DEFINE r == Report(player, "stopped")
      <3>1. r \in Reports /\ r.state = "stopped"
        BY <1>1, <1>4, ReportTypes
      <3> HIDE DEF r
      <3>2. before \o told1 \in Seq(Reports)
        BY <2>1
      <3>3. Says(r, failed.player)
        BY <2>4, <3>1 DEF Says, Loaded
      <3>4. before \o told1 \o failed.reports = before \o told1 \o <<r>> \o <<Clear>>
        <4>1. failed.reports = <<r, Clear>>
          BY <2>4 DEF r
        <4> DEFINE b == before \o told1
        <4> HIDE DEF b
        <4> SUFFICES b \o failed.reports = b \o <<r>> \o <<Clear>>
          BY DEF b
        <4> QED BY <1>6, <3>1, <3>2, <4>1 DEF b
      <3> QED BY <1>9, <2>4, <3>1, <3>2, <3>3, <3>4, SendsInStep DEF StepInv, Typed
    <2> QED BY <2>2, <2>3, <2>4
  <1> QED BY <1>2, <1>7, <1>8, <1>9

-----------------------------------------------------------------------------
(* The commands.                                                           *)

LEMMA Shown ==
    ASSUME StepInv
    PROVE  /\ Points(player) /\ player \in Players /\ stale \in BOOLEAN /\ extended \in BOOLEAN
           /\ <<>> \in Seq(Reports) /\ Clear \in Reports /\ Clear.state = "clear"
           /\ StopReports = <<>> \o <<Report(player, "stopped")>> \o <<Clear>>
           /\ StopReports \in Seq(Reports) /\ StopReport \in Seq(Reports)
           /\ Report(player, "stopped") \in Reports
           /\ Report(player, "stopped").state = "stopped"
  <1>1. Points(player) /\ player \in Players /\ stale \in BOOLEAN /\ extended \in BOOLEAN
    BY DEF StepInv, Typed, Points
  <1> DEFINE r == Report(player, "stopped")
  <1>2. r \in Reports /\ r.state = "stopped" /\ Clear \in Reports /\ Clear.state = "clear"
    BY <1>1, ReportTypes DEF States
  <1>3. StopReports = <<r, Clear>> /\ StopReport \in {<<>>, <<r>>}
    BY DEF StopReports, StopReport
  <1> HIDE DEF r
  <1>4. <<r, Clear>> = <<>> \o <<r>> \o <<Clear>> /\ <<r, Clear>> \in Seq(Reports)
    BY <1>2
  <1>5. <<>> \in Seq(Reports) /\ <<r>> \in Seq(Reports)
    BY <1>2
  <1>6. StopReport \in Seq(Reports)
    BY <1>3, <1>5
  <1> QED BY <1>1, <1>2, <1>3, <1>4, <1>5, <1>6 DEF r

\* One report, of what is shown from then on.
LEMMA TellsInStep ==
    ASSUME StepInv, NEW p, Points(p), NEW before \in Seq(Reports), p.status \in {"playing", "paused"},
           Tells(p, <<Report(p, p.status)>>) \/ Tells(p, before \o <<Report(p, p.status)>>)
    PROVE  StepInv'
  <1> DEFINE r == Report(p, p.status)
  <1>1. r \in Reports /\ r.state = p.status /\ Says(r, p)
    BY ReportTypes DEF Says, States
  <1>2. stale' \in BOOLEAN /\ (Sends(p, <<r>>) \/ Sends(p, before \o <<r>>))
    BY DEF Tells
  <1> HIDE DEF r
  <1>3. <<r>> = <<>> \o <<r>> \o <<>> /\ before \o <<r>> = before \o <<r>> \o <<>>
        /\ <<>> \in Seq(Reports)
    BY <1>1
  <1> QED BY <1>1, <1>2, <1>3, SendsInStep

LEMMA PlayInStep ==
    ASSUME StepInv, Play \/ PlayIndex \/ Pause
    PROVE  StepInv'
  <1> DEFINE p == [player EXCEPT !.status = "playing", !.attempts = 0, !.plan = NoPlan]
             q == [player EXCEPT !.status = "paused", !.resume = "none"]
  <1>1. /\ Points(p) /\ p.status = "playing" /\ Report(p, "playing") = Report(player, "playing")
        /\ Points(q) /\ q.status = "paused" /\ Report(q, "paused") = Report(player, "paused")
    BY Shown DEF Points, Players, Report, NoPlan, Statuses
  <1>2. CASE Tells(p, <<Report(player, "playing")>>)
    BY <1>1, <1>2, TellsInStep, Shown
  <1>3. CASE Tells(q, <<Report(player, "paused")>>)
    BY <1>1, <1>3, TellsInStep, Shown
  <1>4. ASSUME NEW i \in DOMAIN player.queue, NEW before \in Seq(Reports),
               Load(player, i, TRUE, before)
        PROVE  StepInv'
    BY <1>4, LoadInStep, Shown
  <1>5. player.index \in DOMAIN player.queue
    BY Shown DEF Points
  <1> QED BY <1>2, <1>3, <1>4, <1>5, Shown DEF Play, PlayIndex, Pause

LEMMA MoveInStep ==
    ASSUME StepInv, Move
    PROVE  StepInv'
  <1> PICK i \in {player.index - 1, player.index + 1} \cap DOMAIN player.queue :
         LET moved == [player EXCEPT !.index = i, !.status = "stopped", !.resume = "none"] IN
         \/ player.status \in {"playing", "paused"} /\ Load(player, i, Autoplay, StopReport)
         \/ player.status \in {"stopped", "error"} /\ Spares(moved, <<>>)
         \/ player.status = "interrupted" /\ Loses(moved, <<>>, TRUE)
    BY DEF Move
  <1> DEFINE moved == [player EXCEPT !.index = i, !.status = "stopped", !.resume = "none"]
  <1>1. Points(moved) /\ moved.status = "stopped"
    <2>1. player \in Players /\ i \in Nat /\ i \in DOMAIN player.queue
      BY Shown DEF Players
    <2>2. moved \in Players /\ moved.index = i /\ moved.queue = player.queue
          /\ moved.status = "stopped"
      BY <2>1 DEF Players, Statuses
    <2> HIDE DEF moved
    <2> QED BY <2>1, <2>2 DEF Points
  <1> HIDE DEF moved
  <1>2. CASE Load(player, i, Autoplay, StopReport)
    <2>1. Autoplay \in BOOLEAN
      BY DEF Autoplay
    <2> QED BY <1>2, <2>1, LoadInStep, Shown
  <1>3. CASE player.status \in {"stopped", "error"} /\ Spares(moved, <<>>)
    BY <1>1, <1>3, SendsNothing DEF Spares, Says
  <1>4. CASE Loses(moved, <<>>, TRUE)
    BY <1>1, <1>4, Shown, SendsStale DEF Loses
  <1> QED BY <1>2, <1>3, <1>4 DEF moved

LEMMA StopInStep ==
    ASSUME StepInv, Stop
    PROVE  StepInv'
  <1> DEFINE p == [player EXCEPT !.status = "stopped", !.resume = "none", !.attempts = 0,
                                 !.plan = NoPlan]
  <1>1. Points(p) /\ p.status = "stopped"
    BY Shown DEF Points, Players, NoPlan, Statuses
  <1> HIDE DEF p
  <1>2. Sends(p, StopReports) /\ stale' = FALSE
    BY DEF Stop, Tells, p
  <1> QED BY <1>1, <1>2, Shown, SendsInStep DEF Says

LEMMA SeekInStep ==
    ASSUME StepInv, Seek
    PROVE  StepInv'
  <1> DEFINE failed == [player |-> player, reports |-> <<>>]
  <1>1. failed.player = player /\ failed.reports = <<>> /\ player.status \in {"playing", "paused"}
    BY DEF Seek
  <1> HIDE DEF failed
  <1>2. CASE Tells(player, <<Report(player, player.status)>>)
    BY <1>1, <1>2, TellsInStep, Shown
  <1>3. CASE Reload(player.index, Autoplay, <<>>, TRUE, 0, failed)
    <2>1. Autoplay \in BOOLEAN /\ player.index \in Nat
      BY Shown DEF Autoplay, Players
    <2>2. failed.player.status \in Loaded
      BY <1>1 DEF Loaded
    <2> QED BY <1>1, <1>3, <2>1, <2>2, Shown, ReloadInStep
  <1> QED BY <1>2, <1>3 DEF Seek, failed

LEMMA Removed ==
    ASSUME NEW S, NEW q \in Seq(S), NEW i \in 1 .. Len(q)
    PROVE  RemoveAt(q, i) \in Seq(S) /\ Len(RemoveAt(q, i)) = Len(q) - 1
  <1> DEFINE a == SubSeq(q, 1, i - 1)
             b == SubSeq(q, i + 1, Len(q))
  <1>1. a \in Seq(S) /\ Len(a) = i - 1
    OBVIOUS
  <1>2. b \in Seq(S) /\ Len(b) = Len(q) - i
    OBVIOUS
  <1>3. RemoveAt(q, i) = a \o b
    BY DEF RemoveAt
  <1> HIDE DEF a, b
  <1> QED BY <1>1, <1>2, <1>3

\* What follows the entry that is removed.
LEMMA RemoveInStep ==
    ASSUME StepInv, RemoveCurrent
    PROVE  StepInv'
  <1> DEFINE rest == RemoveAt(player.queue, player.index)
             i == IF player.index > Len(rest) THEN Len(rest) ELSE player.index
             left == [player EXCEPT !.queue = rest]
             moved == [left EXCEPT !.index = i, !.status = "stopped"]
  <1>1. player.queue \in Seq(Songs) /\ Len(player.queue) > 1 /\ player.index \in 1 .. Len(player.queue)
    BY Shown DEF Points, Players, RemoveCurrent
  <1>2. rest \in Seq(Songs) /\ Len(rest) = Len(player.queue) - 1
    BY <1>1, Removed
  <1>3. \/ player.status \in Loaded /\ Load(left, i, Autoplay, StopReports)
        \/ player.status \notin Loaded /\ Spares(moved, <<>>)
    BY DEF RemoveCurrent
  <1> HIDE DEF rest
  <1>4. i \in DOMAIN rest /\ i \in Nat
    BY <1>1, <1>2
  <1> HIDE DEF i
  <1>5. left \in Players /\ left.queue = rest
    BY <1>2, Shown DEF Players
  <1> HIDE DEF left
  <1>6. moved \in Players /\ moved.queue = rest /\ moved.index = i /\ moved.status = "stopped"
    BY <1>4, <1>5 DEF Players, Statuses
  <1> HIDE DEF moved
  <1>7. CASE Load(left, i, Autoplay, StopReports)
    <2>1. Autoplay \in BOOLEAN
      BY DEF Autoplay
    <2> QED BY <1>4, <1>5, <1>7, <2>1, LoadInStep, Shown
  <1>8. CASE player.status \notin Loaded /\ Spares(moved, <<>>)
    <2>1. Points(moved)
      BY <1>4, <1>6 DEF Points
    <2> QED BY <1>6, <1>8, <2>1, SendsNothing DEF Spares, Says, Loaded
  <1> QED BY <1>3, <1>7, <1>8

\* An entry comes in front: the index moves, the song does not.
LEMMA ShiftInStep ==
    ASSUME StepInv, ShiftCurrent
    PROVE  StepInv'
  <1> DEFINE queue == <<Head(player.queue)>> \o player.queue
             next == player.index + 1
             longer == [player EXCEPT !.queue = queue, !.index = next]
  <1>1. player.queue \in Seq(Songs) /\ player.index \in 1 .. Len(player.queue)
    BY Shown DEF Points, Players
  <1>2. /\ queue \in Seq(Songs) /\ next \in DOMAIN queue /\ next \in Nat
        /\ queue[next] = player.queue[player.index]
    BY <1>1
  <1>3. \/ Spares(longer, <<>>)
        \/ Loses(longer, <<>>, stale)
    BY DEF ShiftCurrent
  <1> HIDE DEF queue, next
  <1>4. /\ longer \in Players /\ longer.queue = queue /\ longer.index = next
        /\ longer.status = player.status
    BY <1>1, <1>2, Shown DEF Players
  <1> HIDE DEF longer
  <1>5. Points(longer) /\ \A r : Says(r, player) => Says(r, longer)
    BY <1>2, <1>4 DEF Points, Says
  <1>6. /\ Sends(longer, <<>>)
        /\ stale' = (extended /\ stale) \/ stale' = stale
    BY <1>3 DEF Spares, Loses
  <1> QED BY <1>5, <1>6, SendsNothing

LEMMA ReplaceInStep ==
    ASSUME StepInv, Replace
    PROVE  StepInv'
  <1> DEFINE p == [player EXCEPT !.status = "stopped", !.resume = "none", !.attempts = 0,
                                 !.plan = NoPlan]
  <1>1. Points(p) /\ p.status = "stopped"
    BY Shown DEF Points, Players, NoPlan, Statuses
  <1>2. /\ Sends(p, <<Clear>>)
        /\ \/ player.status = "stopped" /\ stale' = stale
           \/ stale' = (extended /\ (stale \/ player.status \in Loaded))
    BY DEF Replace, Spares, Loses
  <1> HIDE DEF p
  <1>3. <<Clear>> \in Seq(Reports)
    BY Shown
  <1>4. CASE stale' = (extended /\ (stale \/ player.status \in Loaded)) /\ player.status \in Loaded
    <2>1. stale' = extended
      BY <1>4, Shown
    <2> QED BY <1>1, <1>2, <1>3, <2>1, SendsStale
  <1>5. CASE /\ player.status \notin Loaded
             /\ stale' = (extended /\ (stale \/ player.status \in Loaded)) \/ stale' = stale
    <2>1. \A r : Says(r, player) => Says(r, p)
      BY <1>1, <1>5 DEF Says, Loaded
    <2>2. stale' = (extended /\ stale) \/ stale' = stale
      BY <1>5
    <2> QED BY <1>1, <1>2, <2>1, <2>2, SendsNothing
  <1> QED BY <1>2, <1>4, <1>5 DEF Loaded

LEMMA DeviceInStep ==
    ASSUME StepInv, ChangeDevice
    PROVE  StepInv'
  <1> DEFINE error == [player EXCEPT !.status = "error", !.resume = "none"]
             failed == [player |-> error, reports |-> <<Clear>>]
             p == [player EXCEPT !.attempts = 0, !.plan = NoPlan]
  <1>1. /\ Points(error) /\ error.status = "error"
        /\ Points(p) /\ p.status = player.status /\ p.queue = player.queue /\ p.index = player.index
    BY Shown DEF Points, Players, NoPlan, Statuses
  <1>2. failed.player = error /\ failed.reports = <<Clear>> /\ <<Clear>> \in Seq(Reports)
    BY Shown
  <1>3. \/ Reload(player.index, Autoplay, <<Clear>>, FALSE, 0, failed)
        \/ Spares(p, <<>>)
    BY DEF ChangeDevice
  <1> HIDE DEF error, failed, p
  <1>4. CASE Reload(player.index, Autoplay, <<Clear>>, FALSE, 0, failed)
    <2>1. Autoplay \in BOOLEAN /\ player.index \in Nat /\ player.index \in DOMAIN player.queue
      BY Shown DEF Autoplay, Players, Points
    <2> QED BY <1>1, <1>2, <1>4, <2>1, ReloadInStep
  <1>5. CASE Spares(p, <<>>)
    <2>1. \A r : Says(r, player) => Says(r, p)
      BY <1>1 DEF Says
    <2> QED BY <1>1, <1>5, <2>1, SendsNothing DEF Spares
  <1> QED BY <1>3, <1>4, <1>5

-----------------------------------------------------------------------------
(* What the backend brings about.                                          *)

LEMMA EndInStep ==
    ASSUME StepInv, TrackEnds
    PROVE  StepInv'
  <1> DEFINE p == [player EXCEPT !.status = "stopped"]
  <1>1. Points(p) /\ p.status = "stopped"
    BY Shown DEF Points, Players, Statuses
  <1> HIDE DEF p
  <1>2. CASE player.index < Len(player.queue) /\ Load(player, player.index + 1, TRUE, StopReport)
    <2>1. player.index + 1 \in DOMAIN player.queue
      BY <1>2, Shown DEF Points, Players
    <2> HIDE DEF StepInv
    <2> QED BY <1>2, <2>1, LoadInStep, Shown
  <1>3. CASE Sends(p, StopReports) /\ stale' = FALSE
    BY <1>1, <1>3, Shown, SendsInStep DEF Says
  <1> QED BY <1>2, <1>3 DEF TrackEnds, Tells, p

LEMMA TransitionInStep ==
    ASSUME StepInv, GaplessTransition
    PROVE  StepInv'
  <1> DEFINE next == player.index + 1
             play == player.play + 1
             new == [player EXCEPT !.index = next, !.play = play]
  <1>1. /\ player \in Players /\ player.status = "playing"
        /\ next \in DOMAIN player.queue /\ next \in Nat /\ play \in Nat
    BY Shown DEF Points, Players, GaplessTransition
  <1>2. Tells(new, StopReport \o <<Report(new, "playing")>>)
    BY DEF GaplessTransition
  <1> HIDE DEF next, play
  <1>3. new \in Players /\ new.queue = player.queue /\ new.index = next /\ new.status = "playing"
    BY <1>1 DEF Players
  <1> HIDE DEF new
  <1>4. Points(new)
    BY <1>1, <1>3 DEF Points
  <1> QED BY <1>2, <1>3, <1>4, TellsInStep, Shown

LEMMA NativeInStep ==
    ASSUME StepInv, NativeState
    PROVE  StepInv'
  <1> PICK status \in Statuses, resume \in Statuses \cup {"none"} :
             Loses([player EXCEPT !.status = status, !.resume = resume], <<>>, TRUE)
    <2>1. player.resume # "none" => player.resume \in Statuses
      BY Shown DEF Players
    <2>2. player.status \in Statuses
      BY Shown DEF Players
    <2> QED BY <2>1, <2>2 DEF NativeState, Statuses
  <1> DEFINE p == [player EXCEPT !.status = status, !.resume = resume]
  <1>1. Points(p)
    BY Shown DEF Points, Players
  <1>2. Sends(p, <<>>) /\ stale' = extended
    BY Shown DEF Loses
  <1> HIDE DEF p
  <1> QED BY <1>1, <1>2, Shown, SendsStale

LEMMA ErrorInStep ==
    ASSUME StepInv, StreamError
    PROVE  StepInv'
  <1> DEFINE plan == [index |-> player.index, autoplay |-> Autoplay, attempt |-> player.attempts + 1]
             p == [player EXCEPT !.status = "interrupted", !.resume = "none", !.plan = plan]
             q == [player EXCEPT !.status = "error", !.resume = "none"]
             r == Report(player, "stopped")
  <1>1. \/ Loses(p, <<Clear>>, TRUE)
        \/ Loses(q, <<Clear, r>>, FALSE)
    BY DEF StreamError
  <1>2. plan \in [index: Nat, autoplay: BOOLEAN, attempt: Nat]
    BY Shown DEF Players, Autoplay
  <1> HIDE DEF plan
  <1>3. Points(p) /\ Points(q) /\ q.status = "error"
    BY <1>2, Shown DEF Points, Players, Statuses
  <1> HIDE DEF p, q
  <1>4. Clear \in Reports /\ r \in Reports /\ r.state = "stopped"
    BY Shown
  <1> HIDE DEF r
  <1>5. <<Clear>> \in Seq(Reports) /\ <<Clear, r>> = <<Clear>> \o <<r>> \o <<>>
    BY <1>4
  <1>6. CASE Loses(p, <<Clear>>, TRUE)
    <2>1. stale' = extended
      BY <1>6, Shown DEF Loses
    <2> QED BY <1>3, <1>5, <1>6, <2>1, SendsStale DEF Loses
  <1>7. CASE Loses(q, <<Clear, r>>, FALSE)
    <2>1. stale' = FALSE
      BY <1>7, Shown DEF Loses
    <2>2. Says(r, q)
      BY <1>3, <1>4 DEF Says
    <2> QED BY <1>3, <1>4, <1>5, <1>7, <2>1, <2>2, SendsInStep DEF Loses
  <1> QED BY <1>1, <1>6, <1>7

LEMMA RecoverInStep ==
    ASSUME StepInv, Recover
    PROVE  StepInv'
  <1> DEFINE attempt == player.plan.attempt
             next == attempt + 1
             tried == [player EXCEPT !.attempts = attempt]
             over == [tried EXCEPT !.status = "error", !.plan = NoPlan]
             again == [tried EXCEPT !.status = "interrupted", !.plan.attempt = next]
             failed == IF attempt = MaxAttempts
                       THEN [player |-> over, reports |-> <<Report(player, "stopped"), Clear>>]
                       ELSE [player |-> again, reports |-> <<>>]
  <1>1. Reload(player.plan.index, player.plan.autoplay, <<>>, FALSE, attempt, failed)
    BY DEF Recover
  <1>2. /\ player \in Players /\ player.index \in DOMAIN player.queue /\ attempt \in Nat /\ next \in Nat
        /\ player.plan \in [index: Nat, autoplay: BOOLEAN, attempt: Nat]
    BY Shown DEF Points, Players
  <1> HIDE DEF attempt, next
  <1>3. tried \in Players /\ tried.queue = player.queue /\ tried.index = player.index
    BY <1>2 DEF Players
  <1> HIDE DEF tried
  <1>4. Points(over) /\ over.status = "error"
    BY <1>2, <1>3 DEF Points, Players, Statuses, NoPlan
  <1>5. Points(again) /\ again.status = "interrupted"
    <2> DEFINE plan == [tried.plan EXCEPT !.attempt = next]
    <2>1. plan \in [index: Nat, autoplay: BOOLEAN, attempt: Nat]
      BY <1>2, <1>3 DEF Players
    <2>2. again = [tried EXCEPT !.status = "interrupted", !.plan = plan]
      BY <1>3 DEF Players
    <2> HIDE DEF plan
    <2> QED BY <1>2, <1>3, <2>1, <2>2 DEF Points, Players, Statuses
  <1> HIDE DEF over, again
  <1>6. <<Report(player, "stopped"), Clear>> \in Seq(Reports) /\ <<>> \in Seq(Reports)
    BY Shown
  <1>7. /\ Points(failed.player) /\ failed.reports \in Seq(Reports)
        /\ failed.player.status \notin Loaded =>
              failed.reports = <<Report(player, "stopped"), Clear>>
    BY <1>4, <1>5, <1>6 DEF Loaded
  <1> HIDE DEF failed
  <1>8. player.plan.index \in Nat /\ player.plan.autoplay \in BOOLEAN
    BY <1>2
  <1> QED BY <1>1, <1>2, <1>6, <1>7, <1>8, ReloadInStep

-----------------------------------------------------------------------------
(* The thread and its requests.                                            *)

\* The report at the head leaves the channel; the others come one nearer.
LEMMA TailMoves ==
    ASSUME NEW S, NEW c \in Seq(S), c # <<>>
    PROVE  /\ Tail(c) \in Seq(S) /\ Head(c) \in S /\ Head(c) = c[1]
           /\ \A k \in DOMAIN Tail(c) : k + 1 \in DOMAIN c /\ Tail(c)[k] = c[k + 1]
           /\ \A k \in DOMAIN c : k # 1 => k - 1 \in DOMAIN Tail(c) /\ Tail(c)[k - 1] = c[k]
  OBVIOUS

LEMMA ReceiveInStep ==
    ASSUME StepInv, Receive
    PROVE  StepInv'
  <1> DEFINE c == Head(channel)
  <1>1. /\ channel \in Seq(Reports) /\ channel # <<>> /\ channel' = Tail(channel)
        /\ net \in Seq(Reports) /\ told \in Reports
        /\ extended' = extended /\ player' = player /\ told' = told /\ stale' = stale
    BY DEF Receive, StepInv, Typed
  <1>2. /\ channel' \in Seq(Reports) /\ c \in Reports /\ c = channel[1]
        /\ \A k \in DOMAIN channel' : k + 1 \in DOMAIN channel /\ channel'[k] = channel[k + 1]
        /\ \A k \in DOMAIN channel : k # 1 => k - 1 \in DOMAIN channel' /\ channel'[k - 1] = channel[k]
        /\ DOMAIN channel \subseteq Nat \ {0} /\ DOMAIN channel' \subseteq Nat \ {0} /\ 1 \in DOMAIN channel
    BY <1>1, TailMoves
  <1> HIDE DEF c
  <1>3. \A i \in DOMAIN channel \ {1} : LastOf(channel, i) => LastOf(channel', i - 1)
    BY <1>2 DEF LastOf
  <1>4. OnlyClears(channel) => OnlyClears(channel')
    BY <1>2 DEF OnlyClears
  <1>5. LastOf(channel, 1) => c.state # "clear" /\ OnlyClears(channel')
    BY <1>2 DEF LastOf, OnlyClears
  <1>6. Typed /\ (extended => Follows /\ (stale \/ InStep))
    BY DEF StepInv
  <1>7. CASE c.state = "clear"
    <2>1. net' = net /\ report' = NoReport
      BY <1>7 DEF Receive, c
    <2>2. Line' = Line
      BY <1>1, <2>1 DEF Line
    <2>3. InStep => InStep'
      <3>1. ASSUME NEW i \in DOMAIN channel, LastOf(channel, i), Says(channel[i], player)
            PROVE  InStep'
        <4>1. i # 1
          BY <1>2, <1>7, <3>1 DEF LastOf
        <4> QED BY <1>1, <1>2, <1>3, <3>1, <4>1 DEF InStep
      <3>2. CASE OnlyClears(channel) /\ Says(Line, player)
        BY <1>1, <1>4, <2>2, <3>2 DEF InStep
      <3> QED BY <3>1, <3>2 DEF InStep
    <2> QED BY <1>1, <1>2, <1>6, <2>1, <2>3 DEF StepInv, Typed, Follows
  <1>8. CASE c.state # "clear" /\ extended
    <2>1. net' = Append(net, c) /\ report' = SessionAfter(c)
      BY <1>8 DEF Receive, Extended, c
    <2>2. net' \in Seq(Reports) /\ Line' = c
      BY <1>1, <1>2, <2>1 DEF Line
    <2>3. Follows' /\ report' \in Sessions \cup {NoReport}
      <3>1. report' = NoReport \/ report' = Session(c)
        BY <2>1 DEF SessionAfter
      <3>2. Session(c).state = c.state /\ Session(c).song = c.song /\ Session(c) \in Sessions
        BY <1>2 DEF Session, Sessions, Reports
      <3> QED BY <2>2, <3>1, <3>2 DEF Follows
    <2>4. InStep => InStep'
      <3>1. ASSUME NEW i \in DOMAIN channel, LastOf(channel, i), Says(channel[i], player), i # 1
            PROVE  InStep'
        BY <1>1, <1>2, <1>3, <3>1 DEF InStep
      <3>2. CASE LastOf(channel, 1) /\ Says(channel[1], player)
        BY <1>1, <1>2, <1>5, <2>2, <3>2 DEF InStep
      <3>3. ~OnlyClears(channel)
        BY <1>2, <1>8 DEF OnlyClears
      <3> QED BY <3>1, <3>2, <3>3 DEF InStep
    <2> QED BY <1>1, <1>2, <1>6, <2>2, <2>3, <2>4 DEF StepInv, Typed
  <1>9. CASE c.state # "clear" /\ ~extended
    <2>1. net' = net /\ report' = NoReport
      BY <1>9 DEF Receive, Fallback, c
    <2> QED BY <1>1, <1>2, <1>6, <1>9, <2>1 DEF StepInv, Typed
  <1> QED BY <1>7, <1>8, <1>9, <1>6 DEF Typed

LEMMA TickInStep ==
    ASSUME StepInv, Tick
    PROVE  StepInv'
  <1>1. /\ UNCHANGED <<extended, player, channel, net, told, stale>>
        /\ report' = IF report.state = "playing" THEN [report EXCEPT !.due = TRUE] ELSE report
    BY DEF Tick
  <1>2. report' \in Sessions \cup {NoReport}
    BY <1>1 DEF StepInv, Typed, Sessions, NoReport
  <1>3. Typed' /\ Line' = Line /\ (InStep => InStep')
    BY <1>1, <1>2 DEF StepInv, Typed, Line, InStep
  <1>4. ASSUME Follows PROVE Follows'
    <2>1. CASE report = NoReport
      BY <1>1, <2>1 DEF NoReport, Follows
    <2>2. CASE report # NoReport /\ report.state = Line.state /\ report.song = Line.song
      <3>1. report'.state = report.state /\ report'.song = report.song
        BY <1>1, <2>2 DEF StepInv, Typed, Sessions
      <3> QED BY <1>3, <2>2, <3>1 DEF Follows
    <2> QED BY <1>4, <2>1, <2>2 DEF Follows
  <1> QED BY <1>1, <1>3, <1>4 DEF StepInv

\* A heartbeat repeats the last report.
LEMMA HeartbeatInStep ==
    ASSUME StepInv, Heartbeat
    PROVE  StepInv'
  <1> DEFINE h == [Clear EXCEPT !.state = "playing", !.song = report.song,
                                !.index = report.index, !.play = report.play]
  <1>1. /\ channel = <<>> /\ report.state = "playing" /\ report # NoReport
        /\ net' = Append(net, h) /\ report' = [report EXCEPT !.due = FALSE]
        /\ UNCHANGED <<extended, player, channel, told, stale>>
    BY DEF Heartbeat, NoReport
  <1>2. Typed /\ (extended => Follows /\ (stale \/ InStep))
    BY DEF StepInv
  <1>3. report \in Sessions
    BY <1>1, <1>2 DEF Typed
  <1>4. h \in Reports /\ h.state = "playing" /\ h.song = report.song
    BY <1>3 DEF Clear, Sessions, Reports, States
  <1> HIDE DEF h
  <1>5. report' \in Sessions /\ report'.state = "playing" /\ report'.song = report.song
    BY <1>1, <1>3 DEF Sessions
  <1>6. Typed'
    BY <1>1, <1>2, <1>4, <1>5 DEF Typed
  <1>7. Line' = h
    BY <1>1, <1>2, <1>4 DEF Line, Typed
  <1>8. extended => \A p : Says(Line, p) => Says(h, p)
    BY <1>1, <1>2, <1>4 DEF Follows, Says
  <1>9. extended /\ InStep => InStep'
    BY <1>1, <1>7, <1>8 DEF InStep, OnlyClears
  <1> QED BY <1>1, <1>2, <1>4, <1>5, <1>6, <1>7, <1>9 DEF StepInv, Follows

LEMMA DeliverInStep ==
    ASSUME Overtakes = 0, StepInv, Deliver
    PROVE  StepInv'
  <1>1. /\ UNCHANGED <<extended, player, channel, report, stale>>
        /\ 1 \in DOMAIN net /\ net' = RemoveAt(net, 1) /\ told' = net[1]
    <2>1. net \in Seq(Reports)
      BY DEF StepInv, Typed
    <2> QED BY <2>1 DEF Deliver
  <1>2. net \in Seq(Reports) /\ net # <<>>
    BY <1>1 DEF StepInv, Typed
  <1>3. net' \in Seq(Reports) /\ Len(net') = Len(net) - 1
    BY <1>1, <1>2, Removed
  <1>4. told' \in Reports
    BY <1>1, <1>2
  <1>5. Len(net) > 1 => net'[Len(net')] = net[Len(net)]
    BY <1>1, <1>2 DEF RemoveAt
  <1>6. Line' = Line
    BY <1>1, <1>2, <1>3, <1>5 DEF Line
  <1>7. Typed'
    BY <1>1, <1>3, <1>4 DEF StepInv, Typed
  <1>8. (Follows => Follows') /\ (InStep => InStep')
    BY <1>1, <1>6 DEF Follows, InStep
  <1> QED BY <1>1, <1>7, <1>8 DEF StepInv

-----------------------------------------------------------------------------
(* All steps.                                                              *)

LEMMA InitInStep == Init => StepInv
  <1> SUFFICES ASSUME Init PROVE StepInv
    OBVIOUS
  <1>1. /\ Start \in Seq(Songs) /\ 1 \in DOMAIN Start
        /\ player = [status |-> "stopped", queue |-> Start, index |-> 1, play |-> 0,
                     resume |-> "none", attempts |-> 0, plan |-> NoPlan]
        /\ channel = <<>> /\ net = <<>> /\ told = NoReport /\ report = NoReport
        /\ stale = FALSE /\ extended \in BOOLEAN
    BY ReportingAssumption DEF Init
  <1>2. Points(player)
    BY <1>1 DEF Points, Players, Statuses, NoPlan
  <1>3. NoReport \in Reports /\ NoReport.state = "none"
    BY <1>2, ReportTypes
  <1>4. InStep
    BY <1>1, <1>3 DEF InStep, OnlyClears, Says, Line
  <1>5. <<>> \in Seq(Reports)
    OBVIOUS
  <1>6. Typed
    BY <1>1, <1>2, <1>3, <1>5 DEF Typed
  <1> QED BY <1>1, <1>4, <1>6 DEF StepInv, Follows

\* All but the arrival of a request.
LEMMA OthersInStep ==
    ASSUME StepInv, [Command \/ Native \/ Tick \/ Receive \/ Heartbeat]_vars
    PROVE  StepInv'
  <1>1. CASE Command
    BY <1>1, PlayInStep, MoveInStep, StopInStep, SeekInStep, RemoveInStep, ShiftInStep,
       ReplaceInStep, DeviceInStep DEF Command
  <1>2. CASE Native
    BY <1>2, EndInStep, TransitionInStep, NativeInStep, ErrorInStep, RecoverInStep DEF Native
  <1>3. CASE Tick \/ Receive \/ Heartbeat
    BY <1>3, TickInStep, ReceiveInStep, HeartbeatInStep
  <1>4. CASE UNCHANGED vars
    BY <1>4 DEF vars, StepInv, Typed, Follows, InStep, Line
  <1> QED BY <1>1, <1>2, <1>3, <1>4

LEMMA NextInStep ==
    ASSUME Overtakes = 0, StepInv, [Next]_vars
    PROVE  StepInv'
  BY OthersInStep, DeliverInStep DEF Next

\* Once all that was sent has arrived, the server was told last what the
\* controller shows (send_server_playback_report, server_reporting.rs), where
\* the requests arrive in the order they were sent in.
THEOREM ServerIsInStep ==
    ASSUME Overtakes = 0
    PROVE  Spec => []ServerInStep
  <1>1. StepInv => ServerInStep
    BY DEF StepInv, InStep, Line, Says, ServerInStep
  <1>2. Init => StepInv
    BY InitInStep
  <1>3. StepInv /\ [Next]_vars => StepInv'
    BY NextInStep
  <1> QED BY <1>1, <1>2, <1>3, PTL DEF Spec

-----------------------------------------------------------------------------
(* Scrobbles.  What is heard and scrobbled of the plays follows from what  *)
(* the thread will have done once it has received what waits in its        *)
(* channel: what it holds then, from what it holds now, report by report.  *)

Scrobbling == {"starting", "playing", "paused"}
Scrobbled == [heard: 0 .. Threshold, announced: BOOLEAN, submitted: BOOLEAN, state: Scrobbling,
              song: Songs \cup {NoSong}, index: Nat, play: Nat]
Listened == [heard: 0 .. Threshold, announced: 0 .. 2, submitted: 0 .. 2, lost: BOOLEAN,
             over: BOOLEAN, closed: BOOLEAN]

\* SessionOf, Finalizes and Receive, from a session and plays at hand.
SessionFrom(f, c) ==
    IF f # NoReport /\ Key(f) = Key(c) THEN [f EXCEPT !.state = c.state] ELSE NewSession(c)
Ends(f, c) == f # NoReport /\ Key(f) # Key(c) /\ Ready(f)
Sent(f) == [f EXCEPT !.announced = @ \/ Announces(f), !.submitted = @ \/ Submits(f)]
Marked(h, f, c) ==
    LET g == SessionFrom(f, c)
        submitting == (IF Submits(g) THEN {g.play} ELSE {})
        finalized == (IF Ends(f, c) THEN {f.play} ELSE {})
        announcing == (IF Announces(g) THEN {g.play} ELSE {})
    IN [p \in Plays |->
          IF h[p].lost THEN h[p] ELSE
          [h[p] EXCEPT !.submitted = Counted(@, p \in submitting \cup finalized),
                       !.announced = Counted(@, p \in announcing)]]
After(s, c) ==
    IF c.state = "clear" THEN [session |-> NoReport, plays |-> s.plays]
    ELSE [session |-> IF c.state = "stopped" THEN NoReport ELSE Sent(SessionFrom(s.session, c)),
          plays |-> Marked(s.plays, s.session, c)]

LEMMA SessionFields ==
    ASSUME NEW f \in Scrobbled \cup {NoReport}, NEW c \in Reports
    PROVE  LET g == SessionFrom(f, c)
               merged == f # NoReport /\ Key(f) = Key(c)
           IN /\ g \in [heard: 0 .. Threshold, announced: BOOLEAN, submitted: BOOLEAN, state: States,
                        song: Songs \cup {NoSong}, index: Nat, play: Nat]
              /\ g.state = c.state /\ Key(g) = Key(c)
              /\ merged => /\ g.heard = f.heard /\ g.announced = f.announced
                           /\ g.submitted = f.submitted /\ g.play = f.play
              /\ ~merged => g.heard = 0 /\ ~g.announced /\ ~g.submitted /\ g.play = c.play
  <1>1. Threshold \in Nat \ {0} /\ Scrobbling \subseteq States
    BY ReportingAssumption DEF Scrobbling, States
  <1>2. CASE f # NoReport /\ Key(f) = Key(c)
    <2>1. f \in Scrobbled /\ SessionFrom(f, c) = [f EXCEPT !.state = c.state]
      BY <1>2 DEF SessionFrom
    <2>2. c.state \in States /\ f.state \in States
      BY <1>1, <2>1 DEF Scrobbled, Reports
    <2>3. /\ SessionFrom(f, c).heard = f.heard /\ SessionFrom(f, c).announced = f.announced
          /\ SessionFrom(f, c).submitted = f.submitted /\ SessionFrom(f, c).play = f.play
          /\ SessionFrom(f, c).song = f.song /\ SessionFrom(f, c).index = f.index
          /\ SessionFrom(f, c).state = c.state
      BY <2>1 DEF Scrobbled
    <2>4. SessionFrom(f, c) \in [heard: 0 .. Threshold, announced: BOOLEAN, submitted: BOOLEAN,
                                 state: States, song: Songs \cup {NoSong}, index: Nat, play: Nat]
      BY <2>1, <2>2 DEF Scrobbled
    <2>5. Key(SessionFrom(f, c)) = Key(c)
      BY <1>2, <2>3 DEF Key
    <2> QED BY <1>2, <2>3, <2>4, <2>5
  <1>3. CASE ~(f # NoReport /\ Key(f) = Key(c))
    <2>1. SessionFrom(f, c) = NewSession(c)
      BY <1>3 DEF SessionFrom
    <2> DEFINE g == SessionFrom(f, c)
    <2>2. /\ g.heard = 0 /\ ~g.announced /\ ~g.submitted /\ g.play = c.play
          /\ g.song = c.song /\ g.index = c.index /\ g.state = c.state
      BY <2>1 DEF NewSession
    <2>3. g \in [heard: 0 .. Threshold, announced: BOOLEAN, submitted: BOOLEAN, state: States,
                 song: Songs \cup {NoSong}, index: Nat, play: Nat]
      BY <1>1, <2>1 DEF NewSession, Reports
    <2> HIDE DEF g
    <2>4. Key(g) = Key(c)
      BY <2>2 DEF Key
    <2> QED BY <1>3, <2>2, <2>3, <2>4 DEF g
  <1> QED BY <1>2, <1>3

\* What is noted of the plays: only of the one the session is of, or of the one
\* whose session another ends, and nothing of a play that was lost.
LEMMA MarkedFields ==
    ASSUME NEW h \in [Plays -> Listened], NEW f, NEW c
    PROVE  LET g == SessionFrom(f, c)
               m == Marked(h, f, c)
           IN /\ m \in [Plays -> Listened]
              /\ \A p \in Plays :
                   /\ m[p].lost = h[p].lost /\ m[p].heard = h[p].heard
                   /\ h[p].lost => m[p] = h[p]
                   /\ ~(p = g.play /\ (Submits(g) \/ Announces(g))) /\ ~(Ends(f, c) /\ p = f.play)
                        => m[p] = h[p]
                   /\ p = g.play /\ ~h[p].lost /\ ~Ends(f, c)
                        => /\ m[p].submitted = Counted(h[p].submitted, Submits(g))
                           /\ m[p].announced = Counted(h[p].announced, Announces(g))
  <1> DEFINE g == SessionFrom(f, c)
             m == Marked(h, f, c)
             submits(p) == p \in (IF Submits(g) THEN {g.play} ELSE {})
                                   \cup (IF Ends(f, c) THEN {f.play} ELSE {})
             announces(p) == p \in (IF Announces(g) THEN {g.play} ELSE {})
  <1>1. m = [p \in Plays |->
               IF h[p].lost THEN h[p] ELSE
               [h[p] EXCEPT !.submitted = Counted(@, submits(p)), !.announced = Counted(@, announces(p))]]
    BY DEF Marked
  <1>2. \A p \in Plays : /\ h[p].lost => m[p] = h[p]
                         /\ ~h[p].lost =>
                              m[p] = [h[p] EXCEPT !.submitted = Counted(@, submits(p)),
                                                  !.announced = Counted(@, announces(p))]
    BY <1>1
  <1>3. ASSUME NEW p \in Plays
        PROVE  /\ m[p] \in Listened /\ m[p].lost = h[p].lost /\ m[p].heard = h[p].heard
               /\ ~submits(p) /\ ~announces(p) => m[p] = h[p]
               /\ ~h[p].lost => /\ m[p].submitted = Counted(h[p].submitted, submits(p))
                                /\ m[p].announced = Counted(h[p].announced, announces(p))
    <2> HIDE DEF m, submits, announces
    <2>1. h[p] \in Listened
      OBVIOUS
    <2>2. /\ Counted(h[p].submitted, submits(p)) \in 0 .. 2 /\ Counted(h[p].announced, announces(p)) \in 0 .. 2
          /\ ~submits(p) => Counted(h[p].submitted, submits(p)) = h[p].submitted
          /\ ~announces(p) => Counted(h[p].announced, announces(p)) = h[p].announced
      BY <2>1 DEF Counted, Listened
    <2> DEFINE a == Counted(h[p].submitted, submits(p))
               b == Counted(h[p].announced, announces(p))
    <2>3. CASE h[p].lost
      BY <1>2, <2>1, <2>3
    <2>4. CASE ~h[p].lost
      <3>1. m[p] = [h[p] EXCEPT !.submitted = a, !.announced = b]
        BY <1>2, <2>4
      <3> HIDE DEF a, b
      <3>2. a \in 0 .. 2 /\ b \in 0 .. 2
        BY <2>2 DEF a, b
      <3>3. /\ m[p] \in Listened /\ m[p].lost = h[p].lost /\ m[p].heard = h[p].heard
            /\ m[p].submitted = a /\ m[p].announced = b
        BY <2>1, <3>1, <3>2 DEF Listened
      <3>4. a = h[p].submitted /\ b = h[p].announced => m[p] = h[p]
        BY <2>1, <3>1 DEF Listened
      <3> QED BY <2>2, <3>3, <3>4 DEF a, b
    <2> QED BY <2>3, <2>4
  <1>4. m \in [Plays -> Listened]
    <2>1. m = [p \in Plays |-> m[p]]
      BY <1>1
    <2> HIDE DEF m
    <2> QED BY <1>3, <2>1
  <1>5. ASSUME NEW p \in Plays
        PROVE  /\ ~(p = g.play /\ (Submits(g) \/ Announces(g))) /\ ~(Ends(f, c) /\ p = f.play)
                    => ~submits(p) /\ ~announces(p)
               /\ p = g.play /\ ~Ends(f, c) => /\ submits(p) <=> Submits(g)
                                               /\ announces(p) <=> Announces(g)
    OBVIOUS
  <1>6. \A n : \A x, y \in BOOLEAN : (x <=> y) => Counted(n, x) = Counted(n, y)
    BY DEF Counted
  <1>7. \A p \in Plays : p = g.play /\ ~Ends(f, c) =>
             /\ Counted(h[p].submitted, submits(p)) = Counted(h[p].submitted, Submits(g))
             /\ Counted(h[p].announced, announces(p)) = Counted(h[p].announced, Announces(g))
    <2>1. \A p \in Plays : submits(p) \in BOOLEAN /\ announces(p) \in BOOLEAN
      OBVIOUS
    <2>2. Submits(g) \in BOOLEAN /\ Announces(g) \in BOOLEAN
      BY DEF Submits, Announces
    <2> QED BY <1>5, <1>6, <2>1, <2>2
  <1> HIDE DEF m, submits, announces
  <1> QED BY <1>2, <1>3, <1>4, <1>5, <1>7 DEF m

LEMMA MarkedKeeps ==
    ASSUME NEW h \in [Plays -> Listened], NEW f, NEW c
    PROVE  /\ Marked(h, f, c) \in [Plays -> Listened]
           /\ \A p \in Plays : /\ Marked(h, f, c)[p].lost = h[p].lost
                               /\ Marked(h, f, c)[p].heard = h[p].heard
  BY MarkedFields

\* Nothing but for plays that were lost.
LEMMA MarkedNothing ==
    ASSUME NEW h \in [Plays -> Listened], NEW f, NEW c,
           NEW g, g = SessionFrom(f, c),
           Submits(g) \/ Announces(g) => g.play \in Plays /\ h[g.play].lost,
           Ends(f, c) => f.play \in Plays /\ h[f.play].lost
    PROVE  Marked(h, f, c) = h
  <1>1. \A p \in Plays : h[p].lost => Marked(h, f, c)[p] = h[p]
    BY MarkedFields
  <1>2. ASSUME NEW p \in Plays, ~h[p].lost
        PROVE  Marked(h, f, c)[p] = h[p]
    <2>1. ~(p = g.play /\ (Submits(g) \/ Announces(g))) /\ ~(Ends(f, c) /\ p = f.play)
      BY <1>2
    <2> QED BY <2>1, MarkedFields
  <1> QED BY <1>1, <1>2, MarkedKeeps

\* What is noted of the play the session is of.
LEMMA MarkedBy ==
    ASSUME NEW h \in [Plays -> Listened], NEW f, NEW c,
           NEW g, g = SessionFrom(f, c), NEW p \in Plays, p = g.play, ~h[p].lost, ~Ends(f, c)
    PROVE  /\ Marked(h, f, c)[p].submitted = Counted(h[p].submitted, Submits(g))
           /\ Marked(h, f, c)[p].announced = Counted(h[p].announced, Announces(g))
  BY MarkedFields

-----------------------------------------------------------------------------
(* A play, before, while and after it is listened to.                      *)

Follow(h, p) == ~h[p].lost /\ (p > 1 => ~h[p - 1].lost)
Counts(l) ==
    /\ l.announced <= 1 /\ (l.heard > 0 => l.announced = 1)
    /\ l.submitted <= 1 /\ (l.submitted = 1 => l.heard >= Threshold)
Settled(h, p) == Follow(h, p) => Counts(h[p]) /\ (h[p].heard >= Threshold => h[p].submitted = 1)

\* Those before the play P have been settled, those after it have not begun.
Past(h, P) ==
    /\ h \in [Plays -> Listened]
    /\ \A p \in Plays : (p < P => Settled(h, p)) /\ (p > P => h[p] = Unheard)

\* No session is left of P, or P was lost and so is the play a session is left of.
Idle(s, P) == s.session = NoReport /\ (P \in Plays => Settled(s.plays, P))
Lost(s, P) ==
    /\ P \in Plays /\ s.plays[P].lost
    /\ \/ s.session = NoReport
       \/ s.session \in Scrobbled /\ s.session.play \in Plays /\ s.plays[s.session.play].lost

\* The session is of what is loaded; and where the thread has the play to
\* itself it knows of it all that was heard and scrobbled.
Agrees(f, l) ==
    /\ f.heard = l.heard /\ (f.announced <=> l.announced = 1) /\ (f.submitted <=> l.submitted = 1)
    /\ f.state = "playing" => f.announced
    /\ f.state = "paused" /\ f.heard >= Threshold => f.submitted
Loading(s, P, key, state) ==
    /\ P \in Plays /\ ~s.plays[P].lost
    /\ s.session \in Scrobbled /\ Key(s.session) = key /\ s.session.state = state
    /\ s.session.play \in Plays
    /\ s.session.play = P \/ s.plays[s.session.play].lost
    /\ Follow(s.plays, P) =>
         s.session.play = P /\ Agrees(s.session, s.plays[P]) /\ Counts(s.plays[P])

\* What has no session to come.
Over(s, P) == P \in 0 .. MaxPlays /\ Past(s.plays, P) /\ (Idle(s, P) \/ Lost(s, P))

\* What the controller's status says of it.
Steady(q) ==
    /\ q.play \in 0 .. MaxPlays
    /\ q.play = 0 => q.status = "stopped" /\ q.plan = NoPlan
    /\ q.resume # "none" => q.status = "interrupted" /\ q.plan = NoPlan
Heard(s, q) ==
    /\ Steady(q) /\ Past(s.plays, q.play)
    /\ \/ Lost(s, q.play)
       \/ /\ q.status \in {"playing", "paused"}
          /\ Loading(s, q.play, <<q.queue[q.index], q.index>>, q.status)
       \/ q.status \in {"stopped", "error"} /\ Idle(s, q.play)

-----------------------------------------------------------------------------
(* One report.                                                             *)

\* A play that no report is of keeps what it has.
LEMMA SettledKept ==
    ASSUME NEW h, NEW m, NEW p \in Plays, m[p] = h[p], \A q \in Plays : m[q].lost = h[q].lost
    PROVE  Settled(h, p) <=> Settled(m, p)
  <1>1. p > 1 => p - 1 \in Plays
    BY ReportingAssumption DEF Plays
  <1> QED BY <1>1 DEF Settled, Follow

\* Where all that a report may be noted for is the play P, or was lost.
LEMMA PastKept ==
    ASSUME NEW P \in Nat, NEW h, Past(h, P), NEW f \in Scrobbled \cup {NoReport}, NEW c \in Reports,
           LET g == SessionFrom(f, c) IN
             /\ Submits(g) \/ Announces(g) => g.play = P \/ (g.play \in Plays /\ h[g.play].lost)
             /\ Ends(f, c) => f.play = P \/ (f.play \in Plays /\ h[f.play].lost)
    PROVE  Past(Marked(h, f, c), P)
  <1> DEFINE g == SessionFrom(f, c)
             m == Marked(h, f, c)
  <1>1. h \in [Plays -> Listened]
    BY DEF Past
  <1>2. m \in [Plays -> Listened] /\ \A p \in Plays : m[p].lost = h[p].lost
    BY <1>1, MarkedFields
  <1>3. \A p \in Plays : p # P => m[p] = h[p]
    BY <1>1, MarkedFields
  <1> HIDE DEF m
  <1>4. \A p \in Plays : p < P => Settled(m, p)
    <2> SUFFICES ASSUME NEW p \in Plays, p < P PROVE Settled(m, p)
      OBVIOUS
    <2>1. Settled(h, p) /\ p # P
      BY DEF Past, Plays
    <2> QED BY <1>2, <1>3, <2>1, SettledKept
  <1>5. \A p \in Plays : p > P => m[p] = Unheard
    BY <1>3 DEF Past, Plays
  <1> QED BY <1>2, <1>4, <1>5 DEF Past, m

\* The sessions are dropped.
LEMMA ClearStep ==
    ASSUME NEW s, NEW c \in Reports, c.state = "clear"
    PROVE  /\ After(s, c) = [session |-> NoReport, plays |-> s.plays]
           /\ \A P : Lost(s, P) => Lost(After(s, c), P)
           /\ \A P : Over(s, P) => Over(After(s, c), P)
  <1>1. After(s, c) = [session |-> NoReport, plays |-> s.plays]
    BY DEF After
  <1>2. \A P : Lost(s, P) => Lost(After(s, c), P)
    BY <1>1 DEF Lost
  <1>3. \A P : Idle(s, P) => Idle(After(s, c), P)
    BY <1>1 DEF Idle
  <1> QED BY <1>1, <1>2, <1>3 DEF Over

LEMMA ReportStep ==
    ASSUME NEW s, NEW c \in Reports, c.state # "clear"
    PROVE  /\ After(s, c).plays = Marked(s.plays, s.session, c)
           /\ c.state = "stopped" => After(s, c).session = NoReport
           /\ c.state # "stopped" => After(s, c).session = Sent(SessionFrom(s.session, c))
  BY DEF After

\* What was heard and lost is not for the thread to change.
LEMMA ReportKeeps ==
    ASSUME NEW s, s.plays \in [Plays -> Listened], NEW c \in Reports, c.state # "clear"
    PROVE  /\ After(s, c).plays \in [Plays -> Listened]
           /\ \A p \in Plays : /\ After(s, c).plays[p].lost = s.plays[p].lost
                               /\ After(s, c).plays[p].heard = s.plays[p].heard
  <1> DEFINE h == s.plays
             m == Marked(h, s.session, c)
  <1>1. m \in [Plays -> Listened] /\ \A p \in Plays : m[p].lost = h[p].lost /\ m[p].heard = h[p].heard
    BY MarkedKeeps
  <1>2. After(s, c).plays = m
    BY ReportStep
  <1> HIDE DEF m
  <1> QED BY <1>1, <1>2

\* A session that goes on, in the state of the report.
LEMMA SentFields ==
    ASSUME NEW f \in Scrobbled \cup {NoReport}, NEW c \in Reports, c.state \in Scrobbling
    PROVE  LET g == SessionFrom(f, c)
               n == Sent(g)
           IN /\ n \in Scrobbled /\ n.state = c.state /\ Key(n) = Key(c)
              /\ n.heard = g.heard /\ n.play = g.play
              /\ n.announced = (g.announced \/ Announces(g))
              /\ n.submitted = (g.submitted \/ Submits(g))
  <1> DEFINE g == SessionFrom(f, c)
             a == (g.announced \/ Announces(g))
             b == (g.submitted \/ Submits(g))
  <1>1. /\ g \in [heard: 0 .. Threshold, announced: BOOLEAN, submitted: BOOLEAN, state: States,
                  song: Songs \cup {NoSong}, index: Nat, play: Nat]
        /\ g.state = c.state /\ Key(g) = Key(c)
    BY SessionFields
  <1>2. a \in BOOLEAN /\ b \in BOOLEAN
    OBVIOUS
  <1>3. Sent(g) = [g EXCEPT !.announced = a, !.submitted = b]
    BY DEF Sent
  <1> HIDE DEF a, b
  <1>4. g.state \in Scrobbling
    BY <1>1
  <1> HIDE DEF g
  <1>5. /\ Sent(g).heard = g.heard /\ Sent(g).play = g.play /\ Sent(g).state = g.state
        /\ Sent(g).song = g.song /\ Sent(g).index = g.index
        /\ Sent(g).announced = a /\ Sent(g).submitted = b
        /\ Sent(g) \in Scrobbled
    BY <1>1, <1>2, <1>3, <1>4 DEF Scrobbled
  <1> QED BY <1>1, <1>5 DEF a, b, g, Key

\* A report of what is loaded: its session goes on.
LEMMA GoesOn ==
    ASSUME NEW s, NEW P \in Nat, NEW key, NEW state, Past(s.plays, P), Loading(s, P, key, state),
           NEW c \in Reports, c.state \in Scrobbling, Key(c) = key
    PROVE  Past(After(s, c).plays, P) /\ Loading(After(s, c), P, key, c.state)
  <1> DEFINE f == s.session
             h == s.plays
             g == SessionFrom(f, c)
             n == After(s, c).session
             m == After(s, c).plays
  <1>1. /\ f \in Scrobbled /\ f # NoReport /\ Key(f) = Key(c) /\ ~Ends(f, c) /\ c.state # "clear"
        /\ f.play \in Plays /\ h \in [Plays -> Listened] /\ P \in Plays /\ ~h[P].lost
        /\ f.play = P \/ h[f.play].lost
    <2>1. f \in Scrobbled /\ Key(f) = Key(c)
      BY DEF Loading
    <2>2. f # NoReport
      BY <2>1 DEF Scrobbled, Scrobbling, NoReport
    <2> QED BY <2>1, <2>2 DEF Loading, Past, Ends, Scrobbling
  <1>2. m = Marked(h, f, c) /\ n = Sent(g)
    BY <1>1, ReportStep DEF Scrobbling
  <1>3. g.play = f.play /\ g.heard = f.heard /\ g.announced = f.announced
        /\ g.submitted = f.submitted /\ g.state = c.state
    BY <1>1, SessionFields
  <1>4. Past(m, P)
    BY <1>1, <1>2, <1>3, PastKept
  <1>5. /\ n \in Scrobbled /\ n.state = c.state /\ Key(n) = Key(c) /\ n.heard = f.heard
        /\ n.play = f.play /\ n.announced = (g.announced \/ Announces(g))
        /\ n.submitted = (g.submitted \/ Submits(g))
    BY <1>1, <1>2, <1>3, SentFields
  <1>6. \A p \in Plays : m[p].lost = h[p].lost /\ m[p].heard = h[p].heard
    BY <1>1, ReportKeeps
  <1>7. ASSUME Follow(h, P)
        PROVE  n.play = P /\ Agrees(n, m[P]) /\ Counts(m[P])
    <2>1. f.play = P /\ Agrees(f, h[P]) /\ Counts(h[P])
      BY <1>7 DEF Loading
    <2>2. /\ m[P].submitted = Counted(h[P].submitted, Submits(g))
          /\ m[P].announced = Counted(h[P].announced, Announces(g))
      BY <1>1, <1>2, <1>3, <2>1, MarkedBy
    <2>3. /\ Submits(g) <=> g.state # "starting" /\ ~g.submitted /\ g.heard >= Threshold
          /\ Announces(g) <=> g.state = "playing" /\ ~g.announced
      BY DEF Submits, Announces, Ready
    <2>4. h[P] \in Listened /\ m[P].heard = h[P].heard /\ Threshold \in Nat \ {0}
      BY <1>1, <1>6, ReportingAssumption
    <2>5. /\ h[P].announced \in 0 .. 2 /\ h[P].submitted \in 0 .. 2 /\ h[P].heard \in 0 .. Threshold
          /\ f.announced \in BOOLEAN /\ f.submitted \in BOOLEAN
      BY <1>1, <2>4 DEF Listened, Scrobbled
    <2> DEFINE l == m[P]
               a == Announces(g)
               b == Submits(g)
    <2>6. a \in BOOLEAN /\ b \in BOOLEAN
      BY DEF Announces, Submits
    <2>7. /\ h[P].announced <= 1 /\ (h[P].heard > 0 => h[P].announced = 1)
          /\ h[P].submitted <= 1 /\ (h[P].submitted = 1 => h[P].heard >= Threshold)
          /\ f.heard = h[P].heard /\ (f.announced <=> h[P].announced = 1)
          /\ (f.submitted <=> h[P].submitted = 1)
      BY <2>1 DEF Agrees, Counts
    <2>8. /\ l.submitted = (IF b /\ h[P].submitted < 2 THEN h[P].submitted + 1 ELSE h[P].submitted)
          /\ l.announced = (IF a /\ h[P].announced < 2 THEN h[P].announced + 1 ELSE h[P].announced)
      BY <2>2 DEF Counted
    <2> HIDE DEF l, a, b
    <2>9. /\ b <=> c.state # "starting" /\ ~f.submitted /\ f.heard >= Threshold
          /\ a <=> c.state = "playing" /\ ~f.announced
          /\ n.announced = (f.announced \/ a) /\ n.submitted = (f.submitted \/ b)
      BY <1>3, <1>5, <2>3 DEF a, b
    <2>10. Counts(l)
      <3>1. l.announced <= 1 /\ (l.announced = 1 <=> (f.announced \/ a))
        BY <2>5, <2>6, <2>7, <2>8, <2>9
      <3>2. l.submitted <= 1 /\ (l.submitted = 1 <=> (f.submitted \/ b))
        BY <2>5, <2>6, <2>7, <2>8, <2>9
      <3> QED BY <2>4, <2>7, <2>9, <3>1, <3>2 DEF Counts, l
    <2>11. Agrees(n, l)
      <3>1. n.announced <=> l.announced = 1
        BY <2>5, <2>6, <2>7, <2>8, <2>9
      <3>2. n.submitted <=> l.submitted = 1
        BY <2>5, <2>6, <2>7, <2>8, <2>9
      <3>3. n.heard = l.heard
        BY <1>5, <2>4, <2>7 DEF l
      <3> QED BY <1>5, <2>9, <3>1, <3>2, <3>3 DEF Agrees
    <2> QED BY <1>5, <2>1, <2>10, <2>11 DEF l
  <1>8. Follow(m, P) <=> Follow(h, P)
    <2>1. P > 1 => P - 1 \in Plays
      BY <1>1, ReportingAssumption DEF Plays
    <2> QED BY <1>1, <1>6, <2>1 DEF Follow
  <1> QED BY <1>1, <1>4, <1>5, <1>6, <1>7, <1>8 DEF Loading

\* The report of its end settles what is loaded.
LEMMA Stops ==
    ASSUME NEW s, NEW P \in Nat, NEW key, NEW state, Past(s.plays, P), Loading(s, P, key, state),
           NEW c \in Reports, c.state = "stopped", Key(c) = key
    PROVE  Past(After(s, c).plays, P) /\ Idle(After(s, c), P)
  <1> DEFINE f == s.session
             h == s.plays
             g == SessionFrom(f, c)
             m == After(s, c).plays
  <1>1. /\ f \in Scrobbled /\ f # NoReport /\ Key(f) = Key(c) /\ ~Ends(f, c)
        /\ f.play \in Plays /\ h \in [Plays -> Listened] /\ P \in Plays /\ ~h[P].lost
        /\ f.play = P \/ h[f.play].lost
    <2>1. f \in Scrobbled /\ Key(f) = Key(c)
      BY DEF Loading
    <2>2. f # NoReport
      BY <2>1 DEF Scrobbled, Scrobbling, NoReport
    <2> QED BY <2>1, <2>2 DEF Loading, Past, Ends
  <1>2. m = Marked(h, f, c) /\ After(s, c).session = NoReport
    BY <1>1, ReportStep
  <1>3. g.play = f.play /\ g.heard = f.heard /\ g.announced = f.announced
        /\ g.submitted = f.submitted /\ g.state = "stopped"
    BY <1>1, SessionFields
  <1>4. Past(m, P)
    BY <1>1, <1>2, <1>3, PastKept
  <1>5. \A p \in Plays : m[p].lost = h[p].lost /\ m[p].heard = h[p].heard
    BY <1>1, ReportKeeps
  <1>6. ASSUME Follow(h, P)
        PROVE  Counts(m[P]) /\ (m[P].heard >= Threshold => m[P].submitted = 1)
    <2>1. f.play = P /\ Agrees(f, h[P]) /\ Counts(h[P])
      BY <1>6 DEF Loading
    <2>2. /\ m[P].submitted = Counted(h[P].submitted, Submits(g))
          /\ m[P].announced = Counted(h[P].announced, Announces(g))
      BY <1>1, <1>2, <1>3, <2>1, MarkedBy
    <2>3. /\ Submits(g) <=> ~f.submitted /\ f.heard >= Threshold
          /\ Announces(g) <=> FALSE
      BY <1>3 DEF Submits, Announces, Ready
    <2>4. h[P] \in Listened /\ m[P].heard = h[P].heard /\ Threshold \in Nat \ {0}
      BY <1>1, <1>5, ReportingAssumption
    <2>5. /\ h[P].announced \in 0 .. 2 /\ h[P].submitted \in 0 .. 2 /\ h[P].heard \in 0 .. Threshold
          /\ f.submitted \in BOOLEAN
      BY <1>1, <2>4 DEF Listened, Scrobbled
    <2>6. /\ h[P].announced <= 1 /\ (h[P].heard > 0 => h[P].announced = 1)
          /\ h[P].submitted <= 1 /\ (h[P].submitted = 1 => h[P].heard >= Threshold)
          /\ f.heard = h[P].heard /\ (f.submitted <=> h[P].submitted = 1)
      BY <2>1 DEF Agrees, Counts
    <2> DEFINE l == m[P]
    <2>7. /\ l.submitted = (IF ~f.submitted /\ f.heard >= Threshold THEN h[P].submitted + 1
                                                                   ELSE h[P].submitted)
          /\ l.announced = h[P].announced
      BY <2>2, <2>3, <2>5, <2>6 DEF Counted
    <2> HIDE DEF l
    <2>8. l.submitted <= 1 /\ (l.submitted = 1 <=> h[P].heard >= Threshold)
      BY <2>4, <2>5, <2>6, <2>7
    <2> QED BY <2>4, <2>6, <2>7, <2>8 DEF Counts, l
  <1>7. Follow(m, P) <=> Follow(h, P)
    <2>1. P > 1 => P - 1 \in Plays
      BY <1>1, ReportingAssumption DEF Plays
    <2> QED BY <1>1, <1>5, <2>1 DEF Follow
  <1> QED BY <1>2, <1>4, <1>6, <1>7 DEF Idle, Settled

\* No session is left, and none comes of a report of an end.
LEMMA StopsNothing ==
    ASSUME NEW s, NEW P \in Nat, Past(s.plays, P), Idle(s, P), NEW c \in Reports, c.state = "stopped"
    PROVE  Past(After(s, c).plays, P) /\ Idle(After(s, c), P)
  <1> DEFINE f == s.session
             h == s.plays
             g == SessionFrom(f, c)
             m == After(s, c).plays
  <1>1. f = NoReport /\ h \in [Plays -> Listened]
    BY DEF Idle, Past
  <1>2. g.heard = 0 /\ g.state = "stopped"
    BY <1>1, SessionFields
  <1>3. ~Submits(g) /\ ~Announces(g) /\ ~Ends(f, c)
    BY <1>1, <1>2, ReportingAssumption DEF Submits, Announces, Ends, Ready
  <1>4. m = Marked(h, f, c) /\ After(s, c).session = NoReport
    BY ReportStep
  <1>5. m = h
    BY <1>1, <1>3, <1>4, MarkedNothing
  <1> QED BY <1>4, <1>5 DEF Idle

\* What was lost stays as it is, whatever is reported of it, and whatever load
\* is begun.
LEMMA LostStep ==
    ASSUME NEW s, NEW P \in Nat, Past(s.plays, P), Lost(s, P), NEW c \in Reports, c.state # "none",
           c.play = P \/ c.state \in {"starting", "clear", "stopped"}
    PROVE  /\ After(s, c).plays = s.plays
           /\ c.play = P \/ c.state # "starting" => Lost(After(s, c), P)
  <1> DEFINE f == s.session
             h == s.plays
             g == SessionFrom(f, c)
             m == After(s, c).plays
  <1>1. /\ h \in [Plays -> Listened] /\ P \in Plays /\ h[P].lost /\ f \in Scrobbled \cup {NoReport}
        /\ f # NoReport => f.play \in Plays /\ h[f.play].lost
    BY DEF Past, Lost
  <1>2. CASE c.state = "clear"
    BY <1>2, ClearStep
  <1>3. CASE c.state # "clear"
    <2>1. m = Marked(h, f, c)
      BY <1>3, ReportStep
    <2>2. /\ g.state = c.state
          /\ (g.play \in Plays /\ h[g.play].lost)
               \/ (g.play = c.play /\ g.heard = 0 /\ c.play # P /\ c.state # "none")
      BY <1>1, SessionFields
    <2>3. Submits(g) \/ Announces(g) => g.play \in Plays /\ h[g.play].lost
      BY <1>3, <2>2, ReportingAssumption DEF Submits, Announces, Ready
    <2>4. m = h
      <3>1. Ends(f, c) => f.play \in Plays /\ h[f.play].lost
        BY <1>1 DEF Ends
      <3> QED BY <1>1, <2>1, <2>3, <3>1, MarkedNothing
    <2>5. CASE c.state = "stopped"
      BY <1>1, <1>3, <2>4, <2>5, ReportStep DEF Lost
    <2>6. CASE c.state # "stopped"
      <3>1. c.state \in Scrobbling
        BY <1>3, <2>6 DEF Reports, States, Scrobbling
      <3>2. After(s, c).session = Sent(g)
        BY <1>3, <2>6, ReportStep
      <3>3. Sent(g) \in Scrobbled /\ Sent(g).play = g.play
        BY <1>1, <3>1, SentFields
      <3>4. c.play = P => Lost(After(s, c), P)
        BY <1>1, <2>2, <2>4, <3>2, <3>3 DEF Lost
      <3> QED BY <2>4, <2>6, <3>1, <3>4 DEF Scrobbling
    <2> QED BY <2>5, <2>6
  <1> QED BY <1>2, <1>3

\* The first report of the next play.
LEMMA Begins ==
    ASSUME NEW s, NEW P \in Nat, P + 1 \in Plays, Over(s, P), NEW c \in Reports,
           c.state \in Scrobbling, c.play = P + 1
    PROVE  Past(After(s, c).plays, P + 1) /\ Loading(After(s, c), P + 1, Key(c), c.state)
  <1> DEFINE f == s.session
             h == s.plays
             g == SessionFrom(f, c)
             n == After(s, c).session
             m == After(s, c).plays
             Q == P + 1
  <1>1. /\ h \in [Plays -> Listened] /\ h[Q] = Unheard /\ f \in Scrobbled \cup {NoReport}
        /\ f # NoReport => f.play \in Plays /\ h[f.play].lost /\ P \in Plays /\ h[P].lost
        /\ Q \in Plays /\ Q \in Nat /\ c.state # "clear" /\ c.state # "stopped"
        /\ Threshold \in Nat \ {0}
    <2>1. Q > P
      OBVIOUS
    <2> HIDE DEF Q
    <2> QED BY <2>1, ReportingAssumption DEF Over, Past, Idle, Lost, Scrobbling, Q
  <1>2. ~h[Q].lost /\ h[Q].heard = 0 /\ h[Q].announced = 0 /\ h[Q].submitted = 0
    BY <1>1 DEF Unheard
  <1>3. m = Marked(h, f, c) /\ n = Sent(g)
    BY <1>1, ReportStep
  <1>4. /\ g.state = c.state /\ Key(g) = Key(c)
        /\ \/ f # NoReport /\ g.play = f.play
           \/ g.play = Q /\ g.heard = 0 /\ ~g.announced /\ ~g.submitted
    BY <1>1, SessionFields
  <1>5. \A p \in Plays : p < Q => Settled(h, p)
    <2>1. P \in Plays => Settled(h, P)
      BY DEF Over, Idle, Lost, Settled, Follow
    <2>2. \A p \in Plays : p < Q => p < P \/ p = P
      BY DEF Plays
    <2> QED BY <2>1, <2>2 DEF Over, Past
  <1>6. Past(h, Q)
    <2>1. \A p \in Plays : p > Q => h[p] = Unheard
      BY DEF Over, Past, Plays
    <2> HIDE DEF Q
    <2> QED BY <1>1, <1>5, <2>1 DEF Past
  <1> HIDE DEF Q
  <1>7. Past(m, Q)
    BY <1>1, <1>3, <1>4, <1>6, PastKept DEF Ends
  <1>8. \A p \in Plays : m[p].lost = h[p].lost /\ m[p].heard = h[p].heard
    BY <1>1, ReportKeeps
  <1>9. /\ n \in Scrobbled /\ n.state = c.state /\ Key(n) = Key(c) /\ n.heard = g.heard
        /\ n.play = g.play /\ n.announced = (g.announced \/ Announces(g))
        /\ n.submitted = (g.submitted \/ Submits(g))
    BY <1>1, <1>3, SentFields
  <1>10. ASSUME Follow(m, Q)
         PROVE  n.play = Q /\ Agrees(n, m[Q]) /\ Counts(m[Q])
    <2>1. f = NoReport
      <3>1. f # NoReport => Q > 1 /\ Q - 1 = P
        BY <1>1 DEF Q, Plays
      <3> QED BY <1>1, <1>8, <1>10, <3>1 DEF Follow
    <2>2. g.play = Q /\ g.heard = 0 /\ ~g.announced /\ ~g.submitted
      BY <1>4, <2>1
    <2>3. ~Submits(g) /\ (Announces(g) <=> c.state = "playing")
      BY <1>1, <1>4, <2>2 DEF Submits, Announces, Ready
    <2>4. /\ m[Q].submitted = Counted(h[Q].submitted, Submits(g))
          /\ m[Q].announced = Counted(h[Q].announced, Announces(g))
      <3>1. ~Ends(f, c)
        BY <2>1 DEF Ends
      <3>2. /\ Marked(h, f, c)[Q].submitted = Counted(h[Q].submitted, Submits(g))
            /\ Marked(h, f, c)[Q].announced = Counted(h[Q].announced, Announces(g))
        BY <1>1, <1>2, <2>2, <3>1, MarkedBy
      <3> QED BY <1>3, <3>2
    <2>5. m[Q].submitted = 0 /\ m[Q].announced = (IF c.state = "playing" THEN 1 ELSE 0) /\ m[Q].heard = 0
      BY <1>1, <1>2, <1>8, <2>3, <2>4 DEF Counted
    <2>6. n.heard = 0 /\ n.play = Q /\ n.announced = (c.state = "playing") /\ n.submitted = FALSE
      BY <1>9, <2>2, <2>3
    <2> DEFINE l == m[Q]
    <2> HIDE DEF l, m, n, g
    <2>7. l.submitted = 0 /\ (l.announced = 0 \/ l.announced = 1) /\ l.heard = 0
          /\ (l.announced = 1 <=> c.state = "playing")
      BY <2>5 DEF l
    <2>8. Counts(l)
      BY <1>1, <2>7 DEF Counts
    <2>9. (n.announced <=> c.state = "playing") /\ ~n.submitted /\ n.state = c.state /\ n.heard = 0
      BY <1>9, <2>6
    <2>10. Agrees(n, l)
      BY <1>1, <2>7, <2>9 DEF Agrees
    <2> QED BY <2>6, <2>8, <2>10 DEF l
  <1> QED BY <1>1, <1>2, <1>4, <1>7, <1>8, <1>9, <1>10 DEF Loading, Q

\* Nothing of the next play was heard when it begins.
LEMMA BeginsUnheard ==
    ASSUME NEW s, NEW P \in Nat, P + 1 \in Plays, Over(s, P), NEW c \in Reports, c.state # "clear"
    PROVE  After(s, c).plays[P + 1].heard = 0
  <1> DEFINE Q == P + 1
  <1>1. Q > P
    OBVIOUS
  <1> HIDE DEF Q
  <1>2. /\ s.plays \in [Plays -> Listened] /\ s.session \in Scrobbled \cup {NoReport}
        /\ s.plays[Q] = Unheard
    BY <1>1 DEF Over, Past, Idle, Lost, Q
  <1>3. After(s, c).plays[Q].heard = s.plays[Q].heard
    BY <1>2, ReportKeeps DEF Q
  <1> QED BY <1>2, <1>3 DEF Unheard, Q

-----------------------------------------------------------------------------
(* Reports one after the other.                                            *)

\* From s the thread comes to t when it receives the reports.
Leads(s, reports, t) ==
    \E run : /\ run[0] = s /\ run[Len(reports)] = t
             /\ \A i \in 1 .. Len(reports) : run[i] = After(run[i - 1], reports[i])

LEMMA LeadsNone ==
    ASSUME NEW s
    PROVE  Leads(s, <<>>, s) /\ \A t : Leads(s, <<>>, t) => t = s
  <1>1. [i \in {0} |-> s][0] = s /\ Len(<<>>) = 0 /\ 1 .. 0 = {}
    OBVIOUS
  <1> QED BY <1>1 DEF Leads

LEMMA LeadsOne ==
    ASSUME NEW s, NEW c
    PROVE  Leads(s, <<c>>, After(s, c))
  <1> DEFINE run == [i \in 0 .. 1 |-> IF i = 0 THEN s ELSE After(s, c)]
  <1>1. run[0] = s /\ run[1] = After(s, c) /\ Len(<<c>>) = 1 /\ <<c>>[1] = c
    OBVIOUS
  <1> HIDE DEF run
  <1>2. \A i \in 1 .. 1 : run[i] = After(run[i - 1], <<c>>[i])
    <2> SUFFICES ASSUME NEW i \in 1 .. 1 PROVE run[i] = After(run[i - 1], <<c>>[i])
      OBVIOUS
    <2>1. i = 1 /\ i - 1 = 0
      OBVIOUS
    <2> QED BY <1>1, <2>1
  <1> QED BY <1>1, <1>2 DEF Leads

LEMMA LeadsTwo ==
    ASSUME NEW s, NEW a, NEW b
    PROVE  Leads(s, <<a, b>>, After(After(s, a), b))
  <1> DEFINE t == After(s, a)
             u == After(t, b)
             run == [i \in 0 .. 2 |-> IF i = 0 THEN s ELSE IF i = 1 THEN t ELSE u]
  <1>1. /\ run[0] = s /\ run[1] = t /\ run[2] = u
        /\ Len(<<a, b>>) = 2 /\ <<a, b>>[1] = a /\ <<a, b>>[2] = b
    OBVIOUS
  <1> HIDE DEF run
  <1>2. \A i \in 1 .. 2 : run[i] = After(run[i - 1], <<a, b>>[i])
    <2> SUFFICES ASSUME NEW i \in 1 .. 2 PROVE run[i] = After(run[i - 1], <<a, b>>[i])
      OBVIOUS
    <2>1. CASE i = 1
      <3>1. i - 1 = 0
        BY <2>1
      <3> QED BY <1>1, <2>1, <3>1
    <2>2. CASE i = 2
      <3>1. i - 1 = 1
        BY <2>2
      <3> QED BY <1>1, <2>2, <3>1
    <2> QED BY <2>1, <2>2
  <1> QED BY <1>1, <1>2 DEF Leads

LEMMA LeadsOn ==
    ASSUME NEW a \in Seq(Reports), NEW b \in Seq(Reports), NEW s, NEW t, NEW u,
           Leads(s, a, t), Leads(t, b, u)
    PROVE  Leads(s, a \o b, u)
  <1>1. PICK r : /\ r[0] = s /\ r[Len(a)] = t
                 /\ \A i \in 1 .. Len(a) : r[i] = After(r[i - 1], a[i])
    BY DEF Leads
  <1>2. PICK q : /\ q[0] = t /\ q[Len(b)] = u
                 /\ \A i \in 1 .. Len(b) : q[i] = After(q[i - 1], b[i])
    BY DEF Leads
  <1> DEFINE n == Len(a)
             c == a \o b
             run == [i \in 0 .. Len(c) |-> IF i <= n THEN r[i] ELSE q[i - n]]
  <1>3. /\ n \in Nat /\ Len(b) \in Nat /\ Len(c) = n + Len(b)
        /\ \A i \in 1 .. n : c[i] = a[i]
        /\ \A i \in 1 .. Len(c) : i > n => i - n \in 1 .. Len(b) /\ c[i] = b[i - n]
    OBVIOUS
  <1> HIDE DEF n, c
  <1>4. run[0] = s
    BY <1>1, <1>3
  <1>5. run[Len(c)] = u
    <2>1. CASE Len(b) = 0
      BY <1>1, <1>2, <1>3, <2>1 DEF n
    <2>2. CASE Len(b) > 0
      BY <1>2, <1>3, <2>2
    <2> QED BY <1>3, <2>1, <2>2
  <1>6. ASSUME NEW i \in 1 .. Len(c)
        PROVE  run[i] = After(run[i - 1], c[i])
    <2>1. CASE i <= n
      <3>1. i \in 1 .. n /\ i - 1 \in 0 .. Len(c) /\ i \in 0 .. Len(c)
        BY <1>3, <2>1
      <3>2. run[i] = r[i] /\ run[i - 1] = r[i - 1]
        BY <1>3, <3>1
      <3> HIDE DEF run
      <3> QED BY <1>1, <1>3, <3>1, <3>2 DEF n
    <2>2. CASE i = n + 1
      <3>1. i - 1 \in 0 .. Len(c) /\ i \in 0 .. Len(c) /\ i - 1 = n /\ i - n = 1
        BY <1>3, <2>2
      <3>2. run[i] = q[1] /\ run[i - 1] = t
        BY <1>1, <1>3, <3>1 DEF n
      <3>3. c[i] = b[1] /\ 1 \in 1 .. Len(b)
        BY <1>3, <2>2, <3>1
      <3> HIDE DEF run
      <3> QED BY <1>2, <3>2, <3>3
    <2>3. CASE i > n + 1
      <3>1. /\ i - 1 \in 0 .. Len(c) /\ i \in 0 .. Len(c) /\ i - n \in 1 .. Len(b)
            /\ (i - 1) - n = (i - n) - 1 /\ i > n /\ i - 1 > n
        BY <1>3, <2>3
      <3>2. run[i] = q[i - n] /\ run[i - 1] = q[(i - n) - 1]
        BY <1>3, <3>1
      <3>3. c[i] = b[i - n]
        BY <1>3, <3>1
      <3> HIDE DEF run
      <3> QED BY <1>2, <3>1, <3>2, <3>3
    <2> QED BY <1>3, <2>1, <2>2, <2>3
  <1> HIDE DEF run
  <1> QED BY <1>4, <1>5, <1>6 DEF Leads, c

LEMMA LeadsTail ==
    ASSUME NEW c \in Seq(Reports), c # <<>>, NEW s, NEW t, Leads(s, c, t)
    PROVE  Leads(After(s, Head(c)), Tail(c), t)
  <1>1. PICK r : /\ r[0] = s /\ r[Len(c)] = t
                 /\ \A i \in 1 .. Len(c) : r[i] = After(r[i - 1], c[i])
    BY DEF Leads
  <1> DEFINE d == Tail(c)
             run == [i \in 0 .. Len(d) |-> r[i + 1]]
  <1>2. /\ Len(c) \in Nat \ {0} /\ Len(d) = Len(c) - 1 /\ Head(c) = c[1]
        /\ \A i \in 1 .. Len(d) : i + 1 \in 1 .. Len(c) /\ d[i] = c[i + 1]
    BY TailMoves
  <1> HIDE DEF d
  <1>3. r[1] = After(s, c[1])
    <2>1. 1 \in 1 .. Len(c) /\ 1 - 1 = 0
      BY <1>2
    <2> QED BY <1>1, <2>1
  <1>4. run[0] = After(s, Head(c)) /\ run[Len(d)] = t
    BY <1>1, <1>2, <1>3
  <1>5. ASSUME NEW i \in 1 .. Len(d)
        PROVE  run[i] = After(run[i - 1], d[i])
    <2>1. i \in 0 .. Len(d) /\ i - 1 \in 0 .. Len(d) /\ (i - 1) + 1 = i /\ (i + 1) - 1 = i
      BY <1>2
    <2>2. run[i] = r[i + 1] /\ run[i - 1] = r[i]
      BY <2>1
    <2> HIDE DEF run
    <2> QED BY <1>1, <1>2, <2>1, <2>2
  <1> HIDE DEF run
  <1> QED BY <1>4, <1>5 DEF Leads, d

\* A play is lost: what the thread does for the others is the same.
Mark == [Unheard EXCEPT !.lost = TRUE]
Without(h, P) == [p \in Plays |-> IF p = P THEN Mark ELSE h[p]]
Dropped(s, P) == [session |-> s.session, plays |-> Without(s.plays, P)]

LEMMA AfterDropped ==
    ASSUME NEW s, NEW P, NEW c
    PROVE  After(Dropped(s, P), c) = Dropped(After(s, c), P)
  <1>1. Mark.lost = TRUE
    BY DEF Mark, Unheard
  <1>2. CASE c.state = "clear"
    BY <1>2 DEF After, Dropped
  <1>3. CASE c.state # "clear"
    <2>1. Marked(Without(s.plays, P), s.session, c) = Without(Marked(s.plays, s.session, c), P)
      <3> DEFINE g == SessionFrom(s.session, c)
                 a(p) == p \in (IF Submits(g) THEN {g.play} ELSE {})
                                 \cup (IF Ends(s.session, c) THEN {s.session.play} ELSE {})
                 b(p) == p \in (IF Announces(g) THEN {g.play} ELSE {})
                 m(h) == [p \in Plays |->
                            IF h[p].lost THEN h[p] ELSE
                            [h[p] EXCEPT !.submitted = Counted(@, a(p)), !.announced = Counted(@, b(p))]]
      <3>1. \A h : Marked(h, s.session, c) = m(h)
        BY DEF Marked
      <3> HIDE DEF a, b
      <3>2. m(Without(s.plays, P)) = Without(m(s.plays), P)
        BY <1>1 DEF Without
      <3> QED BY <3>1, <3>2
    <2> QED BY <1>3, <2>1 DEF After, Dropped
  <1> QED BY <1>2, <1>3

LEMMA LeadsDropped ==
    ASSUME NEW c \in Seq(Reports), NEW s, NEW t, NEW P, Leads(s, c, t)
    PROVE  Leads(Dropped(s, P), c, Dropped(t, P))
  <1>1. PICK r : /\ r[0] = s /\ r[Len(c)] = t
                 /\ \A i \in 1 .. Len(c) : r[i] = After(r[i - 1], c[i])
    BY DEF Leads
  <1> DEFINE run == [i \in 0 .. Len(c) |-> Dropped(r[i], P)]
  <1>2. Len(c) \in Nat
    OBVIOUS
  <1>3. run[0] = Dropped(s, P) /\ run[Len(c)] = Dropped(t, P)
    BY <1>1, <1>2
  <1>4. ASSUME NEW i \in 1 .. Len(c)
        PROVE  run[i] = After(run[i - 1], c[i])
    <2>1. run[i] = Dropped(r[i], P) /\ run[i - 1] = Dropped(r[i - 1], P)
      BY <1>2
    <2> HIDE DEF run
    <2> QED BY <1>1, <2>1, AfterDropped
  <1> HIDE DEF run
  <1> QED BY <1>3, <1>4 DEF Leads

-----------------------------------------------------------------------------
(* What a command has to come to.                                          *)

Held == [session |-> fallback, plays |-> plays]
Foreseen ==
    /\ plays \in [Plays -> Listened]
    /\ \E t : Leads(Held, channel, t) /\ Heard(t, player)
ScrobbleInv == ~extended => StepInv /\ net = <<>> /\ report = NoReport /\ Foreseen

\* The reports of a command lead to what the controller shows after it.
Answers(s, reports, p) == \E u : Leads(s, reports, u) /\ Heard(u, p)

LEMMA SaysForeseen ==
    ASSUME StepInv, Foreseen, NEW p, NEW reports \in Seq(Reports), Sends(p, reports), plays' = plays,
           \A s : Heard(s, player) => Answers(s, reports, p)
    PROVE  Foreseen'
  <1>1. /\ channel \in Seq(Reports) /\ channel' = channel \o reports /\ player' = p
        /\ Held' = Held
    BY DEF StepInv, Typed, Sends, Held
  <1>2. PICK t : Leads(Held, channel, t) /\ Heard(t, player)
    BY DEF Foreseen
  <1>3. PICK u : Leads(t, reports, u) /\ Heard(u, p)
    BY <1>2 DEF Answers
  <1>4. Leads(Held, channel \o reports, u)
    BY <1>1, <1>2, <1>3, LeadsOn
  <1> QED BY <1>1, <1>3, <1>4 DEF Foreseen

LEMMA UnheardTyped == Unheard \in Listened
  <1>1. 0 \in 0 .. Threshold /\ 0 \in 0 .. 2
    BY ReportingAssumption
  <1> QED BY <1>1 DEF Unheard, Listened

LEMMA MarkTyped == Mark \in Listened /\ Mark.lost
  <1>1. \A l \in Listened : [l EXCEPT !.lost = TRUE] \in Listened /\ [l EXCEPT !.lost = TRUE].lost
    BY DEF Listened
  <1> QED BY <1>1, UnheardTyped DEF Mark

\* What is heard of a play that is lost.
LEMMA DroppedIsLost ==
    ASSUME NEW s, NEW q, Heard(s, q), q.play # 0
    PROVE  Past(Dropped(s, q.play).plays, q.play) /\ Lost(Dropped(s, q.play), q.play)
  <1> DEFINE P == q.play
             h == s.plays
             m == Without(h, P)
  <1>1. P \in Nat /\ P \in Plays /\ h \in [Plays -> Listened] /\ MaxPlays \in Nat
    BY ReportingAssumption DEF Heard, Steady, Past, Plays
  <1>2. Mark \in Listened /\ Mark.lost
    BY MarkTyped
  <1>3. m \in [Plays -> Listened] /\ m[P] = Mark /\ \A p \in Plays : p # P => m[p] = h[p]
    BY <1>1, <1>2 DEF Without
  <1>4. Dropped(s, P).plays = m /\ Dropped(s, P).session = s.session
    BY DEF Dropped
  <1> HIDE DEF m
  <1>5. Past(h, P)
    BY DEF Heard
  <1> HIDE DEF P
  <1>6. ASSUME NEW p \in Plays, p < P
        PROVE  Settled(m, p)
    <2>1. Settled(h, p) /\ p # P /\ (p > 1 => p - 1 \in Plays /\ p - 1 # P) /\ m[p] = h[p]
      BY <1>1, <1>3, <1>5, <1>6, ReportingAssumption DEF Past, Plays
    <2>2. p > 1 => m[p - 1] = h[p - 1]
      BY <1>3, <2>1
    <2> QED BY <2>1, <2>2 DEF Settled, Follow
  <1>7. \A p \in Plays : p > P => m[p] = Unheard
    BY <1>1, <1>3, <1>5 DEF Past, Plays
  <1>8. Past(m, P)
    BY <1>3, <1>6, <1>7 DEF Past
  <1>9. \/ s.session = NoReport
        \/ s.session \in Scrobbled /\ s.session.play \in Plays
           /\ (s.session.play = P \/ h[s.session.play].lost)
    BY DEF Heard, Lost, Loading, Idle, P
  <1>10. \/ s.session = NoReport
         \/ s.session \in Scrobbled /\ s.session.play \in Plays /\ m[s.session.play].lost
    <2>1. \A p \in Plays : p = P \/ h[p].lost => m[p].lost
      BY <1>2, <1>3
    <2> QED BY <1>9, <2>1
  <1>11. Lost(Dropped(s, P), P)
    BY <1>1, <1>2, <1>3, <1>4, <1>10 DEF Lost
  <1> QED BY <1>4, <1>8, <1>11 DEF P

LEMMA LosesForeseen ==
    ASSUME StepInv, Foreseen, ~extended, player.play # 0, NEW p, NEW reports \in Seq(Reports),
           NEW silent, Loses(p, reports, silent),
           \A s : Past(s.plays, player.play) /\ Lost(s, player.play) => Answers(s, reports, p)
    PROVE  Foreseen'
  <1> DEFINE P == player.play
  <1>1. PICK t : Leads(Held, channel, t) /\ Heard(t, player)
    BY DEF Foreseen
  <1>2. P \in Plays /\ plays \in [Plays -> Listened]
    BY <1>1 DEF Heard, Steady, Plays, Foreseen
  <1>3. /\ channel \in Seq(Reports) /\ channel' = channel \o reports /\ player' = p
        /\ fallback' = fallback
        /\ plays' = [plays EXCEPT ![P] = Mark]
    BY DEF StepInv, Typed, Sends, Loses, Mark
  <1>4. plays' = Without(plays, P)
    BY <1>2, <1>3 DEF Without
  <1>5. Held' = Dropped(Held, P)
    BY <1>3, <1>4 DEF Held, Dropped
  <1>6. Leads(Held', channel, Dropped(t, P))
    BY <1>1, <1>3, <1>5, LeadsDropped
  <1>7. Past(Dropped(t, P).plays, P) /\ Lost(Dropped(t, P), P)
    BY <1>1, DroppedIsLost
  <1>8. PICK u : Leads(Dropped(t, P), reports, u) /\ Heard(u, p)
    BY <1>7 DEF Answers
  <1>9. Leads(Held', channel \o reports, u)
    BY <1>3, <1>6, <1>8, LeadsOn
  <1>10. plays' \in [Plays -> Listened]
    BY <1>2, <1>3, MarkTyped
  <1> QED BY <1>3, <1>8, <1>9, <1>10 DEF Foreseen

-----------------------------------------------------------------------------
(* The reports that commands send.                                         *)

\* What a report of the controller's names.
LEMMA ReportFields ==
    ASSUME NEW q, Points(q), NEW state \in States
    PROVE  /\ Report(q, state) \in Reports /\ Report(q, state).state = state
           /\ Report(q, state).play = q.play
           /\ Key(Report(q, state)) = <<q.queue[q.index], q.index>>
           /\ Clear \in Reports /\ Clear.state = "clear"
  <1>1. Report(q, state).play = q.play
        /\ Key(Report(q, state)) = <<q.queue[q.index], q.index>>
    BY DEF Report, Key
  <1> QED BY <1>1, ReportTypes

\* Nothing, where the same or less is shown.
LEMMA AnswersNothing ==
    ASSUME NEW s, NEW p, Heard(s, p)
    PROVE  Answers(s, <<>>, p)
  BY LeadsNone DEF Answers

\* One report or two, or more after others.
LEMMA AnswersOne ==
    ASSUME NEW s, NEW c \in Reports, NEW p, Heard(After(s, c), p)
    PROVE  Answers(s, <<c>>, p)
  BY LeadsOne DEF Answers

LEMMA AnswersTwo ==
    ASSUME NEW s, NEW a \in Reports, NEW b \in Reports, NEW p, Heard(After(After(s, a), b), p)
    PROVE  Answers(s, <<a, b>>, p)
  BY LeadsTwo DEF Answers

LEMMA AnswersMore ==
    ASSUME NEW first \in Seq(Reports), NEW rest \in Seq(Reports), NEW s, NEW t, NEW p,
           Leads(s, first, t), Answers(t, rest, p)
    PROVE  Answers(s, first \o rest, p)
  <1>1. PICK u : Leads(t, rest, u) /\ Heard(u, p)
    BY DEF Answers
  <1> QED BY <1>1, LeadsOn DEF Answers

\* A session is over with the report of the end.
LEMMA EndsOver ==
    ASSUME NEW s, NEW q, Points(q), Heard(s, q)
    PROVE  Over(After(s, Report(q, "stopped")), q.play)
  <1> DEFINE c == Report(q, "stopped")
             P == q.play
  <1>1. /\ c \in Reports /\ c.state = "stopped" /\ c.play = P
        /\ Key(c) = <<q.queue[q.index], q.index>>
    BY ReportFields DEF States
  <1>2. P \in 0 .. MaxPlays /\ P \in Nat /\ Past(s.plays, P)
    BY ReportingAssumption DEF Heard, Steady
  <1> HIDE DEF c
  <1>3. CASE Lost(s, P)
    BY <1>1, <1>2, <1>3, LostStep DEF Over, c
  <1>4. CASE Loading(s, P, <<q.queue[q.index], q.index>>, q.status)
    BY <1>1, <1>2, <1>4, Stops DEF Over, c
  <1>5. CASE Idle(s, P)
    BY <1>1, <1>2, <1>5, StopsNothing DEF Over, c
  <1> QED BY <1>3, <1>4, <1>5 DEF Heard, c

\* Or it is over already.
LEMMA RestsOver ==
    ASSUME NEW s, NEW q, Heard(s, q), q.status \notin {"playing", "paused"}
    PROVE  Over(s, q.play)
  BY DEF Heard, Over, Steady

LEMMA OverIsHeard ==
    ASSUME NEW s, NEW q, Over(s, q.play), Steady(q), q.status \in {"stopped", "error"}
    PROVE  Heard(s, q)
  BY DEF Heard, Over

\* A play that was lost stays lost.
LEMMA LostOn ==
    ASSUME NEW s, NEW P \in Nat, Past(s.plays, P), Lost(s, P), NEW c \in Reports,
           c.state # "none", c.play = P \/ c.state \in {"clear", "stopped"}
    PROVE  Past(After(s, c).plays, P) /\ Lost(After(s, c), P)
  BY LostStep

LEMMA LostIsHeard ==
    ASSUME NEW s, NEW q, Steady(q), Past(s.plays, q.play), Lost(s, q.play)
    PROVE  Heard(s, q)
  BY DEF Heard

\* A report of what the controller shows of the play from then on.
LEMMA ShowsOn ==
    ASSUME NEW s, NEW q, Points(q), Heard(s, q), q.status \notin {"stopped", "error"},
           NEW p, Steady(p), p.status \in {"playing", "paused"},
           p.queue = q.queue, p.index = q.index, p.play = q.play,
           NEW state \in {"starting", "playing", "paused"}
    PROVE  LET u == After(s, Report(q, state)) IN
             /\ Past(u.plays, q.play)
             /\ Lost(u, q.play) \/ Loading(u, q.play, <<q.queue[q.index], q.index>>, state)
             /\ state = p.status => Heard(u, p)
  <1> DEFINE c == Report(q, state)
             P == q.play
  <1>1. /\ c \in Reports /\ c.state = state /\ c.play = P
        /\ Key(c) = <<q.queue[q.index], q.index>>
    BY ReportFields DEF States
  <1>2. P \in Nat /\ Past(s.plays, P)
    BY ReportingAssumption DEF Heard, Steady
  <1> HIDE DEF c
  <1>3. CASE Lost(s, P)
    BY <1>1, <1>2, <1>3, LostOn DEF c, Heard
  <1>4. CASE Loading(s, P, <<q.queue[q.index], q.index>>, q.status)
    BY <1>1, <1>2, <1>4, GoesOn DEF c, Heard, Scrobbling
  <1> QED BY <1>3, <1>4 DEF Heard

\* A load that works, and one that fails, of what comes after P.
LEMMA LoadAnswers ==
    ASSUME NEW s, NEW P \in Nat, P + 1 \in Plays, Over(s, P),
           NEW new, Points(new), new.play = P + 1, NEW state \in {"playing", "paused"},
           NEW p, Steady(p), p.play = new.play, p.queue = new.queue, p.index = new.index
    PROVE  /\ p.status = state => Answers(s, <<Report(new, "starting"), Report(new, state)>>, p)
           /\ p.status = "error" => Answers(s, <<Report(new, "starting"), Clear>>, p)
  <1> DEFINE a == Report(new, "starting")
             b == Report(new, state)
             key == <<new.queue[new.index], new.index>>
             Q == P + 1
  <1>1. /\ a \in Reports /\ a.state = "starting" /\ a.play = Q /\ Key(a) = key
        /\ b \in Reports /\ b.state = state /\ b.play = Q /\ Key(b) = key
        /\ Clear \in Reports /\ Clear.state = "clear" /\ state \in Scrobbling
        /\ a.state \in Scrobbling /\ Q \in Nat
    BY ReportFields DEF States, Scrobbling
  <1> HIDE DEF a, b, key
  <1> DEFINE t == After(s, a)
             u == After(t, b)
             v == After(t, Clear)
  <1>2. Past(t.plays, Q) /\ Loading(t, Q, key, "starting")
    BY <1>1, Begins
  <1> HIDE DEF t, Q
  <1>3. Past(u.plays, Q) /\ Loading(u, Q, key, state)
    BY <1>1, <1>2, GoesOn
  <1>4. p.status = state => Heard(u, p)
    BY <1>3 DEF Heard, Q, key
  <1>5. Past(v.plays, Q) /\ Idle(v, Q)
    <2>1. v.session = NoReport /\ v.plays = t.plays
      BY <1>1, ClearStep
    <2>2. Settled(t.plays, Q)
      <3> SUFFICES ASSUME Follow(t.plays, Q)
                   PROVE  Counts(t.plays[Q]) /\ (t.plays[Q].heard >= Threshold => t.plays[Q].submitted = 1)
        BY DEF Settled
      <3>1. /\ Counts(t.plays[Q]) /\ Agrees(t.session, t.plays[Q]) /\ t.session.state = "starting"
            /\ t.session.play = Q
        BY <1>2 DEF Loading
      <3>2. t.plays[Q].heard = 0
        BY <1>1, BeginsUnheard DEF t, Q
      <3> QED BY <3>1, <3>2, ReportingAssumption
    <2> QED BY <1>2, <2>1, <2>2 DEF Idle
  <1>6. p.status = "error" => Heard(v, p)
    BY <1>5 DEF Heard, Q
  <1>7. p.status = state => Answers(s, <<a, b>>, p)
    BY <1>1, <1>4, AnswersTwo DEF t
  <1>8. p.status = "error" => Answers(s, <<a, Clear>>, p)
    BY <1>1, <1>6, AnswersTwo DEF t
  <1> QED BY <1>7, <1>8 DEF a, b

-----------------------------------------------------------------------------
(* The commands again, for a server without the extension.                 *)

LEMMA Known ==
    ASSUME StepInv, Foreseen
    PROVE  /\ Steady(player) /\ player.play \in Nat
           /\ player.status # "stopped" => player.play # 0 /\ player.play \in Plays
           /\ \A s : Heard(s, player) /\ player.status = "interrupted" => Lost(s, player.play)
  <1>1. Steady(player)
    BY DEF Foreseen, Heard
  <1> QED BY <1>1, ReportingAssumption DEF Heard, Steady, Plays

\* What a command sends, where there is no extension.
LEMMA Sending ==
    ASSUME ~extended, NEW p, NEW reports
    PROVE  /\ Tells(p, reports) => Sends(p, reports) /\ plays' = plays
           /\ Spares(p, reports) => Sends(p, reports) /\ plays' = plays
  BY DEF Tells, Spares, Ended

\* Two reports of a play that was lost.
LEMMA LostTwo ==
    ASSUME NEW s, NEW P \in Nat, Past(s.plays, P), Lost(s, P),
           NEW a \in Reports, NEW b \in Reports, a.state # "none", b.state # "none",
           a.play = P \/ a.state \in {"clear", "stopped"},
           b.play = P \/ b.state \in {"clear", "stopped"},
           NEW p, Steady(p), p.play = P
    PROVE  Answers(s, <<a, b>>, p)
  <1> DEFINE t == After(s, a)
  <1>1. Past(t.plays, P) /\ Lost(t, P)
    BY LostOn
  <1> HIDE DEF t
  <1>2. Past(After(t, b).plays, P) /\ Lost(After(t, b), P)
    BY <1>1, LostOn
  <1> QED BY <1>2, LostIsHeard, AnswersTwo DEF t

\* A load, after reports with which what was loaded is over; or the track that
\* is loaded, and was interrupted, once more.
LEMMA LoadForeseen ==
    ASSUME StepInv, Foreseen, ~extended, NEW p \in Players, p.play = player.play,
           NEW i \in DOMAIN p.queue, NEW autoplay \in BOOLEAN, NEW before \in Seq(Reports),
           Load(p, i, autoplay, before),
           \/ \A s : Heard(s, player) => \E u : Leads(s, before, u) /\ Over(u, player.play)
           \/ before = <<>> /\ player.status = "interrupted" /\ i = player.index
    PROVE  Foreseen'
  <1> DEFINE P == player.play
             again == before = <<>> /\ player.status = "interrupted" /\ i = player.index
             play == IF again THEN p.play ELSE p.play + 1
             new == [p EXCEPT !.index = i, !.play = play, !.resume = "none"]
             state == IF autoplay THEN "playing" ELSE "paused"
             loaded == [new EXCEPT !.status = state, !.attempts = 0, !.plan = NoPlan]
             failed == [new EXCEPT !.status = "error"]
             starting == Report(new, "starting")
             shown == Report(new, state)
  <1>1. /\ new \in Players /\ new.index = i /\ new.queue = p.queue /\ new.play = play
        /\ new.resume = "none" /\ state \in {"playing", "paused"} /\ play \in Nat /\ P \in Nat
    <2>1. p.play \in Nat /\ i \in Nat /\ play \in Nat
      BY DEF Players
    <2> HIDE DEF play
    <2>2. new \in Players /\ new.index = i /\ new.queue = p.queue /\ new.play = play /\ new.resume = "none"
      BY <2>1 DEF Players
    <2> QED BY <2>1, <2>2
  <1>2. /\ new.play \in Plays
        /\ \/ Tells(loaded, before \o <<starting, shown>>)
           \/ ~again /\ Tells(failed, before \o <<starting, Clear>>)
           \/ again /\ Loses(failed, <<starting, Clear>>, FALSE)
    BY DEF Load
  <1>3. play = IF again THEN P ELSE P + 1
    OBVIOUS
  <1> HIDE DEF new, play, state, again, P
  <1>4. /\ Points(new)
        /\ loaded.play = play /\ loaded.status = state /\ loaded.index = new.index
        /\ loaded.queue = new.queue /\ loaded.resume = "none" /\ loaded.plan = NoPlan
        /\ failed.play = play /\ failed.status = "error" /\ failed.index = new.index
        /\ failed.queue = new.queue /\ failed.resume = "none"
    BY <1>1 DEF Points, Players, NoPlan
  <1>5. Steady(loaded) /\ Steady(failed)
    BY <1>1, <1>2, <1>4, ReportingAssumption DEF Steady, Plays
  <1> HIDE DEF loaded, failed
  <1>6. /\ starting \in Reports /\ starting.state = "starting" /\ starting.play = play
        /\ shown \in Reports /\ shown.state = state /\ shown.play = play
        /\ Clear \in Reports /\ Clear.state = "clear" /\ Clear # NoReport
    BY <1>1, <1>4, ReportFields DEF States, Clear, NoReport
  <1>7. <<starting, shown>> \in Seq(Reports) /\ <<starting, Clear>> \in Seq(Reports)
    <2> HIDE DEF starting, shown
    <2> QED BY <1>6
  <1>8. CASE again
    <2>1. P # 0 /\ (\A s : Heard(s, player) => Lost(s, P) /\ Past(s.plays, P)) /\ play = P
      BY <1>3, <1>8, Known DEF again, P, Heard
    <2>2. before = <<>> /\ before \in Seq(Reports)
      BY <1>8 DEF again
    <2>3. ASSUME NEW s, Past(s.plays, P), Lost(s, P)
          PROVE  Answers(s, <<starting, shown>>, loaded) /\ Answers(s, <<starting, Clear>>, failed)
      <3> HIDE DEF starting, shown
      <3> QED BY <1>1, <1>4, <1>5, <1>6, <2>1, <2>3, LostTwo
    <2>4. \A s : Heard(s, player) => Answers(s, before \o <<starting, shown>>, loaded)
      <3> SUFFICES ASSUME NEW s, Heard(s, player)
                   PROVE  Answers(s, before \o <<starting, shown>>, loaded)
        OBVIOUS
      <3>1. Leads(s, before, s)
        BY <2>2, LeadsNone
      <3>2. Answers(s, <<starting, shown>>, loaded)
        BY <2>1, <2>3
      <3> HIDE DEF starting, shown
      <3> QED BY <1>7, <3>1, <3>2, AnswersMore
    <2>5. CASE Tells(loaded, before \o <<starting, shown>>)
      <3>1. before \o <<starting, shown>> \in Seq(Reports)
        BY <1>7, <2>2
      <3> HIDE DEF starting, shown
      <3> QED BY <2>4, <2>5, <3>1, Sending, SaysForeseen
    <2>6. CASE Loses(failed, <<starting, Clear>>, FALSE)
      <3> HIDE DEF starting, shown
      <3> QED BY <1>7, <2>1, <2>3, <2>6, LosesForeseen DEF P
    <2> QED BY <1>2, <1>8, <2>5, <2>6
  <1>9. CASE ~again
    <2>1. \A s : Heard(s, player) => \E u : Leads(s, before, u) /\ Over(u, P)
      BY <1>9 DEF again, P
    <2>2. P + 1 \in Plays /\ new.play = P + 1 /\ play = P + 1
      BY <1>1, <1>2, <1>3, <1>9
    <2>3. ASSUME NEW s, Heard(s, player)
          PROVE  /\ Answers(s, before \o <<starting, shown>>, loaded)
                 /\ Answers(s, before \o <<starting, Clear>>, failed)
      <3>1. PICK u : Leads(s, before, u) /\ Over(u, P)
        BY <2>1, <2>3
      <3>2. Answers(u, <<starting, shown>>, loaded)
        BY <1>1, <1>4, <1>5, <2>2, <3>1, LoadAnswers
      <3>3. Answers(u, <<starting, Clear>>, failed)
        BY <1>1, <1>4, <1>5, <2>2, <3>1, LoadAnswers
      <3> HIDE DEF starting, shown
      <3> QED BY <1>7, <3>1, <3>2, <3>3, AnswersMore
    <2>4. before \o <<starting, shown>> \in Seq(Reports) /\ before \o <<starting, Clear>> \in Seq(Reports)
      <3> HIDE DEF starting, shown
      <3> QED BY <1>7
    <2> HIDE DEF starting, shown
    <2> QED BY <1>2, <1>9, <2>3, <2>4, Sending, SaysForeseen
  <1> QED BY <1>8, <1>9

\* What is loaded is over with the reports of its end, if there is one to report.
LEMMA StopsOver ==
    ASSUME StepInv, Foreseen, NEW s, Heard(s, player)
    PROVE  /\ \E u : Leads(s, StopReport, u) /\ Over(u, player.play)
           /\ \E u : Leads(s, StopReports, u) /\ Over(u, player.play)
           /\ StopReport \in Seq(Reports) /\ StopReports \in Seq(Reports)
  <1> DEFINE r == Report(player, "stopped")
             u == After(s, r)
             v == After(u, Clear)
  <1>1. Points(player) /\ Clear \in Reports /\ Clear.state = "clear"
    BY Shown
  <1>2. Over(u, player.play)
    BY <1>1, EndsOver
  <1>3. Over(v, player.play)
    BY <1>1, <1>2, ClearStep
  <1>4. Leads(s, <<r>>, u) /\ Leads(s, <<r, Clear>>, v)
    BY LeadsOne, LeadsTwo
  <1>5. StopReports = <<r, Clear>> /\ (player.status \in Loaded => StopReport = <<r>>)
        /\ (player.status \notin Loaded => StopReport = <<>>)
    BY DEF StopReports, StopReport
  <1>6. player.status \notin Loaded => Leads(s, StopReport, s) /\ Over(s, player.play)
    BY <1>5, LeadsNone, RestsOver DEF Loaded
  <1> HIDE DEF u, v
  <1> QED BY <1>2, <1>3, <1>4, <1>5, <1>6, Shown

\* Reports after which a play that was lost still is, and no other has begun.
LostBy(reports, P) ==
    \A s : Past(s.plays, P) /\ Lost(s, P) =>
      \E u : Leads(s, reports, u) /\ Past(u.plays, P) /\ Lost(u, P)

LEMMA LostByMore ==
    ASSUME NEW P, NEW a \in Seq(Reports), NEW b \in Seq(Reports), LostBy(a, P), LostBy(b, P)
    PROVE  LostBy(a \o b, P)
  <1> SUFFICES ASSUME NEW s, Past(s.plays, P), Lost(s, P)
               PROVE  \E u : Leads(s, a \o b, u) /\ Past(u.plays, P) /\ Lost(u, P)
    BY DEF LostBy
  <1>1. PICK t : Leads(s, a, t) /\ Past(t.plays, P) /\ Lost(t, P)
    BY DEF LostBy
  <1>2. PICK u : Leads(t, b, u) /\ Past(u.plays, P) /\ Lost(u, P)
    BY <1>1 DEF LostBy
  <1> QED BY <1>1, <1>2, LeadsOn

LEMMA LostByThese ==
    ASSUME NEW P \in Nat
    PROVE  /\ LostBy(<<>>, P) /\ LostBy(<<Clear>>, P)
           /\ \A r \in Reports : r.state \in {"starting", "stopped"} => LostBy(<<r, Clear>>, P)
           /\ \A r \in Reports : r.state = "stopped" => LostBy(<<Clear, r>>, P)
  <1>1. Clear.state = "clear" /\ Clear \in Reports
    BY DEF Clear, Reports, States
  <1>2. LostBy(<<>>, P)
    BY LeadsNone DEF LostBy
  <1>3. LostBy(<<Clear>>, P)
    BY <1>1, LeadsOne, LostOn DEF LostBy
  <1>4. ASSUME NEW r \in Reports, r.state \in {"starting", "stopped"}, NEW s, Past(s.plays, P), Lost(s, P)
        PROVE  \E u : Leads(s, <<r, Clear>>, u) /\ Past(u.plays, P) /\ Lost(u, P)
    <2> DEFINE t == After(s, r)
               u == After(t, Clear)
    <2>1. t.plays = s.plays
      BY <1>4, LostStep
    <2>2. u.plays = t.plays /\ u.session = NoReport
      BY <1>1, ClearStep
    <2>3. Past(u.plays, P) /\ Lost(u, P)
      <3> HIDE DEF t, u
      <3> QED BY <1>4, <2>1, <2>2 DEF Lost
    <2> QED BY <2>3, LeadsTwo
  <1>5. ASSUME NEW r \in Reports, r.state = "stopped", NEW s, Past(s.plays, P), Lost(s, P)
        PROVE  \E u : Leads(s, <<Clear, r>>, u) /\ Past(u.plays, P) /\ Lost(u, P)
    <2> DEFINE t == After(s, Clear)
    <2>1. Past(t.plays, P) /\ Lost(t, P)
      BY <1>1, <1>5, LostOn
    <2> HIDE DEF t
    <2>2. Past(After(t, r).plays, P) /\ Lost(After(t, r), P)
      BY <1>5, <2>1, LostOn
    <2> QED BY <2>2, LeadsTwo DEF t
  <1> QED BY <1>2, <1>3, <1>4, <1>5 DEF LostBy

\* A command after which its play is lost, and no other has begun.
LEMMA LostForeseen ==
    ASSUME StepInv, Foreseen, ~extended, player.play # 0, NEW p, Steady(p), p.play = player.play,
           NEW reports \in Seq(Reports), LostBy(reports, player.play),
           NEW silent, Loses(p, reports, silent)
    PROVE  Foreseen'
  <1>1. ASSUME NEW s, Past(s.plays, player.play), Lost(s, player.play)
        PROVE  Answers(s, reports, p)
    BY <1>1, LostIsHeard DEF LostBy, Answers
  <1> QED BY <1>1, LosesForeseen

\* A command that sends nothing, or that the session is dropped, when there is
\* no session to come.
LEMMA SpareForeseen ==
    ASSUME StepInv, Foreseen, ~extended, player.status \in {"stopped", "error"},
           NEW p, Steady(p), p.play = player.play, p.status \in {"stopped", "error"},
           NEW reports \in {<<>>, <<Clear>>}, Spares(p, reports)
    PROVE  Foreseen'
  <1>1. Clear.state = "clear" /\ Clear \in Reports /\ <<>> \in Seq(Reports) /\ <<Clear>> \in Seq(Reports)
    BY Shown
  <1>2. ASSUME NEW s, Heard(s, player)
        PROVE  Answers(s, reports, p)
    <2>1. Over(s, p.play)
      BY <1>2, RestsOver
    <2>2. Answers(s, <<>>, p)
      BY <2>1, OverIsHeard, AnswersNothing
    <2>3. Answers(s, <<Clear>>, p)
      BY <1>1, <2>1, ClearStep, OverIsHeard, AnswersOne
    <2> QED BY <2>2, <2>3
  <1>3. reports \in Seq(Reports)
    BY <1>1
  <1> QED BY <1>2, <1>3, Sending, SaysForeseen

\* A reload: of what is loaded, whose session goes on; or after one that was
\* dropped; or it fails.
LEMMA ReloadForeseen ==
    ASSUME StepInv, Foreseen, ~extended, player.play # 0,
           NEW i \in Nat, NEW autoplay \in BOOLEAN, NEW before \in {<<>>, <<Clear>>},
           NEW kept \in BOOLEAN, NEW attempts \in Nat, NEW failed,
           Steady(failed.player), failed.player.play = player.play,
           failed.reports \in {<<>>, <<Clear>>, <<Report(player, "stopped"), Clear>>},
           kept => i = player.index /\ player.status \in {"playing", "paused"},
           Reload(i, autoplay, before, kept, attempts, failed)
    PROVE  Foreseen'
  <1> DEFINE P == player.play
             play == IF i = player.index THEN player.play ELSE player.play + 1
             new == [player EXCEPT !.index = i, !.resume = "none", !.play = play]
             state == IF autoplay THEN "playing" ELSE "paused"
             loaded == [new EXCEPT !.status = state, !.attempts = attempts, !.plan = NoPlan]
             starting == Report(new, "starting")
             shown == Report(new, state)
             present == i \in DOMAIN player.queue
             told1 == IF present THEN <<starting, Clear>> ELSE <<>>
  <1>1. /\ player \in Players /\ Points(player) /\ P \in Nat /\ play \in Nat
        /\ new \in Players /\ new.index = i /\ new.queue = player.queue /\ new.play = play
        /\ new.resume = "none" /\ state \in {"playing", "paused"}
    <2>1. player \in Players /\ Points(player)
      BY DEF StepInv, Typed, Points
    <2>2. play \in Nat /\ P \in Nat
      BY <2>1 DEF Players
    <2> HIDE DEF play
    <2>3. new \in Players /\ new.index = i /\ new.queue = player.queue /\ new.play = play
          /\ new.resume = "none"
      BY <2>1, <2>2 DEF Players
    <2> QED BY <2>1, <2>2, <2>3
  <1>2. /\ new.play \in Plays
        /\ \/ present /\ kept /\ Tells(loaded, <<starting, shown>>)
           \/ present /\ ~kept /\ Loses(loaded, before \o <<starting, shown>>, FALSE)
           \/ Loses(failed.player, before \o told1 \o failed.reports,
                    failed.player.status \in Loaded)
    BY DEF Reload
  <1>3. play = IF i = player.index THEN P ELSE P + 1
    OBVIOUS
  <1> HIDE DEF new, play, state, P
  <1>4. /\ loaded.play = play /\ loaded.status = state /\ loaded.index = i
        /\ loaded.queue = player.queue /\ loaded.resume = "none" /\ loaded.plan = NoPlan
        /\ present => Points(new)
    BY <1>1 DEF Points, Players, NoPlan
  <1>5. Steady(loaded)
    BY <1>1, <1>2, <1>4, ReportingAssumption DEF Steady, Plays
  <1> HIDE DEF loaded
  <1>6. /\ Clear \in Reports /\ Clear.state = "clear" /\ <<>> \in Seq(Reports)
        /\ <<Clear>> \in Seq(Reports) /\ before \in Seq(Reports)
        /\ Report(player, "stopped") \in Reports /\ Report(player, "stopped").state = "stopped"
        /\ <<Report(player, "stopped"), Clear>> \in Seq(Reports) /\ failed.reports \in Seq(Reports)
    <2> DEFINE r == Report(player, "stopped")
    <2>1. r \in Reports /\ r.state = "stopped" /\ Clear \in Reports /\ Clear.state = "clear"
      BY Shown
    <2> HIDE DEF r
    <2>2. <<>> \in Seq(Reports) /\ <<Clear>> \in Seq(Reports) /\ <<r, Clear>> \in Seq(Reports)
      BY <2>1
    <2>3. before \in Seq(Reports) /\ failed.reports \in Seq(Reports)
      BY <2>2 DEF r
    <2> QED BY <2>1, <2>2, <2>3 DEF r
  <1>7. present => /\ starting \in Reports /\ starting.state = "starting" /\ starting.play = play
                   /\ shown \in Reports /\ shown.state = state /\ shown.play = play
                   /\ Key(starting) = <<player.queue[i], i>> /\ Key(shown) = <<player.queue[i], i>>
    BY <1>1, <1>4, ReportFields DEF States
  <1> HIDE DEF starting, shown
  <1>8. LostBy(before, P) /\ LostBy(failed.reports, P)
    BY <1>1, <1>6, LostByThese
  <1>9. CASE present /\ kept /\ Tells(loaded, <<starting, shown>>)
    <2>1. ASSUME NEW s, Heard(s, player)
          PROVE  Answers(s, <<starting, shown>>, loaded)
      <3> DEFINE key == <<player.queue[i], i>>
                 t == After(s, starting)
                 u == After(t, shown)
      <3>1. play = P /\ i = player.index /\ Past(s.plays, P)
            /\ (Lost(s, P) \/ Loading(s, P, key, player.status))
        BY <1>3, <1>9, <2>1 DEF Heard, P
      <3>2. starting.state \in Scrobbling /\ shown.state \in Scrobbling
        BY <1>1, <1>7, <1>9 DEF Scrobbling
      <3> HIDE DEF key
      <3>3. Past(t.plays, P) /\ (Lost(t, P) \/ Loading(t, P, key, starting.state))
        BY <1>1, <1>7, <1>9, <3>1, <3>2, LostOn, GoesOn DEF key
      <3> HIDE DEF t
      <3>4. Past(u.plays, P) /\ (Lost(u, P) \/ Loading(u, P, key, state))
        BY <1>1, <1>7, <1>9, <3>1, <3>2, <3>3, LostOn, GoesOn DEF key
      <3> HIDE DEF u
      <3>5. Heard(u, loaded)
        BY <1>1, <1>4, <1>5, <3>1, <3>4 DEF Heard, key
      <3> QED BY <1>7, <1>9, <3>5, AnswersTwo DEF t, u
    <2>2. <<starting, shown>> \in Seq(Reports)
      BY <1>7, <1>9
    <2> QED BY <1>9, <2>1, <2>2, Sending, SaysForeseen
  <1>10. CASE present /\ ~kept /\ Loses(loaded, before \o <<starting, shown>>, FALSE)
    <2>1. <<starting, shown>> \in Seq(Reports)
      BY <1>7, <1>10
    <2>2. ASSUME NEW s, Past(s.plays, P), Lost(s, P)
          PROVE  Answers(s, before \o <<starting, shown>>, loaded)
      <3>1. PICK t : Leads(s, before, t) /\ Past(t.plays, P) /\ Lost(t, P)
        BY <1>8, <2>2 DEF LostBy
      <3>2. CASE i = player.index
        <4>1. Answers(t, <<starting, shown>>, loaded)
          BY <1>1, <1>3, <1>4, <1>5, <1>7, <1>10, <3>1, <3>2, LostTwo
        <4> QED BY <1>6, <2>1, <3>1, <4>1, AnswersMore
      <3>3. CASE i # player.index
        <4>1. Over(t, P) /\ P + 1 \in Plays /\ new.play = P + 1
          BY <1>1, <1>2, <1>3, <3>1, <3>3, Known DEF Over, P, Steady
        <4>2. Answers(t, <<starting, shown>>, loaded)
          BY <1>1, <1>4, <1>5, <1>10, <4>1, LoadAnswers DEF starting, shown
        <4> QED BY <1>6, <2>1, <3>1, <4>2, AnswersMore
      <3> QED BY <3>2, <3>3
    <2>3. before \o <<starting, shown>> \in Seq(Reports)
      BY <1>6, <2>1
    <2> QED BY <1>10, <2>2, <2>3, LosesForeseen DEF P
  <1>11. CASE Loses(failed.player, before \o told1 \o failed.reports,
                    failed.player.status \in Loaded)
    <2>1. told1 \in Seq(Reports) /\ LostBy(told1, P)
      <3>1. present => <<starting, Clear>> \in Seq(Reports) /\ LostBy(<<starting, Clear>>, P)
        BY <1>1, <1>6, <1>7, LostByThese
      <3> QED BY <1>1, <1>6, <3>1, LostByThese
    <2> HIDE DEF told1
    <2>2. before \o told1 \in Seq(Reports) /\ LostBy(before \o told1, P)
      BY <1>6, <1>8, <2>1, LostByMore
    <2>3. before \o told1 \o failed.reports \in Seq(Reports)
          /\ LostBy(before \o told1 \o failed.reports, P)
      <3> DEFINE first == before \o told1
                 last == failed.reports
      <3>1. /\ first \in Seq(Reports) /\ LostBy(first, P)
            /\ last \in Seq(Reports) /\ LostBy(last, P)
        BY <1>6, <1>8, <2>2
      <3> HIDE DEF first, last
      <3>2. first \o last \in Seq(Reports) /\ LostBy(first \o last, P)
        BY <3>1, LostByMore
      <3> QED BY <3>2 DEF first, last
    <2> QED BY <1>11, <2>3, LostForeseen DEF P
  <1> QED BY <1>2, <1>9, <1>10, <1>11

\* One report, of what is loaded and was not over.
LEMMA ShowForeseen ==
    ASSUME StepInv, Foreseen, ~extended, player.status \notin {"stopped", "error"},
           NEW p, Steady(p), p.status \in {"playing", "paused"},
           p.queue = player.queue, p.index = player.index, p.play = player.play,
           Tells(p, <<Report(player, p.status)>>)
    PROVE  Foreseen'
  <1> DEFINE r == Report(player, p.status)
  <1>1. Points(player) /\ p.status \in States
    BY Shown DEF States
  <1>2. r \in Reports
    BY <1>1, ReportFields
  <1>3. ASSUME NEW s, Heard(s, player)
        PROVE  Answers(s, <<r>>, p)
    <2>1. Heard(After(s, r), p)
      BY <1>1, <1>3, ShowsOn
    <2> HIDE DEF r
    <2> QED BY <1>2, <2>1, AnswersOne
  <1> HIDE DEF r
  <1>4. <<r>> \in Seq(Reports)
    BY <1>2
  <1>5. Tells(p, <<r>>)
    BY DEF r
  <1> QED BY <1>3, <1>4, <1>5, Sending, SaysForeseen

LEMMA PlayForeseen ==
    ASSUME StepInv, Foreseen, ~extended, Play \/ PlayIndex \/ Pause
    PROVE  Foreseen'
  <1> DEFINE p == [player EXCEPT !.status = "playing", !.attempts = 0, !.plan = NoPlan]
             q == [player EXCEPT !.status = "paused", !.resume = "none"]
  <1>1. player \in Players /\ Points(player) /\ Steady(player) /\ <<>> \in Seq(Reports)
        /\ player.index \in DOMAIN player.queue
    BY Shown, Known DEF Points
  <1>2. /\ p.queue = player.queue /\ p.index = player.index /\ p.play = player.play
        /\ p.status = "playing" /\ p.resume = player.resume /\ p.plan = NoPlan
        /\ q.queue = player.queue /\ q.index = player.index /\ q.play = player.play
        /\ q.status = "paused" /\ q.resume = "none" /\ q.plan = player.plan
    BY <1>1 DEF Players
  <1> HIDE DEF p, q
  <1>3. CASE player.status = "paused" /\ Tells(p, <<Report(player, "playing")>>)
    <2>1. Steady(p)
      BY <1>1, <1>2, <1>3 DEF Steady
    <2> QED BY <1>2, <1>3, <2>1, ShowForeseen
  <1>4. CASE /\ player.status \in {"playing", "paused"} \/ player.resume # "none"
             /\ Tells(q, <<Report(player, "paused")>>)
    <2>1. player.status \in {"playing", "paused", "interrupted"}
      BY <1>1, <1>4 DEF Steady
    <2>2. Steady(q)
      BY <1>1, <1>2, <2>1 DEF Steady
    <2> QED BY <1>2, <1>4, <2>1, <2>2, ShowForeseen
  <1>5. CASE player.status \notin {"playing", "paused"} /\ Load(player, player.index, TRUE, <<>>)
    <2>1. \/ player.status = "interrupted"
          \/ \A s : Heard(s, player) => Leads(s, <<>>, s) /\ Over(s, player.play)
      BY <1>5, RestsOver, LeadsNone
    <2> QED BY <1>1, <1>5, <2>1, LoadForeseen
  <1>6. ASSUME NEW i \in DOMAIN player.queue, Load(player, i, TRUE, StopReport)
        PROVE  Foreseen'
    BY <1>1, <1>6, Shown, StopsOver, LoadForeseen
  <1> QED BY <1>3, <1>4, <1>5, <1>6 DEF Play, PlayIndex, Pause, p, q

LEMMA MoveForeseen ==
    ASSUME StepInv, Foreseen, ~extended, Move
    PROVE  Foreseen'
  <1> PICK i \in {player.index - 1, player.index + 1} \cap DOMAIN player.queue :
         LET moved == [player EXCEPT !.index = i, !.status = "stopped", !.resume = "none"] IN
         \/ player.status \in {"playing", "paused"} /\ Load(player, i, Autoplay, StopReport)
         \/ player.status \in {"stopped", "error"} /\ Spares(moved, <<>>)
         \/ player.status = "interrupted" /\ Loses(moved, <<>>, TRUE)
    BY DEF Move
  <1> DEFINE moved == [player EXCEPT !.index = i, !.status = "stopped", !.resume = "none"]
  <1>1. player \in Players /\ Steady(player) /\ Autoplay \in BOOLEAN /\ <<>> \in Seq(Reports)
    BY Shown, Known DEF Autoplay
  <1>2. /\ moved.play = player.play /\ moved.status = "stopped" /\ moved.resume = "none"
        /\ moved.plan = player.plan
    BY <1>1 DEF Players
  <1> HIDE DEF moved
  <1>3. Steady(moved)
    BY <1>1, <1>2 DEF Steady
  <1>4. CASE Load(player, i, Autoplay, StopReport)
    BY <1>1, <1>4, Shown, StopsOver, LoadForeseen
  <1>5. CASE player.status \in {"stopped", "error"} /\ Spares(moved, <<>>)
    BY <1>2, <1>3, <1>5, SpareForeseen
  <1>6. CASE player.status = "interrupted" /\ Loses(moved, <<>>, TRUE)
    BY <1>1, <1>2, <1>3, <1>6, Known, LostByThese, LostForeseen
  <1> QED BY <1>4, <1>5, <1>6 DEF moved

\* Playback stops, and the end is reported.
LEMMA EndForeseen ==
    ASSUME StepInv, Foreseen, ~extended, NEW p, Steady(p), p.play = player.play,
           p.status = "stopped", Tells(p, StopReports)
    PROVE  Foreseen'
  <1>1. ASSUME NEW s, Heard(s, player)
        PROVE  Answers(s, StopReports, p)
    BY <1>1, StopsOver, OverIsHeard DEF Answers
  <1> QED BY <1>1, Shown, Sending, SaysForeseen

LEMMA StopForeseen ==
    ASSUME StepInv, Foreseen, ~extended, Stop
    PROVE  Foreseen'
  <1> DEFINE p == [player EXCEPT !.status = "stopped", !.resume = "none", !.attempts = 0,
                                 !.plan = NoPlan]
  <1>1. p.play = player.play /\ p.status = "stopped" /\ p.resume = "none" /\ p.plan = NoPlan
    BY Shown DEF Players
  <1>2. Tells(p, StopReports)
    BY DEF Stop
  <1> HIDE DEF p
  <1>3. Steady(p)
    BY <1>1, Known DEF Steady
  <1> QED BY <1>1, <1>2, <1>3, EndForeseen

LEMMA SeekForeseen ==
    ASSUME StepInv, Foreseen, ~extended, Seek
    PROVE  Foreseen'
  <1> DEFINE failed == [player |-> player, reports |-> <<>>]
  <1>1. failed.player = player /\ failed.reports = <<>> /\ player.status \in {"playing", "paused"}
    BY DEF Seek
  <1>2. Steady(player) /\ player.play # 0 /\ Autoplay \in BOOLEAN /\ player.index \in Nat
    BY <1>1, Shown, Known DEF Autoplay, Players
  <1>3. CASE Tells(player, <<Report(player, player.status)>>)
    BY <1>1, <1>2, <1>3, ShowForeseen
  <1>4. CASE Reload(player.index, Autoplay, <<>>, TRUE, 0, failed)
    <2> HIDE DEF failed
    <2> QED BY <1>1, <1>2, <1>4, ReloadForeseen
  <1> QED BY <1>3, <1>4 DEF Seek

LEMMA RemoveForeseen ==
    ASSUME StepInv, Foreseen, ~extended, RemoveCurrent
    PROVE  Foreseen'
  <1> DEFINE rest == RemoveAt(player.queue, player.index)
             i == IF player.index > Len(rest) THEN Len(rest) ELSE player.index
             left == [player EXCEPT !.queue = rest]
             moved == [left EXCEPT !.index = i, !.status = "stopped"]
  <1>1. player.queue \in Seq(Songs) /\ Len(player.queue) > 1 /\ player.index \in 1 .. Len(player.queue)
    BY Shown DEF Points, Players, RemoveCurrent
  <1>2. rest \in Seq(Songs) /\ Len(rest) = Len(player.queue) - 1
    BY <1>1, Removed
  <1>3. \/ player.status \in Loaded /\ Load(left, i, Autoplay, StopReports)
        \/ player.status \notin Loaded /\ Spares(moved, <<>>)
    BY DEF RemoveCurrent
  <1> HIDE DEF rest
  <1>4. i \in DOMAIN rest /\ i \in Nat
    BY <1>1, <1>2
  <1> HIDE DEF i
  <1>5. /\ left \in Players /\ left.queue = rest /\ left.play = player.play
        /\ left.resume = player.resume /\ left.plan = player.plan
    BY <1>2, Shown DEF Players
  <1> HIDE DEF left
  <1>6. /\ moved.play = player.play /\ moved.resume = player.resume /\ moved.plan = player.plan
        /\ moved.status = "stopped"
    BY <1>5 DEF Players
  <1> HIDE DEF moved
  <1>7. CASE Load(left, i, Autoplay, StopReports)
    <2>1. Autoplay \in BOOLEAN
      BY DEF Autoplay
    <2> QED BY <1>4, <1>5, <1>7, <2>1, Shown, StopsOver, LoadForeseen
  <1>8. CASE player.status \notin Loaded /\ Spares(moved, <<>>)
    <2>1. player.status \in {"stopped", "error"}
      BY <1>8, Shown DEF Players, Statuses, Loaded
    <2>2. Steady(moved)
      BY <1>6, <2>1, Known DEF Steady
    <2> QED BY <1>6, <1>8, <2>1, <2>2, SpareForeseen
  <1> QED BY <1>3, <1>7, <1>8

LEMMA ShiftForeseen ==
    ASSUME StepInv, Foreseen, ~extended, ShiftCurrent
    PROVE  Foreseen'
  <1> DEFINE longer == [player EXCEPT !.queue = <<Head(@)>> \o @, !.index = @ + 1]
  <1>1. /\ longer.play = player.play /\ longer.resume = player.resume
        /\ longer.plan = player.plan /\ longer.status = player.status
    BY Shown DEF Players
  <1>2. \/ player.status = "stopped" /\ Spares(longer, <<>>)
        \/ player.status # "stopped" /\ Loses(longer, <<>>, stale)
    BY DEF ShiftCurrent
  <1> HIDE DEF longer
  <1>3. Steady(longer)
    BY <1>1, Known DEF Steady
  <1>4. CASE player.status = "stopped" /\ Spares(longer, <<>>)
    BY <1>1, <1>3, <1>4, SpareForeseen
  <1>5. CASE player.status # "stopped" /\ Loses(longer, <<>>, stale)
    BY <1>1, <1>3, <1>5, Shown, Known, LostByThese, LostForeseen
  <1> QED BY <1>2, <1>4, <1>5

LEMMA ReplaceForeseen ==
    ASSUME StepInv, Foreseen, ~extended, Replace
    PROVE  Foreseen'
  <1> DEFINE p == [player EXCEPT !.status = "stopped", !.resume = "none", !.attempts = 0,
                                 !.plan = NoPlan]
  <1>1. p.play = player.play /\ p.status = "stopped" /\ p.resume = "none" /\ p.plan = NoPlan
    BY Shown DEF Players
  <1>2. \/ player.status = "stopped" /\ Spares(p, <<Clear>>)
        \/ player.status # "stopped" /\ Loses(p, <<Clear>>, stale \/ player.status \in Loaded)
    BY DEF Replace
  <1> HIDE DEF p
  <1>3. Steady(p)
    BY <1>1, Known DEF Steady
  <1>4. <<Clear>> \in Seq(Reports)
    BY Shown
  <1>5. CASE player.status = "stopped" /\ Spares(p, <<Clear>>)
    BY <1>1, <1>3, <1>5, SpareForeseen
  <1>6. CASE player.status # "stopped" /\ Loses(p, <<Clear>>, stale \/ player.status \in Loaded)
    BY <1>1, <1>3, <1>4, <1>6, Known, LostByThese, LostForeseen
  <1> QED BY <1>2, <1>5, <1>6

LEMMA DeviceForeseen ==
    ASSUME StepInv, Foreseen, ~extended, ChangeDevice
    PROVE  Foreseen'
  <1> DEFINE error == [player EXCEPT !.status = "error", !.resume = "none"]
             failed == [player |-> error, reports |-> <<Clear>>]
             p == [player EXCEPT !.attempts = 0, !.plan = NoPlan]
  <1>1. /\ error.play = player.play /\ error.status = "error" /\ error.resume = "none"
        /\ error.plan = player.plan
        /\ p.play = player.play /\ p.resume = player.resume /\ p.plan = NoPlan
        /\ p.status = player.status /\ p.queue = player.queue /\ p.index = player.index
    BY Shown DEF Players
  <1>2. failed.player = error /\ failed.reports = <<Clear>>
    OBVIOUS
  <1>3. \/ player.status \in {"playing", "paused"}
           /\ Reload(player.index, Autoplay, <<Clear>>, FALSE, 0, failed)
        \/ player.status \notin {"playing", "paused"} /\ Spares(p, <<>>)
    BY DEF ChangeDevice
  <1> HIDE DEF error, failed, p
  <1>4. CASE player.status \in {"playing", "paused"}
             /\ Reload(player.index, Autoplay, <<Clear>>, FALSE, 0, failed)
    <2>1. Autoplay \in BOOLEAN /\ player.index \in Nat
      BY Shown DEF Autoplay, Players
    <2>2. player.play # 0 /\ Steady(error)
      BY <1>1, <1>4, Known DEF Steady
    <2> QED BY <1>1, <1>2, <1>4, <2>1, <2>2, ReloadForeseen
  <1>5. CASE player.status \notin {"playing", "paused"} /\ Spares(p, <<>>)
    <2>1. Steady(p)
      BY <1>1, Known DEF Steady
    <2>2. ASSUME NEW s, Heard(s, player)
          PROVE  Answers(s, <<>>, p)
      <3>1. Heard(s, p)
        BY <1>1, <1>5, <2>1, <2>2 DEF Heard
      <3> QED BY <3>1, AnswersNothing
    <2> QED BY <1>5, <2>2, Shown, Sending, SaysForeseen
  <1> QED BY <1>3, <1>4, <1>5

LEMMA TrackEndForeseen ==
    ASSUME StepInv, Foreseen, ~extended, TrackEnds
    PROVE  Foreseen'
  <1> DEFINE p == [player EXCEPT !.status = "stopped"]
  <1>1. /\ p.play = player.play /\ p.status = "stopped" /\ p.resume = player.resume
        /\ p.plan = player.plan /\ player.status = "playing"
    BY Shown DEF Players, TrackEnds
  <1>2. \/ player.index < Len(player.queue) /\ Load(player, player.index + 1, TRUE, StopReport)
        \/ Tells(p, StopReports)
    BY DEF TrackEnds
  <1> HIDE DEF p
  <1>3. CASE player.index < Len(player.queue) /\ Load(player, player.index + 1, TRUE, StopReport)
    <2>1. player.index + 1 \in DOMAIN player.queue
      BY <1>3, Shown DEF Points, Players
    <2> HIDE DEF StepInv
    <2> QED BY <1>3, <2>1, Shown, StopsOver, LoadForeseen
  <1>4. CASE Tells(p, StopReports)
    <2>1. Steady(p)
      BY <1>1, Known DEF Steady
    <2> QED BY <1>1, <1>4, <2>1, EndForeseen
  <1> QED BY <1>2, <1>3, <1>4

\* What was loaded is over, and the next begins with a report that it plays.
LEMMA TransitionForeseen ==
    ASSUME StepInv, Foreseen, ~extended, GaplessTransition
    PROVE  Foreseen'
  <1> DEFINE next == player.index + 1
             play == player.play + 1
             new == [player EXCEPT !.index = next, !.play = play]
             r == Report(new, "playing")
  <1>1. /\ player \in Players /\ player.status = "playing" /\ player.play \in Nat
        /\ next \in DOMAIN player.queue /\ next \in Nat /\ play \in Plays /\ play \in Nat
    <2>1. player \in Players /\ Points(player) /\ player.play \in Nat
      BY Shown, Known
    <2>2. player.status = "playing" /\ player.index < Len(player.queue) /\ player.play < MaxPlays
      BY DEF GaplessTransition
    <2>3. next \in DOMAIN player.queue /\ next \in Nat
      BY <2>1, <2>2 DEF Points, Players
    <2>4. play \in Plays /\ play \in Nat
      BY <2>1, <2>2, ReportingAssumption DEF Plays
    <2> QED BY <2>1, <2>2, <2>3, <2>4
  <1>2. Tells(new, StopReport \o <<r>>)
    BY DEF GaplessTransition
  <1>3. play = player.play + 1 /\ play # 0
    BY <1>1
  <1> HIDE DEF next, play
  <1>4. /\ new \in Players /\ new.queue = player.queue /\ new.index = next /\ new.play = play
        /\ new.status = "playing" /\ new.resume = player.resume /\ new.plan = player.plan
    BY <1>1 DEF Players
  <1> HIDE DEF new
  <1>5. Points(new) /\ Steady(new)
    <2>1. Points(new)
      BY <1>1, <1>4 DEF Points
    <2>2. Steady(new)
      BY <1>1, <1>3, <1>4, Known DEF Steady, Plays
    <2> QED BY <2>1, <2>2
  <1>6. r \in Reports /\ r.state = "playing" /\ r.play = play
        /\ Key(r) = <<new.queue[new.index], new.index>> /\ r.state \in Scrobbling
    BY <1>4, <1>5, ReportFields DEF States, Scrobbling
  <1> HIDE DEF r
  <1>7. ASSUME NEW s, Heard(s, player)
        PROVE  Answers(s, StopReport \o <<r>>, new)
    <2>1. PICK u : Leads(s, StopReport, u) /\ Over(u, player.play)
      BY <1>7, StopsOver
    <2>2. Past(After(u, r).plays, play) /\ Loading(After(u, r), play, Key(r), "playing")
      BY <1>1, <1>3, <1>6, <2>1, Begins
    <2>3. Heard(After(u, r), new)
      BY <1>4, <1>5, <1>6, <2>2 DEF Heard
    <2>4. <<r>> \in Seq(Reports) /\ StopReport \in Seq(Reports)
      BY <1>6, Shown
    <2> QED BY <1>6, <2>1, <2>3, <2>4, AnswersOne, AnswersMore
  <1>8. StopReport \o <<r>> \in Seq(Reports)
    BY <1>6, Shown
  <1> QED BY <1>2, <1>7, <1>8, Sending, SaysForeseen

LEMMA NativeForeseen ==
    ASSUME StepInv, Foreseen, ~extended, NativeState
    PROVE  Foreseen'
  <1> PICK status, resume :
        /\ Loses([player EXCEPT !.status = status, !.resume = resume], <<>>, TRUE)
        /\ resume # "none" => status = "interrupted"
        /\ player.plan = NoPlan /\ (player.status \in Loaded \/ player.resume # "none")
    BY DEF NativeState, Loaded
  <1> DEFINE p == [player EXCEPT !.status = status, !.resume = resume]
  <1>1. /\ p.play = player.play /\ p.status = status /\ p.resume = resume /\ p.plan = player.plan
    BY Shown DEF Players
  <1>2. player.play # 0
    BY Known DEF Steady, Loaded
  <1> HIDE DEF p
  <1>3. Steady(p)
    BY <1>1, <1>2, Known DEF Steady
  <1>4. Loses(p, <<>>, TRUE)
    BY DEF p
  <1> QED BY <1>1, <1>2, <1>3, <1>4, Shown, Known, LostByThese, LostForeseen

LEMMA ErrorForeseen ==
    ASSUME StepInv, Foreseen, ~extended, StreamError
    PROVE  Foreseen'
  <1> DEFINE plan == [index |-> player.index, autoplay |-> Autoplay, attempt |-> player.attempts + 1]
             p == [player EXCEPT !.status = "interrupted", !.resume = "none", !.plan = plan]
             q == [player EXCEPT !.status = "error", !.resume = "none"]
             r == Report(player, "stopped")
  <1>1. \/ Loses(p, <<Clear>>, TRUE)
        \/ Loses(q, <<Clear, r>>, FALSE)
    BY DEF StreamError
  <1>2. player.status \in Loaded
    BY DEF StreamError
  <1> HIDE DEF plan
  <1>3. /\ p.play = player.play /\ p.status = "interrupted" /\ p.resume = "none"
        /\ q.play = player.play /\ q.status = "error" /\ q.resume = "none"
    BY Shown DEF Players
  <1> HIDE DEF p, q
  <1>4. player.play # 0 /\ player.play \in Nat /\ Steady(p) /\ Steady(q)
    BY <1>2, <1>3, Known DEF Steady, Loaded
  <1>5. Clear \in Reports /\ r \in Reports /\ r.state = "stopped"
    BY Shown
  <1> HIDE DEF r
  <1>6. <<Clear>> \in Seq(Reports) /\ <<Clear, r>> \in Seq(Reports)
    BY <1>5
  <1> QED BY <1>1, <1>3, <1>4, <1>5, <1>6, LostByThese, LostForeseen

LEMMA RecoverForeseen ==
    ASSUME StepInv, Foreseen, ~extended, Recover
    PROVE  Foreseen'
  <1> DEFINE attempt == player.plan.attempt
             next == attempt + 1
             tried == [player EXCEPT !.attempts = attempt]
             over == [tried EXCEPT !.status = "error", !.plan = NoPlan]
             again == [tried EXCEPT !.status = "interrupted", !.plan.attempt = next]
             stops == <<Report(player, "stopped"), Clear>>
             failed == IF attempt = MaxAttempts THEN [player |-> over, reports |-> stops]
                                                ELSE [player |-> again, reports |-> <<>>]
  <1>1. /\ Reload(player.plan.index, player.plan.autoplay, <<>>, FALSE, attempt, failed)
        /\ player.plan # NoPlan
    BY DEF Recover
  <1>2. /\ player \in Players /\ attempt \in Nat /\ player.plan.index \in Nat
        /\ player.plan.autoplay \in BOOLEAN /\ Steady(player)
    BY Shown, Known DEF Players
  <1> HIDE DEF attempt, next
  <1>3. /\ tried \in Players /\ tried.play = player.play /\ tried.resume = player.resume
    BY <1>2 DEF Players
  <1> HIDE DEF tried
  <1>4. /\ over.play = player.play /\ over.resume = player.resume /\ over.status = "error"
        /\ over.plan = NoPlan
        /\ again.play = player.play /\ again.resume = player.resume /\ again.status = "interrupted"
    BY <1>3 DEF Players
  <1> HIDE DEF over, again
  <1>5. player.play # 0 /\ player.resume = "none"
    BY <1>1, <1>2 DEF Steady
  <1>6. Steady(over) /\ Steady(again)
    BY <1>2, <1>4, <1>5 DEF Steady
  <1> HIDE DEF stops
  <1>7. /\ failed.player \in {over, again} /\ failed.reports \in {<<>>, stops}
    OBVIOUS
  <1> HIDE DEF failed
  <1>8. /\ Steady(failed.player) /\ failed.player.play = player.play
        /\ failed.reports \in {<<>>, <<Clear>>, <<Report(player, "stopped"), Clear>>}
    BY <1>4, <1>6, <1>7 DEF stops
  <1> QED BY <1>1, <1>2, <1>5, <1>8, ReloadForeseen

-----------------------------------------------------------------------------
(* The thread.                                                             *)

\* What is received has been foreseen.
LEMMA ReceiveForeseen ==
    ASSUME StepInv, Foreseen, ~extended, Receive
    PROVE  Foreseen' /\ net' = net /\ report' = NoReport
  <1> DEFINE c == Head(channel)
  <1>1. /\ channel \in Seq(Reports) /\ channel # <<>> /\ channel' = Tail(channel)
        /\ player' = player /\ plays \in [Plays -> Listened]
    BY DEF Receive, StepInv, Typed, Foreseen
  <1>2. Held' = After(Held, c) /\ net' = net /\ report' = NoReport
    <2>1. CASE c.state = "clear"
      BY <2>1 DEF Receive, After, Held
    <2>2. CASE c.state # "clear"
      <3>1. Fallback(c)
        BY <2>2 DEF Receive
      <3>2. SessionOf(c) = SessionFrom(fallback, c) /\ (Finalizes(c) <=> Ends(fallback, c))
        BY DEF SessionOf, SessionFrom, Finalizes, Ends
      <3>3. plays' = Marked(plays, fallback, c) /\ net' = net /\ report' = NoReport
        BY <3>1, <3>2 DEF Fallback, Marked
      <3>4. fallback' = IF c.state = "stopped" THEN NoReport ELSE Sent(SessionFrom(fallback, c))
        BY <3>1, <3>2 DEF Fallback, Sent
      <3> QED BY <2>2, <3>3, <3>4 DEF After, Held
    <2> QED BY <2>1, <2>2
  <1>3. PICK t : Leads(Held, channel, t) /\ Heard(t, player)
    BY DEF Foreseen
  <1>4. Leads(Held', channel', t)
    BY <1>1, <1>2, <1>3, LeadsTail
  <1>5. plays' \in [Plays -> Listened]
    <2>1. c.state = "clear" => plays' = plays
      BY DEF Receive
    <2>2. c.state # "clear" => plays' = Marked(plays, fallback, c)
      BY <1>2 DEF Held, After
    <2> QED BY <1>1, <2>1, <2>2, MarkedKeeps
  <1> QED BY <1>1, <1>2, <1>3, <1>4, <1>5 DEF Foreseen

\* A heartbeat's time is heard by the session and of the play alike.
LEMMA TickForeseen ==
    ASSUME StepInv, Foreseen, ~extended, Tick
    PROVE  Foreseen'
  <1> DEFINE P == player.play
             f == fallback
             h == plays
  <1>1. /\ channel = <<>> /\ channel' = channel /\ player' = player /\ player.status = "playing"
        /\ plays' = IF h[P].lost THEN h ELSE [h EXCEPT ![P].heard = Longer(@)]
        /\ fallback' = IF f.state = "playing" THEN [f EXCEPT !.heard = Longer(@)] ELSE f
    BY DEF Tick
  <1>2. Heard(Held, player)
    <2>1. PICK t : Leads(Held, channel, t) /\ Heard(t, player)
      BY DEF Foreseen
    <2> QED BY <1>1, <2>1, LeadsNone
  <1>3. /\ P \in Plays /\ P \in Nat /\ Past(h, P) /\ Steady(player) /\ h \in [Plays -> Listened]
        /\ Threshold \in Nat \ {0}
    BY <1>1, <1>2, Known, ReportingAssumption DEF Heard, Held, Past
  <1>4. \A n \in 0 .. Threshold : Longer(n) \in 0 .. Threshold /\ Longer(n) >= n /\ Longer(n) > 0
    BY <1>3 DEF Longer
  <1>5. ASSUME f \in Scrobbled
        PROVE  /\ fallback' \in Scrobbled /\ fallback'.play = f.play /\ fallback'.state = f.state
               /\ fallback'.song = f.song /\ fallback'.index = f.index
               /\ fallback'.announced = f.announced /\ fallback'.submitted = f.submitted
               /\ f.state = "playing" => fallback'.heard = Longer(f.heard)
    <2>1. f.heard \in 0 .. Threshold
      BY <1>5 DEF Scrobbled
    <2>2. Longer(f.heard) \in 0 .. Threshold
      BY <1>4, <2>1
    <2> QED BY <1>1, <1>5, <2>2 DEF Scrobbled
  <1>6. f = NoReport => fallback' = f
    BY <1>1 DEF NoReport
  <1>7. CASE Lost(Held, P)
    <2>1. plays' = h /\ h[P].lost
      BY <1>1, <1>7 DEF Lost, Held
    <2>2. Lost(Held', P)
      BY <1>5, <1>6, <1>7, <2>1 DEF Lost, Held
    <2>3. Heard(Held', player')
      BY <1>1, <1>3, <2>1, <2>2 DEF Heard, Held
    <2>4. Leads(Held', channel', Held')
      BY <1>1, LeadsNone
    <2> QED BY <1>3, <2>1, <2>3, <2>4 DEF Foreseen
  <1>8. CASE Loading(Held, P, <<player.queue[player.index], player.index>>, "playing")
    <2> DEFINE n == Longer(h[P].heard)
               l == [h[P] EXCEPT !.heard = n]
    <2>1. /\ f \in Scrobbled /\ f.state = "playing" /\ f.play \in Plays /\ ~h[P].lost
          /\ Key(f) = <<player.queue[player.index], player.index>>
          /\ f.play = P \/ h[f.play].lost
          /\ Follow(h, P) => f.play = P /\ Agrees(f, h[P]) /\ Counts(h[P])
      BY <1>8 DEF Loading, Held
    <2>2. h[P] \in Listened /\ h[P].heard \in 0 .. Threshold
      BY <1>3 DEF Listened
    <2>3. n \in 0 .. Threshold /\ n >= h[P].heard /\ n > 0
      BY <1>4, <2>2
    <2>4. plays' = [h EXCEPT ![P] = l]
      BY <1>1, <2>1
    <2> HIDE DEF n
    <2>5. /\ l \in Listened /\ l.heard = n /\ l.lost = h[P].lost
          /\ l.announced = h[P].announced /\ l.submitted = h[P].submitted
      BY <2>2, <2>3 DEF Listened
    <2> HIDE DEF l
    <2>6. /\ plays' \in [Plays -> Listened] /\ plays'[P] = l
          /\ \A p \in Plays : (p # P => plays'[p] = h[p]) /\ plays'[p].lost = h[p].lost
      BY <1>3, <2>4, <2>5
    <2>7. Past(plays', P)
      <3>1. \A p \in Plays : p < P => Settled(plays', p)
        <4> SUFFICES ASSUME NEW p \in Plays, p < P PROVE Settled(plays', p)
          OBVIOUS
        <4>1. p # P /\ Settled(h, p)
          BY <1>3 DEF Past, Plays
        <4> QED BY <2>6, <4>1, SettledKept
      <3>2. \A p \in Plays : p > P => plays'[p] = Unheard
        BY <1>3, <2>6 DEF Past, Plays
      <3> QED BY <2>6, <3>1, <3>2 DEF Past
    <2>8. Follow(plays', P) => Follow(h, P)
      <3>1. P > 1 => P - 1 \in Plays
        BY <1>3, ReportingAssumption DEF Plays
      <3> QED BY <1>3, <2>6, <3>1 DEF Follow
    <2>9. ASSUME Follow(h, P)
          PROVE  fallback'.play = P /\ Agrees(fallback', l) /\ Counts(l)
      <3>1. f.play = P /\ Agrees(f, h[P]) /\ Counts(h[P])
        BY <2>1, <2>9
      <3>2. f.announced /\ h[P].announced = 1 /\ f.heard = h[P].heard
        BY <2>1, <3>1 DEF Agrees
      <3>3. Counts(l)
        BY <1>3, <2>2, <2>3, <2>5, <3>1, <3>2 DEF Counts
      <3>4. fallback'.heard = n /\ fallback'.announced = f.announced
            /\ fallback'.submitted = f.submitted /\ fallback'.state = "playing"
        BY <1>5, <2>1, <3>2 DEF n
      <3>5. Agrees(fallback', l)
        BY <2>5, <3>1, <3>2, <3>4 DEF Agrees
      <3> QED BY <1>5, <2>1, <3>1, <3>3, <3>5
    <2>10. Loading(Held', P, <<player.queue[player.index], player.index>>, "playing")
      <3>1. /\ fallback' \in Scrobbled /\ fallback'.play = f.play /\ fallback'.state = "playing"
            /\ Key(fallback') = Key(f)
        BY <1>5, <2>1 DEF Key
      <3> QED BY <1>3, <2>1, <2>6, <2>8, <2>9, <3>1 DEF Loading, Held
    <2>11. Heard(Held', player')
      BY <1>1, <1>3, <2>7, <2>10 DEF Heard, Held
    <2>12. Leads(Held', channel', Held')
      BY <1>1, LeadsNone
    <2> QED BY <2>6, <2>11, <2>12 DEF Foreseen
  <1> QED BY <1>1, <1>2, <1>7, <1>8 DEF Heard

-----------------------------------------------------------------------------
(* All steps, for a server without the extension.                          *)

LEMMA CommandsSend ==
    ASSUME Command \/ Native
    PROVE  \E p, reports : Sends(p, reports)
  <1>1. ASSUME NEW p, NEW reports, NEW silent,
               Tells(p, reports) \/ Loses(p, reports, silent) \/ Spares(p, reports)
        PROVE  \E q, r : Sends(q, r)
    BY <1>1 DEF Tells, Loses, Spares
  <1>2. ASSUME NEW p, NEW i, NEW autoplay, NEW before, Load(p, i, autoplay, before)
        PROVE  \E q, r : Sends(q, r)
    BY <1>1, <1>2 DEF Load
  <1>3. ASSUME NEW i, NEW autoplay, NEW before, NEW kept, NEW attempts, NEW failed,
               Reload(i, autoplay, before, kept, attempts, failed)
        PROVE  \E q, r : Sends(q, r)
    BY <1>1, <1>3 DEF Reload
  <1>4. CASE Command
    BY <1>1, <1>2, <1>3, <1>4 DEF Command, Play, PlayIndex, Move, Pause, Stop, Seek,
       RemoveCurrent, ShiftCurrent, Replace, ChangeDevice
  <1>5. CASE Native
    BY <1>1, <1>2, <1>3, <1>5 DEF Native, TrackEnds, GaplessTransition, NativeState,
       StreamError, Recover
  <1> QED BY <1>4, <1>5

LEMMA InitForeseen == Init => ScrobbleInv
  <1> SUFFICES ASSUME Init, ~extended PROVE ScrobbleInv
    BY DEF ScrobbleInv
  <1>1. /\ player = [status |-> "stopped", queue |-> Start, index |-> 1, play |-> 0,
                     resume |-> "none", attempts |-> 0, plan |-> NoPlan]
        /\ channel = <<>> /\ net = <<>> /\ report = NoReport /\ fallback = NoReport
        /\ plays = [p \in Plays |-> Unheard]
    BY DEF Init
  <1>2. Unheard \in Listened
    BY UnheardTyped
  <1>3. /\ player.play = 0 /\ player.status = "stopped" /\ player.resume = "none"
        /\ player.plan = NoPlan
    BY <1>1
  <1>4. Steady(player)
    BY <1>3, ReportingAssumption DEF Steady
  <1>5. plays \in [Plays -> Listened] /\ (\A p \in Plays : plays[p] = Unheard /\ p > 0) /\ 0 \notin Plays
    BY <1>1, <1>2 DEF Plays
  <1>6. Past(plays, 0)
    BY <1>5 DEF Past, Plays
  <1>7. Heard(Held, player)
    BY <1>1, <1>3, <1>4, <1>5, <1>6 DEF Heard, Held, Idle
  <1>8. Leads(Held, channel, Held)
    BY <1>1, LeadsNone
  <1>9. Foreseen
    BY <1>5, <1>7, <1>8 DEF Foreseen
  <1> QED BY <1>1, <1>9, InitInStep DEF ScrobbleInv

LEMMA NextForeseen ==
    ASSUME ScrobbleInv, [Next]_vars
    PROVE  ScrobbleInv'
  <1>1. extended' = extended
    <2>1. CASE Command \/ Native
      BY <2>1, CommandsSend DEF Sends
    <2> QED BY <2>1 DEF Next, Tick, Receive, Heartbeat, Deliver, vars
  <1> SUFFICES ASSUME ~extended PROVE ScrobbleInv'
    BY <1>1 DEF ScrobbleInv
  <1>2. StepInv /\ net = <<>> /\ report = NoReport /\ Foreseen
    BY DEF ScrobbleInv
  <1>3. ~Deliver /\ ~Heartbeat
    <2>1. NoReport.state # "playing"
      BY DEF NoReport
    <2> QED BY <1>2, <2>1 DEF Deliver, Heartbeat
  <1>4. StepInv'
    BY <1>2, <1>3, OthersInStep DEF Next
  <1>5. CASE Command \/ Native
    <2>1. net' = net /\ report' = report
      BY <1>5, CommandsSend DEF Sends
    <2>2. Foreseen'
      <3>1. CASE Command
        BY <1>2, <3>1, PlayForeseen, MoveForeseen, StopForeseen, SeekForeseen, RemoveForeseen,
           ShiftForeseen, ReplaceForeseen, DeviceForeseen DEF Command
      <3>2. CASE Native
        BY <1>2, <3>2, TrackEndForeseen, TransitionForeseen, NativeForeseen, ErrorForeseen,
           RecoverForeseen DEF Native
      <3> QED BY <1>5, <3>1, <3>2
    <2> QED BY <1>2, <1>4, <2>1, <2>2 DEF ScrobbleInv
  <1>6. CASE Tick
    <2>1. net' = net /\ report' = NoReport
      BY <1>2, <1>6 DEF Tick, NoReport
    <2> QED BY <1>2, <1>4, <1>6, <2>1, TickForeseen DEF ScrobbleInv
  <1>7. CASE Receive
    BY <1>2, <1>4, <1>7, ReceiveForeseen DEF ScrobbleInv
  <1>8. CASE UNCHANGED vars
    BY <1>2, <1>4, <1>8 DEF vars, ScrobbleInv, Foreseen, Held
  <1> QED BY <1>3, <1>5, <1>6, <1>7, <1>8 DEF Next

LEMMA HeardIsScrobbled ==
    ASSUME ScrobbleInv
    PROVE  PlaysAreScrobbled
  <1> SUFFICES ASSUME ~extended, channel = <<>>, NEW p \in Plays, Followed(p)
               PROVE  /\ plays[p].announced <= 1
                      /\ plays[p].heard > 0 => plays[p].announced = 1
                      /\ plays[p].submitted <= 1
                      /\ plays[p].submitted = 1 => plays[p].heard >= Threshold
                      /\ /\ plays[p].heard >= Threshold
                         /\ player.play # p \/ player.status \in {"paused", "stopped"}
                         => plays[p].submitted = 1
    BY DEF PlaysAreScrobbled
  <1> DEFINE P == player.play
  <1>1. Heard(Held, player)
    <2>1. PICK t : Leads(Held, channel, t) /\ Heard(t, player)
      BY DEF ScrobbleInv, Foreseen
    <2> QED BY <2>1, LeadsNone
  <1>2. /\ Past(plays, P) /\ P \in Nat /\ p \in Nat /\ Threshold \in Nat \ {0}
        /\ Follow(plays, p) /\ plays[p] \in Listened
    BY <1>1, ReportingAssumption DEF Heard, Held, Steady, Followed, Follow, Plays, Past
  <1>3. CASE p < P
    BY <1>2, <1>3 DEF Past, Settled, Counts
  <1>4. CASE p > P
    <2>1. plays[p] = Unheard
      BY <1>2, <1>4 DEF Past
    <2> QED BY <1>2, <2>1 DEF Unheard
  <1>5. CASE p = P
    <2>1. ~Lost(Held, P)
      BY <1>2, <1>5 DEF Lost, Held, Follow
    <2>2. CASE Idle(Held, P)
      BY <1>2, <1>5, <2>2 DEF Idle, Held, Settled, Counts
    <2>3. CASE /\ player.status \in {"playing", "paused"}
               /\ Loading(Held, P, <<player.queue[player.index], player.index>>, player.status)
      <3>1. Agrees(fallback, plays[P]) /\ Counts(plays[P]) /\ fallback.state = player.status
        BY <1>2, <1>5, <2>3 DEF Loading, Held
      <3> QED BY <1>2, <1>5, <2>3, <3>1 DEF Agrees, Counts
    <2> QED BY <1>1, <2>1, <2>2, <2>3 DEF Heard
  <1> QED BY <1>2, <1>3, <1>4, <1>5

\* A play is scrobbled as it was heard (handle_fallback_report,
\* finalize_fallback_scrobble in server_reporting.rs): announced once, and
\* registered once when enough of it was heard and not before, whatever is
\* paused, sought, reloaded or edited, and however far the thread is behind.
THEOREM PlaysStayScrobbled == Spec => []PlaysAreScrobbled
  <1>1. Init => ScrobbleInv
    BY InitForeseen
  <1>2. ScrobbleInv /\ [Next]_vars => ScrobbleInv'
    BY NextForeseen
  <1>3. ScrobbleInv => PlaysAreScrobbled
    BY HeardIsScrobbled
  <1> QED BY <1>1, <1>2, <1>3, PTL DEF Spec
=============================================================================
