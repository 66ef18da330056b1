---------------------------- MODULE ClientProofs ----------------------------
(***************************************************************************)
(* Proofs about the client's runs and replays, for any number of runs and  *)
(* scores and any number of replays side by side.                          *)
(*                                                                         *)
(* The invariant has a part for each actor: the run that is played, the    *)
(* handlers of game overs that wait, the uploads that were sent, and the   *)
(* replays.  What each relies on is that whoever interferes with it says   *)
(* so, in rushed or stirred.                                               *)
(***************************************************************************)
EXTENDS Client, TLAPS

\* Whatever has a number was started.
Counted ==
  /\ active <= started /\ live <= started /\ lastEnded <= started
  /\ \A r \in Runs : r > started =>
       /\ r \notin ended /\ r \notin recorded /\ r \notin untrue
       /\ r \notin finished /\ r \notin rushed
  /\ \A r \in Runs : r <= started => seed[r] # NoRun

\* The game, the recording and the handlers are of the same run, or of none.
Staged ==
  /\ tutorial = "on" => game = "PLAY"
  /\ tutorial = "off" /\ game = "PLAY" => live # NoRun
  /\ game = "PLAY" => live \notin finished
  /\ active = NoRun \/ live = active \/ live = NoRun
  /\ \A r \in Runs : request[r] = "waiting" => r \in finished
  /\ Playing = {} => replaying = "no"

\* A run that nothing interfered with is the one that is recorded; if a replay is shown
\* over it, there is one only, and it will put the run's own tape back.
LiveInv ==
  game = "PLAY" /\ tutorial = "off" /\ live \notin rushed =>
    /\ live = active /\ live \notin ended /\ live \notin untrue
    /\ \A r \in Runs : request[r] # "waiting"
    /\ IF Playing = {} THEN rand = Recorder(live)
       ELSE /\ replaying = "yes"
            /\ \E p \in Slots : /\ Playing = {p} /\ rand = Player(p)
                                /\ playback[p].prev = Recorder(live)

\* A handler that waits finds the recording of its run, and never one that is still made.
PendingInv ==
  /\ \A r \in Runs : request[r] = "waiting" /\ r \notin rushed =>
       active = r /\ r \notin untrue /\ r \in recorded
  /\ (\E r \in Runs : request[r] = "waiting") /\ active # NoRun => active \in finished \cup rushed
  /\ OnlyFinishedRunsEnd

\* What was sent is over, and what the uploader remembers was sent.
Sent(a) == \E u \in uploads : seed[u.run] = a.seed /\ score[u.of] >= a.best
UploadInv ==
  /\ UploadsAreTrue
  /\ \A u \in uploads : u.of \in finished /\ u.run <= started
  /\ \A a \in answers : Sent(a)
  /\ lastUploaded.seed # NoRun => Sent(lastUploaded)

\* A replay that nothing interfered with is the only one, and will put back what it found.
CalmInv ==
  stirred = "no" =>
    IF Playing = {} THEN rand.kind # "player" /\ (game # "PLAY" => shown # {})
    ELSE /\ replaying = "yes"
         /\ \E p \in Slots : /\ Playing = {p} /\ playback[p].prev.kind # "player"
                             /\ game # "PLAY" => playback[p].hid # {}

ClientInv ==
  TypeOK /\ Counted /\ Staged /\ LiveInv /\ PendingInv /\ UploadInv /\ CalmInv

\* What a step that is not about replays, and one of a handler, may change.
LEMMA CalmIsAboutReplays ==
  ASSUME CalmInv, UNCHANGED <<stirred, playback, rand, game, shown, replaying>>
  PROVE  CalmInv'
  BY DEF CalmInv, Playing

LEMMA TypesAreKept ==
  ASSUME TypeOK, ended' \subseteq Runs, lastEnded' \in Runs \cup {NoRun},
         uploads' \subseteq [run : Runs, of : Runs], answers' \subseteq [seed : Runs, best : Scores],
         request' \in [Runs -> Requests], user' \in {"out", "in"},
         UNCHANGED <<shown, game, live, tutorial, active, started, recorded, seed, rand, replaying,
                     playback, score, lastUploaded, finished, untrue, rushed, stirred>>
  PROVE  TypeOK'
  BY DEF TypeOK

LEMMA SeededIsASource == Seeded \in Sources
  BY DEF Sources
-----------------------------------------------------------------------------
LEMMA ClientInvInit == Init => ClientInv
  BY ClientAssumption
  DEF Init, ClientInv, TypeOK, Counted, Staged, LiveInv, PendingInv, UploadInv, CalmInv,
      OnlyFinishedRunsEnd, UploadsAreTrue, Playing, NoPlayback, Runs, NoRun, Scores, NoUser,
      Panels, Requests, Sources, Recorder, Player, Seeded

LEMMA StartGameKeeps ==
  ASSUME ClientInv, NEW mode \in {"new", "retry"}, StartGame(mode)
  PROVE  ClientInv'
<1>. USE ClientAssumption
     DEF ClientInv, Pending, Runs, NoRun, Scores, NoUser, TypeOK, Panels, Requests, Sources,
         Recorder, Player, Seeded, screenVars, recordVars, replayVars, netVars, uploadVars,
         history, StartGame, Pressed
<1>1. TypeOK'
  <2>1. started + 1 \in Runs /\ (mode = "retry" => lastEnded \in Runs)
    OBVIOUS
  <2>2. seed' \in [Runs -> Runs \cup {NoRun}]
    BY <2>1
  <2>3. rand' \in Sources
    BY <2>1
  <2>4. rushed' \subseteq Runs
    BY <2>1
  <2>5. /\ started' \in 0..MaxRuns /\ active' \in Runs /\ live' \in Runs
        /\ shown' = {} /\ game' = "PLAY" /\ stirred' \in {"no", "yes"}
    BY <2>1
  <2>. QED
    BY <2>2, <2>3, <2>4, <2>5
<1>2. Counted'
  BY DEF Counted, Staged
<1>3. Staged'
  BY DEF Counted, Staged, Playing
<1>4. LiveInv'
  <2>1. CASE live' \in rushed'
    BY <2>1 DEF LiveInv
  <2>2. CASE live' \notin rushed'
    <3>1. Playing = {} /\ Playing' = {} /\ \A r \in Runs : request[r] # "waiting"
      BY <2>2 DEF Playing
    <3>. QED
      BY <3>1 DEF Counted, LiveInv
  <2>. QED
    BY <2>1, <2>2
<1>5. PendingInv'
  BY DEF Counted, Staged, LiveInv, PendingInv, OnlyFinishedRunsEnd
<1>6. UploadInv'
  <2>1. \A r \in Runs : r <= started => seed'[r] = seed[r]
    OBVIOUS
  <2>2. UploadsAreTrue'
    BY DEF UploadInv, UploadsAreTrue, Faithful
  <2>3. \A a \in answers \cup {lastUploaded} : Sent(a) => Sent(a)'
    BY <2>1 DEF UploadInv, Sent
  <2>. QED
    BY <2>2, <2>3 DEF UploadInv
<1>7. CalmInv'
  BY DEF Staged, CalmInv, Playing
<1>. QED
  BY <1>1, <1>2, <1>3, <1>4, <1>5, <1>6, <1>7 DEF ClientInv

LEMMA StartTutorialKeeps ==
  ASSUME ClientInv, StartTutorial
  PROVE  ClientInv'
<1>. USE ClientAssumption
     DEF ClientInv, Pending, Runs, NoRun, Scores, NoUser, screenVars, recordVars, replayVars,
         netVars, uploadVars, history, StartTutorial, Pressed
<1>1. TypeOK'
  BY DEF TypeOK, Panels, Requests, Staged, Sources, Recorder, Player, Seeded
<1>2. Counted'
  BY DEF TypeOK, Counted, Staged
<1>3. Staged'
  BY DEF TypeOK, Counted, Staged, Playing
<1>4. LiveInv'
  BY DEF TypeOK, Counted, Staged, LiveInv, Playing, Sources, Recorder, Player, Seeded
<1>5. PendingInv'
  BY DEF TypeOK, Counted, Staged, LiveInv, PendingInv, OnlyFinishedRunsEnd
<1>6. UploadInv'
  BY DEF TypeOK, Counted, Staged, LiveInv, PendingInv, UploadInv, UploadsAreTrue, Faithful,
         Sent
<1>7. CalmInv'
  BY DEF TypeOK, Staged, CalmInv, Playing, Sources, Recorder, Player, Seeded
<1>. QED
  BY <1>1, <1>2, <1>3, <1>4, <1>5, <1>6, <1>7 DEF ClientInv

LEMMA ToMenuKeeps ==
  ASSUME ClientInv, ToMenu
  PROVE  ClientInv'
<1>. USE ClientAssumption
     DEF ClientInv, Pending, Runs, NoRun, Scores, NoUser, screenVars, recordVars, replayVars,
         netVars, uploadVars, history, ToMenu, Mixed
<1>1. TypeOK'
  BY DEF TypeOK, Panels, Requests, Staged
<1>2. Counted'
  BY DEF TypeOK, Counted, Staged
<1>3. Staged'
  BY DEF TypeOK, Counted, Staged, Playing
<1>4. LiveInv'
  BY DEF TypeOK, Counted, Staged, LiveInv, Playing, Sources, Recorder, Player, Seeded
<1>5. PendingInv'
  BY DEF TypeOK, Counted, Staged, LiveInv, PendingInv, OnlyFinishedRunsEnd
<1>6. UploadInv'
  BY DEF TypeOK, Counted, Staged, LiveInv, PendingInv, UploadInv, UploadsAreTrue, Faithful,
         Sent
<1>7. CalmInv'
  BY DEF TypeOK, Staged, CalmInv, Playing, Sources, Recorder, Player, Seeded
<1>. QED
  BY <1>1, <1>2, <1>3, <1>4, <1>5, <1>6, <1>7 DEF ClientInv

LEMMA TickKeeps ==
  ASSUME ClientInv, Tick
  PROVE  ClientInv'
<1>. USE ClientAssumption
     DEF ClientInv, Pending, Runs, NoRun, Scores, NoUser, screenVars, recordVars, replayVars,
         netVars, uploadVars, history, Tick, Ticking, RecordTick, Recording, Mixed
<1>1. TypeOK'
  BY DEF TypeOK, Panels, Requests, Staged
<1>2. Counted'
  BY DEF TypeOK, Counted, Staged
<1>3. Staged'
  BY DEF TypeOK, Counted, Staged, Playing
<1>4. LiveInv'
  BY DEF TypeOK, Counted, Staged, LiveInv, Playing, Sources, Recorder, Player, Seeded
<1>5. PendingInv'
  BY DEF TypeOK, Counted, Staged, LiveInv, PendingInv, OnlyFinishedRunsEnd
<1>6. UploadInv'
  BY SMTT(30) DEF TypeOK, Counted, Staged, LiveInv, PendingInv, UploadInv, UploadsAreTrue, Faithful,
         Sent
<1>7. CalmInv'
  BY DEF TypeOK, Staged, CalmInv, Playing, Sources, Recorder, Player, Seeded
<1>. QED
  BY <1>1, <1>2, <1>3, <1>4, <1>5, <1>6, <1>7 DEF ClientInv

LEMMA TickTutorialKeeps ==
  ASSUME ClientInv, TickTutorial
  PROVE  ClientInv'
<1>. USE ClientAssumption
     DEF ClientInv, Pending, Runs, NoRun, Scores, NoUser, screenVars, recordVars, replayVars,
         netVars, uploadVars, history, TickTutorial, Ticking
<1>1. TypeOK'
  BY DEF TypeOK, Panels, Requests, Staged
<1>2. Counted'
  BY DEF TypeOK, Counted, Staged
<1>3. Staged'
  BY DEF TypeOK, Counted, Staged, Playing
<1>4. LiveInv'
  BY DEF TypeOK, Counted, Staged, LiveInv, Playing
<1>5. PendingInv'
  BY DEF TypeOK, Counted, Staged, LiveInv, PendingInv, OnlyFinishedRunsEnd
<1>6. UploadInv'
  BY DEF TypeOK, Counted, Staged, LiveInv, PendingInv, UploadInv, UploadsAreTrue, Faithful,
         Sent
<1>7. CalmInv'
  BY DEF TypeOK, Staged, CalmInv, Playing
<1>. QED
  BY <1>1, <1>2, <1>3, <1>4, <1>5, <1>6, <1>7 DEF ClientInv

LEMMA EnterStepKeeps ==
  ASSUME ClientInv, EnterStep
  PROVE  ClientInv'
<1>. USE ClientAssumption
     DEF ClientInv, Pending, Runs, NoRun, Scores, NoUser, screenVars, recordVars, replayVars,
         netVars, uploadVars, history, EnterStep, Mixed
<1>1. TypeOK'
  BY DEF TypeOK, Panels, Requests, Staged
<1>2. Counted'
  BY DEF TypeOK, Counted, Staged
<1>3. Staged'
  BY DEF TypeOK, Counted, Staged, Playing
<1>4. LiveInv'
  BY DEF TypeOK, Counted, Staged, LiveInv, Playing, Sources, Recorder, Player, Seeded
<1>5. PendingInv'
  BY DEF TypeOK, Counted, Staged, LiveInv, PendingInv, OnlyFinishedRunsEnd
<1>6. UploadInv'
  BY DEF TypeOK, Counted, Staged, LiveInv, PendingInv, UploadInv, UploadsAreTrue, Faithful,
         Sent
<1>7. CalmInv'
  BY DEF TypeOK, Staged, CalmInv, Playing, Sources, Recorder, Player, Seeded
<1>. QED
  BY <1>1, <1>2, <1>3, <1>4, <1>5, <1>6, <1>7 DEF ClientInv

LEMMA GameOverKeeps ==
  ASSUME ClientInv, NEW s \in Scores, GameOver(s)
  PROVE  ClientInv'
<1>. USE ClientAssumption
     DEF ClientInv, Pending, Runs, NoRun, Scores, NoUser, TypeOK, Panels, Requests, Sources,
         Recorder, Player, Seeded, screenVars, recordVars, replayVars, netVars, uploadVars,
         history, GameOver, Ticking, RecordTick, Recording, Mixed, MarkEnded
<1>0. /\ live \in Runs /\ live \notin finished /\ request[live] # "waiting" /\ live <= started
      /\ live = active \/ active = NoRun
      /\ live \notin rushed => /\ live = active /\ live \notin ended
                              /\ (Playing = {} => rand = Recorder(live))
  BY DEF Counted, Staged, LiveInv
<1>1. TypeOK'
  <2>1. ended' \subseteq Runs /\ lastEnded' \in Runs \cup {NoRun}
    <3>1. \/ ended' = ended /\ lastEnded' = lastEnded
          \/ active # NoRun /\ ended' = ended \cup {active} /\ lastEnded' = active
      OBVIOUS
    <3>. QED
      BY <3>1
  <2>2. request' \in [Runs -> Requests] /\ score' \in [Runs -> Scores]
    BY <1>0
  <2>3. recorded' \subseteq Runs /\ untrue' \subseteq Runs /\ finished' \subseteq Runs
    BY <1>0
  <2>. QED
    BY <2>1, <2>2, <2>3
<1>2. Counted'
  <2>1. untrue' \subseteq untrue \cup {live}
    BY <1>0
  <2>2. recorded' \subseteq recorded \cup {active} /\ ended' \subseteq ended \cup {active}
    OBVIOUS
  <2>3. active' = active /\ live' = live /\ lastEnded' \in {lastEnded, active}
    OBVIOUS
  <2>. QED
    BY <1>0, <2>1, <2>2, <2>3 DEF Counted
<1>3. Staged'
  BY DEF Counted, Staged, Playing
<1>4. LiveInv'
  BY DEF Counted, Staged, LiveInv, Playing
<1>5. PendingInv'
  <2>1. live \notin rushed => live \notin untrue' /\ live \in recorded' /\ active = live
    <3>1. live \notin rushed => Playing = {}
      BY DEF LiveInv
    <3>. QED
      BY <1>0, <3>1 DEF LiveInv
  <2>2. \A r \in Runs \ {live} : request'[r] = request[r] /\ (r \in untrue' => r \in untrue)
    BY <1>0
  <2>3. /\ \A r \in Runs : request'[r] = "waiting" /\ r \notin rushed =>
             active = r /\ r \notin untrue' /\ r \in recorded'
        /\ active \in finished' \cup {NoRun}
    BY <1>0, <2>1, <2>2 DEF PendingInv
  <2>4. OnlyFinishedRunsEnd'
    BY <1>0 DEF PendingInv, OnlyFinishedRunsEnd
  <2>. QED
    BY <2>3, <2>4 DEF PendingInv
<1>6. UploadInv'
  <2>1. \A r \in finished : score'[r] = score[r] /\ (r \in untrue' => r \in untrue)
    BY <1>0
  <2>2. UploadsAreTrue'
    BY <2>1 DEF UploadInv, UploadsAreTrue, Faithful
  <2>3. \A a \in answers \cup {lastUploaded} : Sent(a) => Sent(a)'
    BY <2>1 DEF UploadInv, Sent
  <2>. QED
    BY <2>2, <2>3 DEF UploadInv
<1>7. CalmInv'
  BY DEF Staged, CalmInv, Playing
<1>. QED
  BY <1>1, <1>2, <1>3, <1>4, <1>5, <1>6, <1>7 DEF ClientInv

LEMMA SessionKeeps ==
  ASSUME ClientInv, Session
  PROVE  ClientInv'
<1>. USE ClientAssumption
     DEF ClientInv, Pending, Runs, NoRun, Scores, NoUser, screenVars, recordVars, replayVars,
         netVars, uploadVars, history, Session
<1>1. TypeOK'
  BY DEF TypeOK, Panels, Requests, Staged
<1>2. Counted'
  BY DEF TypeOK, Counted, Staged
<1>3. Staged'
  BY DEF TypeOK, Counted, Staged, Playing
<1>4. LiveInv'
  BY DEF Counted, Staged, LiveInv, Playing
<1>5. PendingInv'
  BY DEF TypeOK, Counted, Staged, LiveInv, PendingInv, OnlyFinishedRunsEnd
<1>6. UploadInv'
  BY DEF TypeOK, Counted, Staged, LiveInv, PendingInv, UploadInv, UploadsAreTrue, Faithful,
         Sent
<1>7. CalmInv'
  BY DEF Staged, CalmInv, Playing
<1>. QED
  BY <1>1, <1>2, <1>3, <1>4, <1>5, <1>6, <1>7 DEF ClientInv

LEMMA HandlerEndsKeeps ==
  ASSUME ClientInv, NEW r \in Runs, NEW best \in Scores \cup {NoUser}, NEW fits \in BOOLEAN,
         HandlerEnds(r, best, fits)
  PROVE  ClientInv'
<1>. USE ClientAssumption
     DEF ClientInv, Pending, Runs, NoRun, Scores, NoUser, TypeOK, Panels, Requests, Sources,
         Recorder, Player, Seeded, screenVars, recordVars, replayVars, netVars, uploadVars,
         history, HandlerEnds, MarkEnded, Upload
<1>1. TypeOK'
  <2>1. ended' \subseteq Runs /\ lastEnded' \in Runs \cup {NoRun}
    OBVIOUS
  <2>2. active # NoRun => seed[active] \in Runs
    BY DEF Counted
  <2>3. uploads' \subseteq [run : Runs, of : Runs]
    OBVIOUS
  <2>4. answers' \subseteq [seed : Runs, best : Scores]
    BY <2>2
  <2>. QED
    <3>1. request' \in [Runs -> Requests] /\ user' \in {"out", "in"}
      OBVIOUS
    <3>2. UNCHANGED <<shown, game, live, tutorial, active, started, recorded, seed, rand,
                      replaying, playback, score, lastUploaded, finished, untrue, rushed, stirred>>
      OBVIOUS
    <3>. QED
      BY <2>1, <2>3, <2>4, <3>1, <3>2, TypesAreKept
<1>2. Counted'
  BY DEF Counted, Staged
<1>3. Staged'
  BY DEF Counted, Staged, Playing
<1>4. LiveInv'
  BY DEF Counted, Staged, LiveInv, Playing
<1>5. PendingInv'
  BY DEF Counted, Staged, LiveInv, PendingInv, OnlyFinishedRunsEnd
<1>6. UploadInv'
  <2>. DEFINE u == [run |-> active, of |-> r]
              a == [seed |-> seed[active], best |-> best]
  <2>1. /\ r \in finished /\ active <= started
        /\ r \in rushed \/ (active = r /\ Faithful(r))
    BY DEF Counted, Staged, PendingInv, Faithful
  <2>2. CASE UNCHANGED <<uploads, answers>>
    BY <2>2 DEF UploadInv, UploadsAreTrue, Faithful, Sent
  <2>3. CASE /\ uploads' = uploads \cup {u} /\ answers' = answers \cup {a}
             /\ active # NoRun /\ best # NoUser /\ score[r] >= best
    <3>1. UploadsAreTrue'
      BY <2>1, <2>3 DEF UploadInv, UploadsAreTrue, Faithful
    <3>2. Sent(a)'
      <4>1. /\ u \in uploads' /\ seed'[u.run] = a'.seed /\ score'[u.of] >= a'.best
        BY <2>3
      <4>. QED
        BY <4>1 DEF Sent
    <3>3. \A b \in answers \cup {lastUploaded} : Sent(b) => Sent(b)'
      BY <2>3 DEF Sent
    <3>. QED
      BY <2>1, <2>3, <3>1, <3>2, <3>3 DEF UploadInv
  <2>. QED
    BY <2>2, <2>3
<1>7. CalmInv'
  <2>1. UNCHANGED <<stirred, playback, rand, game, shown, replaying>>
    OBVIOUS
  <2>. QED
    BY <2>1, CalmIsAboutReplays
<1>. QED
  BY <1>1, <1>2, <1>3, <1>4, <1>5, <1>6, <1>7 DEF ClientInv

LEMMA UploadAnsweredKeeps ==
  ASSUME ClientInv, NEW a \in answers, UploadAnswered(a)
  PROVE  ClientInv'
<1>. USE ClientAssumption
     DEF ClientInv, Pending, Runs, NoRun, Scores, NoUser, screenVars, recordVars, replayVars,
         netVars, uploadVars, history, UploadAnswered
<1>1. TypeOK'
  BY DEF TypeOK, Panels, Requests, Staged
<1>2. Counted'
  BY DEF TypeOK, Counted, Staged
<1>3. Staged'
  BY DEF TypeOK, Counted, Staged, Playing
<1>4. LiveInv'
  BY DEF Counted, Staged, LiveInv, Playing
<1>5. PendingInv'
  BY DEF TypeOK, Counted, Staged, LiveInv, PendingInv, OnlyFinishedRunsEnd
<1>6. UploadInv'
  BY DEF TypeOK, Counted, Staged, LiveInv, PendingInv, UploadInv, UploadsAreTrue, Faithful,
         Sent
<1>7. CalmInv'
  BY DEF Staged, CalmInv, Playing
<1>. QED
  BY <1>1, <1>2, <1>3, <1>4, <1>5, <1>6, <1>7 DEF ClientInv

LEMMA PlayKeeps ==
  ASSUME ClientInv, NEW p \in Slots, playback[p].at # "playing", Play(p)
  PROVE  ClientInv'
<1>. USE ClientAssumption
     DEF ClientInv, Pending, Runs, NoRun, Scores, NoUser, TypeOK, Panels, Requests, Sources,
         Recorder, Player, Seeded, screenVars, recordVars, replayVars, netVars, uploadVars,
         history, Play
<1>0. /\ p \in Playing' /\ (Playing = {} => Playing' = {p}) /\ playback'[p].prev = rand
      /\ playback'[p].hid = shown
  BY DEF Playing
<1>1. TypeOK'
  <2>1. playback' \in [Slots -> [at : {"idle", "loading", "playing"}, prev : Sources,
                                  hid : SUBSET Panels]]
    OBVIOUS
  <2>2. rand' \in Sources /\ rushed' \subseteq Runs
    OBVIOUS
  <2>. QED
    BY <2>1, <2>2
<1>2. Counted'
  BY DEF Counted, Staged
<1>3. Staged'
  BY DEF Counted, Staged, Playing
<1>4. LiveInv'
  <2>1. CASE Playing = {}
    BY <1>0, <2>1 DEF LiveInv
  <2>2. CASE Playing # {}
    BY <2>2 DEF LiveInv, Staged
  <2>. QED
    BY <2>1, <2>2
<1>5. PendingInv'
  BY DEF Counted, Staged, LiveInv, PendingInv, OnlyFinishedRunsEnd
<1>6. UploadInv'
  BY DEF Counted, Staged, LiveInv, PendingInv, UploadInv, UploadsAreTrue, Faithful, Sent
<1>7. CalmInv'
  <2>1. CASE Playing = {}
    BY <1>0, <2>1 DEF CalmInv
  <2>2. CASE Playing # {}
    BY <2>2 DEF CalmInv
  <2>. QED
    BY <2>1, <2>2
<1>. QED
  BY <1>1, <1>2, <1>3, <1>4, <1>5, <1>6, <1>7 DEF ClientInv

LEMMA AskReplayKeeps ==
  ASSUME ClientInv, NEW p \in Slots, AskReplay(p)
  PROVE  ClientInv'
<1>. USE ClientAssumption
     DEF ClientInv, Pending, Runs, NoRun, Scores, NoUser, screenVars, recordVars, replayVars,
         netVars, uploadVars, history, AskReplay, NoPlayback
<1>1. TypeOK'
  <2>1. playback' \in [Slots -> [at : {"idle", "loading", "playing"}, prev : Sources,
                                  hid : SUBSET Panels]]
    BY SeededIsASource DEF TypeOK
  <2>. QED
    BY <2>1 DEF TypeOK
<1>2. Counted'
  BY DEF TypeOK, Counted, Staged
<1>3. Staged'
  BY DEF TypeOK, Counted, Staged, Playing
<1>4. LiveInv'
  BY DEF TypeOK, Counted, Staged, LiveInv, Playing
<1>5. PendingInv'
  BY DEF TypeOK, Counted, Staged, LiveInv, PendingInv, OnlyFinishedRunsEnd
<1>6. UploadInv'
  BY DEF TypeOK, Counted, Staged, LiveInv, PendingInv, UploadInv, UploadsAreTrue, Faithful,
         Sent
<1>7. CalmInv'
  BY DEF TypeOK, Staged, CalmInv, Playing
<1>. QED
  BY <1>1, <1>2, <1>3, <1>4, <1>5, <1>6, <1>7 DEF ClientInv

LEMMA NoReplayKeeps ==
  ASSUME ClientInv, NEW p \in Slots, NoReplay(p)
  PROVE  ClientInv'
<1>. USE ClientAssumption
     DEF ClientInv, Pending, Runs, NoRun, Scores, NoUser, screenVars, recordVars, replayVars,
         netVars, uploadVars, history, NoReplay, NoPlayback
<1>1. TypeOK'
  <2>1. playback' \in [Slots -> [at : {"idle", "loading", "playing"}, prev : Sources,
                                  hid : SUBSET Panels]]
    BY SeededIsASource DEF TypeOK
  <2>. QED
    BY <2>1 DEF TypeOK
<1>2. Counted'
  BY DEF TypeOK, Counted, Staged
<1>3. Staged'
  BY DEF TypeOK, Counted, Staged, Playing
<1>4. LiveInv'
  BY SMTT(30) DEF TypeOK, Counted, Staged, LiveInv, Playing
<1>5. PendingInv'
  BY DEF TypeOK, Counted, Staged, LiveInv, PendingInv, OnlyFinishedRunsEnd
<1>6. UploadInv'
  BY DEF TypeOK, Counted, Staged, LiveInv, PendingInv, UploadInv, UploadsAreTrue, Faithful,
         Sent
<1>7. CalmInv'
  BY DEF TypeOK, Staged, CalmInv, Playing
<1>. QED
  BY <1>1, <1>2, <1>3, <1>4, <1>5, <1>6, <1>7 DEF ClientInv

LEMMA PlaybackTickKeeps ==
  ASSUME ClientInv, NEW p \in Slots, PlaybackTick(p)
  PROVE  ClientInv'
<1>. USE ClientAssumption
     DEF ClientInv, Pending, Runs, NoRun, Scores, NoUser, screenVars, recordVars, replayVars,
         netVars, uploadVars, history, PlaybackTick, Mixed
<1>1. TypeOK'
  BY DEF TypeOK, Panels, Requests, Staged
<1>2. Counted'
  BY DEF TypeOK, Counted, Staged
<1>3. Staged'
  BY DEF TypeOK, Counted, Staged, Playing
<1>4. LiveInv'
  BY DEF TypeOK, Counted, Staged, LiveInv, Playing, Sources, Recorder, Player, Seeded
<1>5. PendingInv'
  BY DEF TypeOK, Counted, Staged, LiveInv, PendingInv, OnlyFinishedRunsEnd
<1>6. UploadInv'
  BY DEF TypeOK, Counted, Staged, LiveInv, PendingInv, UploadInv, UploadsAreTrue, Faithful,
         Sent
<1>7. CalmInv'
  BY DEF TypeOK, Staged, CalmInv, Playing, Sources, Recorder, Player, Seeded
<1>. QED
  BY <1>1, <1>2, <1>3, <1>4, <1>5, <1>6, <1>7 DEF ClientInv

LEMMA PlaybackEndsKeeps ==
  ASSUME ClientInv, NEW p \in Slots, PlaybackEnds(p)
  PROVE  ClientInv'
<1>. USE ClientAssumption
     DEF ClientInv, Pending, Runs, NoRun, Scores, NoUser, screenVars, recordVars, replayVars,
         netVars, uploadVars, history, PlaybackEnds, NoPlayback
<1>1. TypeOK'
  <2>1. playback' \in [Slots -> [at : {"idle", "loading", "playing"}, prev : Sources,
                                  hid : SUBSET Panels]]
    BY SeededIsASource DEF TypeOK
  <2>. QED
    BY <2>1 DEF TypeOK
<1>2. Counted'
  BY DEF TypeOK, Counted, Staged
<1>3. Staged'
  BY DEF TypeOK, Counted, Staged, Playing
<1>4. LiveInv'
  BY DEF TypeOK, Counted, Staged, LiveInv, Playing, Sources, Recorder, Player, Seeded
<1>5. PendingInv'
  BY DEF TypeOK, Counted, Staged, LiveInv, PendingInv, OnlyFinishedRunsEnd
<1>6. UploadInv'
  BY DEF TypeOK, Counted, Staged, LiveInv, PendingInv, UploadInv, UploadsAreTrue, Faithful,
         Sent
<1>7. CalmInv'
  BY DEF TypeOK, Staged, CalmInv, Playing, Sources, Recorder, Player, Seeded
<1>. QED
  BY <1>1, <1>2, <1>3, <1>4, <1>5, <1>6, <1>7 DEF ClientInv
-----------------------------------------------------------------------------
LEMMA ClientInvStep == ClientInv /\ [Next]_vars => ClientInv'
<1>. SUFFICES ASSUME ClientInv, [Next]_vars PROVE ClientInv'
  OBVIOUS
<1>1. ASSUME NEW p \in Slots, Watch(p) PROVE ClientInv'
  BY <1>1, PlayKeeps DEF Watch
<1>2. ASSUME NEW p \in Slots, ReplayArrives(p) PROVE ClientInv'
  BY <1>2, PlayKeeps DEF ReplayArrives
<1>3. ASSUME NEW p \in Slots, AskReplay(p) \/ NoReplay(p) \/ PlaybackTick(p) \/ PlaybackEnds(p)
      PROVE  ClientInv'
  BY <1>3, AskReplayKeeps, NoReplayKeeps, PlaybackTickKeeps, PlaybackEndsKeeps
<1>4. CASE StartGame("new") \/ StartGame("retry") \/ StartTutorial \/ ToMenu
  BY <1>4, StartGameKeeps, StartTutorialKeeps, ToMenuKeeps
<1>5. CASE Tick \/ TickTutorial \/ EnterStep \/ \E s \in Scores : GameOver(s)
  BY <1>5, TickKeeps, TickTutorialKeeps, EnterStepKeeps, GameOverKeeps
<1>6. CASE \/ Session
           \/ \E r \in Runs, best \in Scores \cup {NoUser}, fits \in BOOLEAN :
                HandlerEnds(r, best, fits)
           \/ \E a \in answers : UploadAnswered(a)
  BY <1>6, SessionKeeps, HandlerEndsKeeps, UploadAnsweredKeeps
<1>7. CASE UNCHANGED vars
  BY <1>7 DEF vars, screenVars, recordVars, replayVars, netVars, uploadVars, history, ClientInv,
              TypeOK, Counted, Staged, LiveInv, PendingInv, UploadInv, CalmInv, Sent, Faithful,
              OnlyFinishedRunsEnd, UploadsAreTrue, Playing
<1>. QED
  BY <1>1, <1>2, <1>3, <1>4, <1>5, <1>6, <1>7 DEF Next

\* A handler that nobody was in haste after sends its run if the recording fits, unless one
\* of the same seed that is as good was sent before.
LEMMA HandlerSends ==
  ASSUME ClientInv, NEW r \in Pending \ rushed, NEW best \in Scores, HandlerEnds(r, best, TRUE),
         score[r] > 0, score[r] >= best
  PROVE  \E u \in uploads' : seed[u.run] = seed[r] /\ score[u.of] >= best
<1>1. r \in Runs /\ active = r /\ r \in recorded /\ active # NoRun /\ best # NoUser
  BY DEF ClientInv, PendingInv, Pending, Scores, NoUser, Runs, NoRun
<1>2. seed[r] # NoRun
  BY <1>1 DEF ClientInv, Counted
<1>3. CASE lastUploaded.seed = seed[active] /\ lastUploaded.best >= best
  <2>1. PICK u \in uploads : seed[u.run] = lastUploaded.seed /\ score[u.of] >= lastUploaded.best
    BY <1>1, <1>2, <1>3 DEF ClientInv, UploadInv, Sent
  <2>2. score[u.of] \in Int /\ lastUploaded.best \in Int /\ best \in Int
    BY DEF ClientInv, TypeOK, Scores, NoUser
  <2>3. u \in uploads'
    BY DEF HandlerEnds, Upload
  <2>. QED
    BY <1>1, <1>3, <2>1, <2>2, <2>3
<1>4. CASE ~(lastUploaded.seed = seed[active] /\ lastUploaded.best >= best)
  <2>1. [run |-> active, of |-> r] \in uploads'
    BY <1>1, <1>4 DEF HandlerEnds, Upload
  <2>. QED
    BY <1>1, <2>1
<1>. QED
  BY <1>3, <1>4
-----------------------------------------------------------------------------
\* The client's types are right, whatever overlaps.
THEOREM ClientTypes == Spec => []TypeOK
<1>1. ClientInv => TypeOK
  BY DEF ClientInv
<1>. QED
  BY ClientInvInit, ClientInvStep, <1>1, PTL DEF Spec

\* What is recorded while a run is played is that run, tick for tick and number for number,
\* unless it was started in haste (main.js: startGame, frame; replayManager.js: recordTick).
THEOREM RunsAreRecorded == Spec => []RecordsWhatItPlays
<1>1. ClientInv => RecordsWhatItPlays
  BY DEF ClientInv, RecordsWhatItPlays, LiveInv, Faithful
<1>. QED
  BY ClientInvInit, ClientInvStep, <1>1, PTL DEF Spec

\* A game over handler ends and uploads the run that ended and no other, however long it
\* waited (main.js: onGameOver; bestRunRecorder.js), unless another one was begun in haste.
THEOREM HandlersEndNoOther == Spec => []HandlersEndTheirRun
<1>1. ClientInv => HandlersEndTheirRun
  BY DEF ClientInv, HandlersEndTheirRun, UploadInv, PendingInv
<1>. QED
  BY ClientInvInit, ClientInvStep, <1>1, PTL DEF Spec

\* A replay that nothing interfered with gives back the random source and the panels
\* (replayManager.js: play and its finally block).
THEOREM ReplaysCleanUp == Spec => []ReplaysLeaveNothingBehind
<1>1. ClientInv => ReplaysLeaveNothingBehind
  BY DEF ClientInv, ReplaysLeaveNothingBehind, CalmInv, Staged
<1>. QED
  BY ClientInvInit, ClientInvStep, <1>1, PTL DEF Spec

\* A run that is not below the best score its handler was told, and whose recording is not
\* too large to be sent, has been sent when the handler ends, or one of its seed that is as
\* good (replayArtifacts.js, bestRunRecorder.js: maybeUploadBestRun).
THEOREM BestRunsAreSent == Spec => BestRunIsSent
<1>1. ClientInv /\ [Next]_vars =>
        [\A r \in Pending \ rushed, best \in Scores :
           HandlerEnds(r, best, TRUE) /\ score[r] > 0 /\ score[r] >= best =>
             \E u \in uploads' : seed[u.run] = seed[r] /\ score[u.of] >= best]_vars
  BY HandlerSends
<1>. QED
  BY ClientInvInit, ClientInvStep, <1>1, PTL DEF Spec, BestRunIsSent
=============================================================================
