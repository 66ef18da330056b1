------------------------------- MODULE Client -------------------------------
(***************************************************************************)
(* The client's runs and replays: the screens and the frame loop of        *)
(* public/js/main.js, replayManager.js, replayArtifacts.js,                *)
(* bestRunRecorder.js and the random sources of util.js.                   *)
(*                                                                         *)
(* There is one live game, one recording (activeRun), one random source    *)
(* shared by everything that plays, and handlers that go on after an await *)
(* whatever has happened meanwhile.  A recording is started with every     *)
(* run, so that both have the same number.  What is recorded is reduced to *)
(* whether it is what happened, tick for tick (with the actions drained    *)
(* into each) and random number for random number.  The server answers     *)
(* whatever it likes.  Left out: coins, cosmetics, texts, and the delay of *)
(* a start that is pressed while the sounds load.                          *)
(***************************************************************************)
EXTENDS Integers, FiniteSetsExt

CONSTANTS
  MaxRuns,   \* bound: runs started
  MaxScore,  \* bound: the score of a run
  Slots      \* replays that may be loading or playing side by side

Runs == 1..MaxRuns
NoRun == 0
Scores == 0..MaxScore
NoUser == -1

\* Where random numbers come from.
Recorder(r) == [kind |-> "recorder", of |-> r]
Player(p) == [kind |-> "player", of |-> p]
Seeded == [kind |-> "seeded", of |-> NoRun]
Sources == {Recorder(r) : r \in Runs} \cup {Player(p) : p \in Slots} \cup {Seeded}

Panels == {"menu", "over"}
Requests == {"none", "waiting", "done"}

ASSUME ClientAssumption ==
  MaxRuns \in Nat \ {0} /\ MaxScore \in Nat /\ Slots \cap Int = {}

VARIABLES
  shown,       \* the panels that are not hidden
  game,        \* game.state
  live,        \* the run the live game plays, NoRun for the tutorial's
  tutorial,    \* is tutorial.active
  active,      \* activeRun
  started,     \* recordings made so far
  ended,       \* the recordings marked ended
  recorded,    \* the recordings that have ticks
  seed,        \* the run a run's seed was drawn for
  lastEnded,   \* the run whose seed is lastEndedSeed
  rand,        \* the source rand draws from
  replaying,   \* isReplaying
  playback,    \* the replays under way
  request,     \* the handlers of game overs, and whether they await an answer
  score,       \* finalScore of the runs that are over
  user,        \* is there a net.user
  uploads,     \* the best runs sent
  answers,     \* the answers to uploads that are under way
  lastUploaded, \* lastUploadedBestSeed and lastUploadedBestScore
  finished, untrue,         \* history: runs over; runs not recorded as they were
  rushed, stirred           \* history: what was started while something was under way

screenVars == <<shown, game, live, tutorial>>
recordVars == <<active, started, ended, recorded, seed, lastEnded>>
replayVars == <<rand, replaying, playback>>
netVars == <<request, score, user>>
uploadVars == <<uploads, answers, lastUploaded>>
history == <<finished, untrue, rushed, stirred>>
vars == <<screenVars, recordVars, replayVars, netVars, uploadVars, history>>

Playing == {p \in Slots : playback[p].at = "playing"}
Pending == {r \in Runs : request[r] = "waiting"}

NoPlayback == [at |-> "idle", prev |-> Seeded, hid |-> {}]

TypeOK ==
  /\ shown \subseteq Panels /\ game \in {"MENU", "PLAY", "OVER"}
  /\ live \in Runs \cup {NoRun} /\ tutorial \in {"off", "on"}
  /\ active \in Runs \cup {NoRun} /\ started \in 0..MaxRuns
  /\ ended \subseteq Runs /\ recorded \subseteq Runs
  /\ seed \in [Runs -> Runs \cup {NoRun}] /\ lastEnded \in Runs \cup {NoRun}
  /\ rand \in Sources /\ replaying \in {"no", "yes"}
  /\ playback \in [Slots -> [at : {"idle", "loading", "playing"}, prev : Sources,
                             hid : SUBSET Panels]]
  /\ request \in [Runs -> Requests] /\ score \in [Runs -> Scores]
  /\ user \in {"out", "in"}
  /\ uploads \subseteq [run : Runs, of : Runs]
  /\ answers \subseteq [seed : Runs, best : Scores]
  /\ lastUploaded \in [seed : Runs \cup {NoRun}, best : Scores \cup {NoUser}]
  /\ finished \subseteq Runs /\ untrue \subseteq Runs
  /\ rushed \subseteq Runs /\ stirred \in {"no", "yes"}

Init ==
  /\ shown = {"menu"} /\ game = "MENU" /\ live = NoRun /\ tutorial = "off"
  /\ active = NoRun /\ started = 0 /\ ended = {} /\ recorded = {}
  /\ seed = [r \in Runs |-> NoRun] /\ lastEnded = NoRun
  /\ rand = Seeded /\ replaying = "no" /\ playback = [p \in Slots |-> NoPlayback]
  /\ request = [r \in Runs |-> "none"] /\ score = [r \in Runs |-> 0]
  /\ user \in {"out", "in"}
  /\ uploads = {} /\ answers = {} /\ lastUploaded = [seed |-> NoRun, best |-> NoUser]
  /\ finished = {} /\ untrue = {} /\ rushed = {} /\ stirred = "no"
-----------------------------------------------------------------------------
\* Of the run that is played: what becomes of its tape when `who` draws a number.
Mixed(who) ==
  IF game = "PLAY" /\ live # NoRun /\ (live = who) # (rand = Recorder(live))
  THEN {live} ELSE {}

\* A key or a button of a panel.
Pressed(mode) ==
  \/ mode \in {"new", "tutorial"} /\ "menu" \in shown
  \/ mode = "new" /\ "over" \in shown
  \/ mode = "retry" /\ "over" \in shown /\ lastEnded # NoRun

\* Mutant: the random source is left as it was.
StartGameSameSource(mode) ==
  LET r == started + 1
  IN  /\ mode \in {"new", "retry"} /\ started < MaxRuns
      /\ Pressed(mode) /\ shown' = {}
      /\ started' = r /\ active' = r
      /\ seed' = [seed EXCEPT ![r] = IF mode = "retry" THEN seed[lastEnded] ELSE r]
      /\ rand' = rand
      /\ game' = "PLAY" /\ live' = r
      /\ rushed' = rushed \cup Pending
           \cup (IF Pending # {} \/ Playing # {} \/ tutorial = "on" THEN {r} ELSE {})
      /\ stirred' = IF Playing = {} THEN "no" ELSE "yes"
      /\ UNCHANGED <<tutorial, ended, recorded, lastEnded, replaying, playback,
                     netVars, uploadVars, finished, untrue>>

\* startGame, with startRecording and game.startRun.
StartGame(mode) ==
  LET r == started + 1
  IN  /\ mode \in {"new", "retry"} /\ started < MaxRuns
      /\ Pressed(mode) /\ shown' = {}
      /\ started' = r /\ active' = r
      /\ seed' = [seed EXCEPT ![r] = IF mode = "retry" THEN seed[lastEnded] ELSE r]
      /\ rand' = Recorder(r)
      /\ game' = "PLAY" /\ live' = r
      /\ rushed' = rushed \cup Pending
           \cup (IF Pending # {} \/ Playing # {} \/ tutorial = "on" THEN {r} ELSE {})
      /\ stirred' = IF Playing = {} THEN "no" ELSE "yes"
      /\ UNCHANGED <<tutorial, ended, recorded, lastEnded, replaying, playback,
                     netVars, uploadVars, finished, untrue>>

\* startTutorial: the recording is dropped (reset), and any replay declared over.
StartTutorial ==
  /\ Pressed("tutorial") /\ shown' = {}
  /\ active' = NoRun /\ replaying' = "no"
  /\ rand' = Seeded /\ tutorial' = "on"
  /\ IF tutorial = "on" THEN UNCHANGED <<game, live>> ELSE game' = "PLAY" /\ live' = NoRun
  /\ rushed' = rushed \cup Pending
  /\ stirred' = IF Playing = {} THEN stirred ELSE "yes"
  /\ UNCHANGED <<started, ended, recorded, seed, lastEnded, playback, netVars,
                 uploadVars, finished, untrue>>

\* toMenu: Escape, the button of the panel, the end of the tutorial.
ToMenu ==
  /\ "over" \in shown \/ "menu" \notin shown
  /\ shown' = {"menu"} /\ tutorial' = "off" /\ game' = "MENU" /\ live' = NoRun
  /\ untrue' = untrue \cup Mixed(NoRun)
  /\ stirred' = IF Playing = {} THEN stirred ELSE "yes"
  /\ UNCHANGED <<recordVars, replayVars, netVars, uploadVars, finished, rushed>>
-----------------------------------------------------------------------------
\* Mutant: only a run that beats the best one is sent.
UploadBetter(r, best, fits) ==
  IF /\ best # NoUser /\ active # NoRun /\ fits
     /\ score[r] > best /\ score[r] > 0
     /\ ~(lastUploaded.seed = seed[active] /\ lastUploaded.best >= best)
     /\ active \in recorded
  THEN /\ uploads' = uploads \cup {[run |-> active, of |-> r]}
       /\ answers' = answers \cup {[seed |-> seed[active], best |-> best]}
  ELSE UNCHANGED <<uploads, answers>>

\* uploadBestRunArtifacts of the run that ended, with the recording there is
\* now.  maybeUploadBestRun sends none that is larger than
\* MAX_REPLAY_UPLOAD_BYTES, which a run of a few minutes is.
Upload(r, best, fits) ==
  IF /\ best # NoUser /\ active # NoRun /\ fits
     /\ score[r] >= best /\ score[r] > 0
     /\ ~(lastUploaded.seed = seed[active] /\ lastUploaded.best >= best)
     /\ active \in recorded
  THEN /\ uploads' = uploads \cup {[run |-> active, of |-> r]}
       /\ answers' = answers \cup {[seed |-> seed[active], best |-> best]}
  ELSE UNCHANGED <<uploads, answers>>

\* markEnded, and the seed kept for "Retry Previous Seed".
MarkEnded ==
  /\ ended' = IF active = NoRun THEN ended ELSE ended \cup {active}
  /\ lastEnded' = IF active = NoRun THEN lastEnded ELSE active

\* The rest of onGameOver after its last await, for the user that the answer
\* names, or after a failure the refresh (nobody, if that fails too).
HandlerEnds(r, best, fits) ==
  /\ request[r] = "waiting" /\ request' = [request EXCEPT ![r] = "done"]
  /\ user' = IF best = NoUser THEN "out" ELSE "in"
  /\ MarkEnded
  /\ Upload(r, best, fits)
  /\ UNCHANGED <<screenVars, active, started, recorded, seed, replayVars, score,
                 lastUploaded, history>>

Recording == active # NoRun /\ active \notin ended

\* recordTick, and what the random source does in the step that follows.
RecordTick ==
  /\ recorded' = IF Recording THEN recorded \cup {active} ELSE recorded
  /\ untrue' = untrue \cup Mixed(live) \cup (IF Recording THEN {} ELSE {live})

\* Mutant: the game goes on behind a replay.
TickingBehind == game = "PLAY"

Ticking == replaying = "no" /\ game = "PLAY"

\* A step of the frame loop that the run survives.
Tick ==
  /\ Ticking /\ tutorial = "off"
  /\ RecordTick
  /\ UNCHANGED <<screenVars, active, started, ended, seed, lastEnded, replayVars, netVars,
                 uploadVars, finished, rushed, stirred>>

\* A step that ends the run: onGameOver up to its first await, or to its end
\* when nobody is signed in; the actions left are dropped.
GameOver(s) ==
  /\ Ticking /\ tutorial = "off"
  /\ RecordTick
  /\ game' = "OVER" /\ shown' = shown \cup {"over"}
  /\ finished' = finished \cup {live}
  /\ score' = [score EXCEPT ![live] = s]
  /\ IF user = "out"
     THEN MarkEnded /\ request' = [request EXCEPT ![live] = "done"]
     ELSE /\ request' = [request EXCEPT ![live] = "waiting"]
          /\ UNCHANGED <<ended, lastEnded>>
  /\ UNCHANGED <<live, tutorial, active, started, seed, replayVars, user, uploadVars, rushed, stirred>>

\* A step of the tutorial; nothing of it is recorded.
TickTutorial ==
  /\ Ticking /\ tutorial = "on"
  /\ untrue' = untrue \cup (Runs \cap {live})
  /\ UNCHANGED <<screenVars, recordVars, replayVars, netVars, uploadVars, finished, rushed,
                 stirred>>

\* _enterStep of the tutorial, also after a game over: every step is a fresh run.
EnterStep ==
  /\ tutorial = "on"
  /\ game' = "PLAY" /\ live' = NoRun
  /\ untrue' = untrue \cup Mixed(NoRun)
  /\ UNCHANGED <<shown, tutorial, recordVars, replayVars, netVars, uploadVars, finished,
                 rushed, stirred>>
-----------------------------------------------------------------------------
\* registerUser, or the end of a refresh that toMenu asked for.
Session ==
  /\ user' \in {"out", "in"}
  /\ UNCHANGED <<screenVars, recordVars, replayVars, request, score, uploadVars, history>>

\* An upload is answered; one that fails is as one without an answer.
UploadAnswered(a) ==
  /\ a \in answers /\ answers' = answers \ {a}
  /\ lastUploaded' = a
  /\ UNCHANGED <<screenVars, recordVars, replayVars, netVars, uploads, history>>
-----------------------------------------------------------------------------
\* play of a recording, up to its first await: panels are hidden and the tape is played.
Play(p) ==
  /\ playback' = [playback EXCEPT ![p] = [at |-> "playing", prev |-> rand, hid |-> shown]]
  /\ replaying' = "yes" /\ rand' = Player(p) /\ shown' = {}
  /\ stirred' = IF Playing = {} THEN stirred ELSE "yes"
  /\ rushed' = IF Playing = {} THEN rushed ELSE rushed \cup (Runs \cap {live})
  /\ UNCHANGED <<game, live, tutorial, recordVars, netVars, uploadVars,
                 finished, untrue>>

\* The buttons of the game over panel: watch the recording, or export it.
Watch(p) ==
  /\ playback[p].at = "idle" /\ "over" \in shown /\ lastEnded # NoRun
  /\ active \in ended \cap recorded
  /\ Play(p)

\* handlePlayHighscore asks for the best run of a player ...
AskReplay(p) ==
  /\ playback[p].at = "idle" /\ "menu" \in shown /\ replaying = "no"
  /\ playback' = [playback EXCEPT ![p] = [NoPlayback EXCEPT !.at = "loading"]]
  /\ UNCHANGED <<screenVars, recordVars, rand, replaying, netVars, uploadVars, history>>

\* ... and plays it once it is there, wherever the player is by then ...
ReplayArrives(p) == playback[p].at = "loading" /\ Play(p)

\* ... unless there is none.
NoReplay(p) ==
  /\ playback[p].at = "loading"
  /\ playback' = [playback EXCEPT ![p] = NoPlayback]
  /\ UNCHANGED <<screenVars, recordVars, rand, replaying, netVars, uploadVars, history>>

\* A tick of a replay draws from whatever is the source by now.
PlaybackTick(p) ==
  /\ playback[p].at = "playing"
  /\ untrue' = untrue \cup Mixed(NoRun)
  /\ UNCHANGED <<screenVars, recordVars, replayVars, netVars, uploadVars, finished,
                 rushed, stirred>>

\* Mutant: the random source is not restored.
PlaybackEndsAbruptly(p) ==
  /\ playback[p].at = "playing"
  /\ rand' = rand /\ shown' = playback[p].hid /\ replaying' = "no"
  /\ playback' = [playback EXCEPT ![p] = NoPlayback]
  /\ UNCHANGED <<game, live, tutorial, recordVars, netVars, uploadVars, history>>

\* The end of a replay, also of one whose tape is too short: source and panels as before.
PlaybackEnds(p) ==
  /\ playback[p].at = "playing"
  /\ rand' = playback[p].prev /\ shown' = playback[p].hid /\ replaying' = "no"
  /\ playback' = [playback EXCEPT ![p] = NoPlayback]
  /\ UNCHANGED <<game, live, tutorial, recordVars, netVars, uploadVars, history>>
-----------------------------------------------------------------------------
Next ==
  \/ StartGame("new") \/ StartGame("retry") \/ StartTutorial \/ ToMenu
  \/ Tick \/ TickTutorial \/ EnterStep
  \/ \E s \in Scores : GameOver(s)
  \/ Session
  \/ \E r \in Runs, best \in Scores \cup {NoUser}, fits \in BOOLEAN : HandlerEnds(r, best, fits)
  \/ \E a \in answers : UploadAnswered(a)
  \/ \E p \in Slots : \/ Watch(p) \/ AskReplay(p) \/ ReplayArrives(p) \/ NoReplay(p)
                      \/ PlaybackTick(p) \/ PlaybackEnds(p)

Spec == Init /\ [][Next]_vars
-----------------------------------------------------------------------------
Faithful(r) == r \notin untrue

\* While a run is played, its recording is open and holds every tick and
\* random number of it, and the run draws from its own tape; unless it was
\* started while a game over was handled or a replay played.
RecordsWhatItPlays ==
  game = "PLAY" /\ tutorial = "off" /\ live \notin rushed =>
    /\ live = active /\ live \notin ended /\ Faithful(live)
    /\ Playing = {} => rand = Recorder(live)

\* A best run sent to the server is the recording of the run whose score it
\* claims, and plays back as that run did; unless that run was followed, or
\* preceded, in haste.
UploadsAreTrue ==
  \A u \in uploads : u.of \in rushed \/ (u.run = u.of /\ Faithful(u.run))

\* Only runs that are over are marked ended, and the seed offered for another
\* try is that of one of them; unless a run was started in haste.
OnlyFinishedRunsEnd ==
  ended \subseteq finished \cup rushed /\ lastEnded \in ended \cup {NoRun}

\* What a game over handler ends and uploads is the run that ended.
HandlersEndTheirRun == UploadsAreTrue /\ OnlyFinishedRunsEnd

\* A run that is not below the best score its handler was told, and whose
\* recording is not too large, is sent to the server, or was one of the same
\* seed that is no worse; unless it was followed in haste.
BestRunIsSent ==
  [][\A r \in Pending \ rushed, best \in Scores :
       HandlerEnds(r, best, TRUE) /\ score[r] > 0 /\ score[r] >= best =>
         \E u \in uploads' : seed[u.run] = seed[r] /\ score[u.of] >= best]_vars

\* Replays that nothing interfered with leave nothing behind: the game does not
\* draw from a tape that may run dry (which would end the frame loop), and a
\* player who is not in a run has a panel to look at.
ReplaysLeaveNothingBehind ==
  stirred = "no" /\ Playing = {} =>
    rand.kind # "player" /\ replaying = "no" /\ (game # "PLAY" => shown # {})
=============================================================================
