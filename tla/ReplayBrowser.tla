---------------------------- MODULE ReplayBrowser ----------------------------
(***************************************************************************)
(* The replay browser: its list and selection (replayBrowser.js) and the   *)
(* controller that plays what was selected (replayBrowserPlayer.js).       *)
(*                                                                         *)
(* A selected replay is fetched, kept for good, and loaded into a game     *)
(* that draws from the recorded tape or seed.  The source of random        *)
(* numbers is set up when a replay is loaded, not when it is restarted.    *)
(* Every start of the game and every tick is taken to draw one number, and *)
(* time passes in whole ticks.  Layout, filters and sorting are left out.  *)
(***************************************************************************)
EXTENDS Naturals

CONSTANTS
  Recorded,     \* the players with a stored run
  Taped,        \* those whose runs have a tape of the numbers drawn; others a seed
  Snapshot,     \* those whose runs come with the configuration they were played in
  TotalTicks,   \* the length of each player's runs
  LastVersion,  \* bound: versions of each player's best run
  MaxAsked,     \* bound: what is asked of the server
  MaxFrames,    \* bound: callbacks that wait for the next frame
  MaxLate,      \* bound: ticks of time a frame is late
  NoRun, Own, NotYet

Versions == UNION {1..LastVersion[u] : u \in Recorded}
Runs == Recorded \X Versions
Speeds == {1, 2}

ASSUME BrowserAssumption ==
  /\ Taped \subseteq Recorded /\ Snapshot \subseteq Recorded
  /\ TotalTicks \in [Recorded -> Nat \ {0}]
  /\ LastVersion \in [Recorded -> Nat]
  /\ {MaxAsked, MaxFrames, MaxLate} \subseteq Nat
  /\ {NoRun, Own, NotYet} \cap (Runs \cup Versions) = {}
  /\ NoRun # Own

VARIABLES
  onServer,  \* the version of each player's run on the server
  listedRuns, \* the list as it was loaded
  entry,     \* the selected one
  details,   \* what is shown of it, and of which run
  notice,    \* what the status says
  controls,  \* are the buttons enabled?
  runCache,  \* runs fetched before
  fetches,   \* what was asked for and has not been answered
  fetched,
  crossed,   \* history: the last selection was made while another one was being fetched
  \* The controller:
  run, tickIndex, playing, speed,
  late,      \* time since the last frame; NotYet before the first one
  waiting,   \* callbacks waiting for a frame
  restore,   \* the cosmetics to put back
  \* The game:
  worn, gameCfg, over,
  source, drawn, \* the run its numbers come from, and how many were drawn
  again      \* history: the run was restarted since it was loaded

listVars == <<onServer, listedRuns, entry, details, notice, controls, runCache,
              fetches, fetched, crossed>>
gameVars == <<run, tickIndex, restore, worn, gameCfg, over, source, drawn, again>>
playerVars == <<gameVars, playing, speed, late, waiting>>
replayVars == <<listVars, playerVars>>
-----------------------------------------------------------------------------
Says(what, e) == [says |-> what, of |-> e]

BrowserInit ==
  /\ onServer = [u \in Recorded |-> NoRun]
  /\ listedRuns = {}
  /\ entry = NoRun /\ details = [entry |-> NoRun, run |-> NoRun]
  /\ notice = Says("loading list", NoRun) /\ controls = "disabled"
  /\ runCache = [u \in Recorded |-> NoRun]
  /\ fetches = {[kind |-> "list", n |-> 0, entry |-> NoRun, answer |-> NotYet]}
  /\ fetched = 0 /\ crossed = "no"
  /\ run = NoRun /\ tickIndex = 0 /\ playing = "no" /\ speed = 1
  /\ late = NotYet /\ waiting = 0
  /\ restore = NoRun /\ worn = Own /\ gameCfg = Own /\ over = "no"
  /\ source = NoRun /\ drawn = 0 /\ again = "no"

NewBestRun(u) ==
  /\ onServer[u] # LastVersion[u]
  /\ onServer' = [onServer EXCEPT ![u] = IF @ = NoRun THEN 1 ELSE @ + 1]
  /\ UNCHANGED <<listedRuns, entry, details, notice, controls, runCache, fetches,
                 fetched, crossed, playerVars>>

Fetch(kind, e) ==
  /\ fetched < MaxAsked
  /\ fetches' = fetches \cup {[kind |-> kind, n |-> fetched + 1, entry |-> e, answer |-> NotYet]}
  /\ fetched' = fetched + 1

\* The server reads the list, or the run of one player.  To the page, a run that
\* it is refused is none.
ServeFetch(f) ==
  /\ f.answer = NotYet
  /\ \E answer \in IF f.kind = "run" THEN {onServer[f.entry[1]], NoRun}
                    ELSE {{e \in Runs : onServer[e[1]] = e[2]}} :
       fetches' = (fetches \ {f}) \cup {[f EXCEPT !.answer = answer]}
  /\ UNCHANGED <<onServer, listedRuns, entry, details, notice, controls, runCache,
                 fetched, crossed, playerVars>>

-----------------------------------------------------------------------------
\* Mutant: a source that was set up before is kept.
SourceOfFirst(r) == IF source = NoRun THEN r ELSE source

\* configureRandSources.
SourceOf(r) == r

\* The cosmetics that were there before any run's: those of a run are put back
\* before the next one's are applied.
Undressed == IF restore = NoRun THEN worn ELSE restore

\* loadRun.
LoadRun(r) ==
  /\ run' = r /\ playing' = "no"
  /\ tickIndex' = 0 /\ late' = NotYet
  /\ restore' = Undressed
  /\ worn' = r
  /\ gameCfg' = IF r[1] \in Snapshot THEN r ELSE Own
  /\ source' = SourceOf(r) /\ drawn' = 1 /\ over' = "no" /\ again' = "no"
  /\ UNCHANGED <<speed, waiting>>

\* handleSelect, up to its await and after it.
Ready(e, r) ==
  /\ LoadRun(r)
  /\ details' = [entry |-> e, run |-> r]
  /\ notice' = Says("ready", e)
  /\ controls' = "enabled"

HandleSelect(e) ==
  /\ e \in listedRuns
  /\ entry' = e
  /\ crossed' = IF \E f \in fetches : f.kind = "run" THEN "yes" ELSE "no"
  /\ IF runCache[e[1]] # NoRun
     THEN Ready(e, <<e[1], runCache[e[1]]>>) /\ UNCHANGED <<fetches, fetched>>
     ELSE /\ Fetch("run", e)
          /\ details' = [entry |-> e, run |-> NoRun]
          /\ notice' = Says("loading", e)
          /\ UNCHANGED <<controls, playerVars>>
  /\ UNCHANGED <<onServer, listedRuns, runCache>>

RunArrives(f) ==
  /\ f.kind = "run" /\ f.answer # NotYet
  /\ IF f.answer # NoRun
     THEN /\ runCache' = [runCache EXCEPT ![f.entry[1]] = f.answer]
          /\ Ready(f.entry, <<f.entry[1], f.answer>>)
     ELSE /\ notice' = Says("unavailable", NoRun)
          /\ controls' = "disabled"
          /\ UNCHANGED <<details, runCache, playerVars>>
  /\ fetches' = fetches \ {f}
  /\ UNCHANGED <<onServer, listedRuns, entry, fetched, crossed>>

\* reloadList; what is playing goes on, its buttons disabled.
ReloadList ==
  /\ Fetch("list", NoRun)
  /\ notice' = Says("loading list", NoRun)
  /\ controls' = "disabled"
  /\ UNCHANGED <<onServer, listedRuns, entry, details, runCache, crossed, playerVars>>

ListArrives(f) ==
  /\ f.kind = "list" /\ f.answer # NotYet
  /\ listedRuns' = f.answer
  /\ IF f.answer = {}
     THEN /\ notice' = Says("nothing saved", NoRun)
          /\ details' = [entry |-> NoRun, run |-> NoRun]
     ELSE /\ notice' = Says("select", NoRun)
          /\ UNCHANGED details
  /\ fetches' = fetches \ {f}
  /\ UNCHANGED <<onServer, entry, controls, runCache, fetched, crossed, playerVars>>

\* A call that fails: only that of a list is caught.
FetchFails(f) ==
  /\ notice' = IF f.kind = "list" THEN Says("failed", NoRun) ELSE notice
  /\ fetches' = fetches \ {f}
  /\ UNCHANGED <<onServer, listedRuns, entry, details, controls, runCache, fetched,
                 crossed, playerVars>>
-----------------------------------------------------------------------------
Total == TotalTicks[run[1]]

\* The tape of a run, of its start and its ticks, has been played.
TapeIsOut == run[1] \in Taped /\ drawn > Total

Enabled == controls = "enabled"

\* restart, and what becomes of playing: nothing is drawn from a tape that is out,
\* and what follows is not done.
StartOver(then) ==
  /\ tickIndex' = 0
  /\ over' = "no" /\ again' = "yes"
  /\ IF TapeIsOut
     THEN playing' = "no" /\ UNCHANGED <<drawn, waiting>>
     ELSE /\ drawn' = drawn + 1
          /\ playing' = then
          /\ waiting' = IF then = "yes" THEN waiting + 1 ELSE waiting
  /\ late' = NotYet
  /\ UNCHANGED <<run, speed, restore, worn, gameCfg, source>>

\* A seed never runs out; a bound on how often its run is restarted.
MayStartOver == drawn <= Total + 1

RestartPressed == Enabled /\ MayStartOver /\ StartOver("no") /\ UNCHANGED listVars

\* The button Play.
Play ==
  /\ Enabled /\ waiting < MaxFrames
  /\ IF tickIndex >= Total \/ over = "yes" THEN MayStartOver /\ StartOver("yes")
     ELSE /\ playing = "no"
          /\ playing' = "yes" /\ waiting' = waiting + 1
          /\ UNCHANGED <<gameVars, speed, late>>
  /\ UNCHANGED listVars

Pause ==
  /\ Enabled /\ playing = "yes"
  /\ playing' = "no"
  /\ UNCHANGED <<gameVars, speed, late, waiting, listVars>>

SetSpeed(s) ==
  /\ Enabled /\ s # speed /\ speed' = s
  /\ UNCHANGED <<gameVars, playing, late, waiting, listVars>>

\* How n ticks may go: a recording ends the game with its last tick, a game that draws other
\* numbers ends whenever it does, and one that is over draws none.
Outcomes(n) ==
  IF over = "yes"
  THEN {[ticks |-> IF n > 0 THEN 1 ELSE 0, drawn |-> 0, over |-> "yes", throws |-> "no"]}
  ELSE IF again = "no"
  THEN {[ticks |-> n, drawn |-> n, over |-> IF tickIndex + n = Total THEN "yes" ELSE "no",
         throws |-> "no"]}
  ELSE LET left == IF run[1] \notin Taped \/ drawn + n <= Total + 1 THEN n ELSE Total + 1 - drawn
       IN  {[ticks |-> m, drawn |-> m, over |-> "yes", throws |-> "no"] : m \in 1..left}
           \cup {[ticks |-> left, drawn |-> left, over |-> "no",
                  throws |-> IF left < n THEN "yes" ELSE "no"]}

Apply(o) ==
  /\ tickIndex' = tickIndex + o.ticks
  /\ drawn' = drawn + o.drawn
  /\ over' = o.over
  /\ UNCHANGED <<run, speed, restore, worn, gameCfg, source, again>>

StepOnce ==
  /\ Enabled /\ tickIndex < Total /\ over = "no"
  /\ \E o \in Outcomes(1) : Apply(o)
  /\ UNCHANGED <<playing, late, waiting, listVars>>

\* frameLoop.
Frame ==
  /\ waiting > 0
  /\ IF playing = "no"
     THEN /\ waiting' = waiting - 1
          /\ UNCHANGED <<gameVars, playing, speed, late>>
     ELSE LET due == IF late = NotYet THEN 0 ELSE late * speed
              left == Total - tickIndex
          IN  \E o \in Outcomes(IF due < left THEN due ELSE left) :
                /\ Apply(o)
                /\ late' = 0
                /\ LET ends == o.over = "yes" \/ tickIndex' >= Total
                   IN  /\ playing' = IF ends /\ o.throws = "no" THEN "no" ELSE playing
                       /\ waiting' = IF ends \/ o.throws = "yes" THEN waiting - 1 ELSE waiting
  /\ UNCHANGED listVars

\* Time passes whether or not the replay is paused.
ReplayTime ==
  /\ late # NotYet /\ late < MaxLate
  /\ late' = late + 1
  /\ UNCHANGED <<gameVars, playing, speed, waiting, listVars>>

BrowserNext ==
  \/ \E u \in Recorded : NewBestRun(u)
  \/ \E e \in listedRuns : HandleSelect(e)
  \/ \E f \in fetches : ServeFetch(f) \/ RunArrives(f) \/ ListArrives(f) \/ FetchFails(f)
  \/ ReloadList \/ RestartPressed \/ Play \/ Pause \/ StepOnce \/ Frame \/ ReplayTime
  \/ \E s \in Speeds : SetSpeed(s)

BrowserSpec == BrowserInit /\ [][BrowserNext]_replayVars
-----------------------------------------------------------------------------
\* The game that plays a run is set up for it, draws its numbers, and is as far
\* as the recording was when it drew as many, unless it was restarted.
PlaysTheRecording ==
  run # NoRun =>
    /\ source = run /\ worn = run /\ gameCfg = (IF run[1] \in Snapshot THEN run ELSE Own)
    /\ restore = Own
    /\ tickIndex <= Total
    /\ again = "no" => drawn = tickIndex + 1

\* A replay that is playing goes on, unless it was restarted and its tape is out.
KeepsPlaying == playing = "yes" /\ waiting = 0 => again = "yes" /\ TapeIsOut

\* A replay that is said to be ready is the one that is loaded and described;
\* and it is the one that is selected, unless that was selected while another
\* one was being fetched.
ReadyIsLoaded ==
  notice.says = "ready" =>
    /\ details = [entry |-> notice.of, run |-> run] /\ run[1] = notice.of[1]
    /\ Enabled
    /\ crossed = "no" => entry = notice.of

\* Whatever is selected, fetched, reloaded, played and paused in any order.
BrowserPlaysWhatItSays == PlaysTheRecording /\ KeepsPlaying /\ ReadyIsLoaded
=============================================================================
