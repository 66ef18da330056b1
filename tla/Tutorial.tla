------------------------------ MODULE Tutorial ------------------------------
(***************************************************************************)
(* The tutorial: public/js/tutorial.js with the parts of main.js that      *)
(* start, leave and drive it.                                              *)
(*                                                                         *)
(* Tutorial and runs share one game and one configuration: the tutorial    *)
(* overrides the configuration and the settings when it starts, step by    *)
(* step while it runs, and has to put all of it back however it is left.   *)
(* Every step owns a scene (a ring to reach, an orb, a gate, a wall, a     *)
(* pipe) and ends through what happens to it.  A frame is one turn of the  *)
(* event loop: frame(), ticks of the simulation, renderOverlay(); presses  *)
(* and answers come between frames.  Where things are is reduced to        *)
(* whether they are still to come, and time to whether a delay is over.    *)
(***************************************************************************)
EXTENDS Integers, Sequences

CONSTANTS
  NeededCombo,  \* the orbs to collect in a row, 5
  Tastes,       \* the skill settings of a player, "destroy" among them
  Clicks,       \* bound: the clicks on a button that wait at a time
  NoBackup

ASSUME TutorialAssumption ==
  NeededCombo \in Nat \ {0} /\ "destroy" \in Tastes /\ Clicks \in Nat /\ NoBackup # "own"

VARIABLES
  screen,   \* "menu", "play" or "over"
  pressed,  \* how many starts wait for the sounds, by the button
  asked,    \* is a profile on its way
  coached,  \* tutorial.active
  step,     \* _stepIndex + 1
  intro,    \* _iconIntro
  paused,   \* pauseSim
  waiting,  \* _pendingActions, and those of the replay manager
  scene,    \* what the step has shown of its scene
  phase,    \* where in its frame the page is
  tuning,   \* who each part of game.cfg is from
  cfgBackup, speedBackup,
  taste, chosen, tasteBackup,  \* game.skillSettings, main.js' own, _settingsBackup
  late      \* history: settings came during the tutorial

tutorialVars == <<screen, pressed, asked, coached, step, intro, paused, waiting, scene, phase,
                  tuning, cfgBackup, speedBackup, taste, chosen, tasteBackup, late>>

Steps == <<"move", "orbs", "perfect", "skill_phase", "skill_teleport", "dash_destroy", "practice">>
Lesson == Steps[step]
Teaches == [skill_phase |-> "phase", skill_teleport |-> "teleport", dash_destroy |-> "dash"]
Buttoned == {"start", "tutorial"}
Skills == {"phase", "dash", "teleport", "slowField"}

\* The skills a step unlocks; the steps before the first skill unlock none.
Allowed(lesson) ==
  CASE lesson \in DOMAIN Teaches -> {Teaches[lesson]}
    [] lesson = "practice" -> Skills
    [] OTHER -> {}

\* The parts of the configuration that the tutorial writes.
Parts == {"pipes", "orbs", "perfect", "window", "catalysts", "skills", "speed"}
Own == [p \in Parts |-> "own"]
Taught == [Own EXCEPT !["pipes"] = "taught", !["orbs"] = "taught", !["catalysts"] = "off",
                      !["skills"] = "taught"]

\* goal: the ring, orb, gate, wall or pipe is still to come, passed, or no longer in the game.
\* won, again, used, safe, lit: a success, another try, a skill used, invT and perfectT.
Blank == [goal |-> "none", stage |-> 0, won |-> FALSE, again |-> FALSE, used |-> FALSE,
          safe |-> FALSE, combo |-> 0, lit |-> FALSE]

\* What is there when a step begins; the skills with an intro show their scene after it.
Opening(lesson) ==
  IF lesson \in {"skill_phase", "skill_teleport", "practice"} THEN Blank
  ELSE [Blank EXCEPT !.goal = "coming"]

Boosted(c, lesson) == IF lesson = "move" THEN [c EXCEPT !["speed"] = "taught"] ELSE c
Slowed(c) == IF speedBackup = NoBackup THEN c ELSE [c EXCEPT !["speed"] = speedBackup]

\* _setPerfectEnabled, and _enablePracticeSandbox, which restores most of the scoring.
Scored(c, lesson) ==
  CASE lesson = "perfect" -> [c EXCEPT !["perfect"] = "on", !["window"] = "taught"]
    [] lesson = "practice" ->
         [c EXCEPT !["perfect"] = "on", !["window"] = cfgBackup'["window"],
                   !["pipes"] = cfgBackup'["pipes"], !["orbs"] = cfgBackup'["orbs"],
                   !["catalysts"] = cfgBackup'["catalysts"]]
    [] OTHER -> [c EXCEPT !["perfect"] = "off"]

EnterStep(i, c) ==
  LET lesson == Steps[i] IN
  /\ step' = i
  /\ intro' = IF lesson \in {"skill_phase", "skill_teleport"} THEN "playing" ELSE "none"
  /\ tuning' = Scored(Boosted(Slowed(c), lesson), lesson)
  /\ speedBackup' = IF lesson = "move" THEN Slowed(c)["speed"] ELSE NoBackup
  /\ scene' = Opening(lesson)
  /\ taste' = IF lesson = "dash_destroy" THEN "destroy" ELSE tasteBackup'
  /\ paused' = (paused /\ lesson # "practice")

InStep(i) == UNCHANGED <<cfgBackup, tasteBackup>> /\ EnterStep(i, tuning)
Remain == UNCHANGED <<step, intro, paused, tuning, cfgBackup, speedBackup, taste, tasteBackup>>

-----------------------------------------------------------------------------
(* The screens. *)

TutorialInit ==
  /\ screen = "menu" /\ pressed = [b \in Buttoned |-> 0] /\ asked = FALSE /\ coached = FALSE /\ step = 1
  /\ intro = "none" /\ paused = FALSE /\ waiting = {} /\ scene = Blank /\ phase = "rest"
  /\ tuning = Own /\ cfgBackup = NoBackup /\ speedBackup = NoBackup
  /\ taste \in Tastes /\ chosen = taste /\ tasteBackup = NoBackup /\ late = FALSE

\* A click on a button, or Enter or R; the start itself waits for the sounds.
Press(button) ==
  /\ phase = "rest"
  /\ screen = "menu" \/ (screen = "over" /\ button = "start")
  /\ pressed[button] < Clicks /\ pressed' = [pressed EXCEPT ![button] = @ + 1]
  /\ UNCHANGED <<screen, asked, coached, waiting, scene, phase, cfgBackup, late, chosen>>
  /\ Remain

Takes(button) == pressed[button] > 0 /\ pressed' = [pressed EXCEPT ![button] = @ - 1]

StartTutorialAnew ==  \* mutant: start does not ask whether it is active
  /\ phase = "rest" /\ screen' = "play" /\ coached' = TRUE
  /\ Takes("tutorial")
  /\ cfgBackup' = tuning /\ tasteBackup' = taste
  /\ EnterStep(1, Taught) /\ UNCHANGED waiting
  /\ UNCHANGED <<asked, phase, chosen, late>>

\* startTutorial and Tutorial.start, which does nothing in a tutorial that is under way.
StartTutorial ==
  /\ phase = "rest" /\ screen' = "play" /\ coached' = TRUE
  /\ Takes("tutorial")
  /\ IF coached THEN Remain /\ UNCHANGED <<scene, waiting>>
     ELSE /\ cfgBackup' = tuning /\ tasteBackup' = taste
          /\ EnterStep(1, Taught) /\ UNCHANGED waiting
  /\ UNCHANGED <<asked, phase, chosen, late>>

\* What startRun leaves of a step's scene: the step keeps its ring, the game loses the rest.
Swept(s) ==
  [s EXCEPT !.combo = 0, !.lit = FALSE, !.safe = FALSE,
            !.goal = IF @ = "coming" /\ Lesson \notin {"move", "skill_teleport"} THEN "swept" ELSE @]

\* startGame: a tutorial that is under way stays active.
StartGame ==
  /\ phase = "rest" /\ screen' = "play"
  /\ Takes("start")
  /\ scene' = IF coached THEN Swept(scene) ELSE scene
  /\ UNCHANGED <<asked, coached, waiting, phase, chosen, late>> /\ Remain

StopTutorial ==
  IF coached
  THEN /\ coached' = FALSE /\ paused' = FALSE /\ intro' = "none" /\ waiting' = {} /\ scene' = Blank
       /\ taste' = tasteBackup
       /\ speedBackup' = NoBackup
       /\ tuning' = [cfgBackup EXCEPT !["speed"] = Slowed(tuning)["speed"]]
       /\ UNCHANGED <<step, cfgBackup, tasteBackup>>
  ELSE UNCHANGED <<coached, waiting, scene>> /\ Remain

\* toMenu, by Escape, by the button of the game over panel, or by Enter in practice mode.
ToMenu ==
  /\ phase = "rest" /\ screen # "menu"
  /\ StopTutorial
  /\ screen' = "menu" /\ asked' = TRUE
  /\ UNCHANGED <<pressed, phase, chosen, late>>

\* The profile arrives, with the settings that were last saved, here or elsewhere.
ProfileArrives ==
  /\ phase = "rest" /\ asked /\ asked' = FALSE
  /\ \E s \in Tastes : taste' = s /\ chosen' = s
  /\ late' = coached
  /\ UNCHANGED <<screen, pressed, coached, waiting, scene, phase>>
  /\ UNCHANGED <<step, intro, paused, tuning, cfgBackup, speedBackup, tasteBackup>>

\* The buttons of the panel, Back and Next.
Turn(to) ==
  /\ phase = "rest" /\ coached /\ to \in DOMAIN Steps
  /\ InStep(to)
  /\ UNCHANGED <<screen, pressed, asked, coached, waiting, phase, chosen, late>>

UseSkill(skill) ==
  /\ phase = "rest" /\ screen = "play"
  /\ waiting' = waiting \cup {skill}
  /\ UNCHANGED <<screen, pressed, asked, coached, scene, phase, chosen, late>>
  /\ Remain

-----------------------------------------------------------------------------
(* Frames. *)

BeginFrame ==
  /\ phase = "rest" /\ screen = "play" /\ phase' = "ticks"
  /\ IF coached
     THEN /\ intro' \in (IF intro = "none" THEN {"none"} ELSE {"playing", "done"})
          /\ paused' = (intro # "none")
     ELSE UNCHANGED <<intro, paused>>
  /\ UNCHANGED <<screen, pressed, asked, coached, waiting, scene, chosen, late>>
  /\ UNCHANGED <<step, tuning, cfgBackup, speedBackup, taste, tasteBackup>>

\* The skills drained in this tick that the step lets through.
Applied == IF paused THEN {} ELSE waiting \cap Allowed(Lesson)

\* Collisions end in handleGameOver, which begins the step again within the tick.
Crash == InStep(step)
StepDone == InStep(step + 1)

StepMove == Crash \/ StepDone \/ (Remain /\ UNCHANGED scene)

\* An orb is collected, or disappears and the combo with it, or the combo's time is over; an
\* orb that is gone is followed by the next one.
StepOrbs ==
  \/ Crash
  \/ scene.goal = "coming" /\ scene.combo + 1 >= NeededCombo /\ StepDone
  \/ /\ Remain
     /\ \E combo \in {0, scene.combo} \cup ({scene.combo + 1} \cap 0..NeededCombo - 1) :
          /\ combo > scene.combo => scene.goal = "coming"
          /\ scene' = [scene EXCEPT !.combo = combo, !.goal = "coming"]

\* What a tick does to the gate: it is passed, in its middle or elsewhere, or still to come.
\* As long as the player is within its thickness the middle can still be met, also by one
\* who has passed it.  A gate the game has lost stands still, and is passed if the player
\* happens to move across it.
AfterGate(s) ==
  LET faded == {[s EXCEPT !.lit = l] : l \in {FALSE, s.lit}} IN
  faded \cup {[f EXCEPT !.goal = "passed"] : f \in faded}
        \cup {p \in {[s EXCEPT !.goal = "passed", !.lit = TRUE]} : s.goal \in {"coming", "passed"}}

\* Once no new perfect was seen: after a gate passed elsewhere than in its middle the walls are
\* sent again, 0.75 s later.
TryAgain(s) ==
  /\ Remain
  /\ LET begun == s.again \/ s.goal = "passed" IN
     \E waits \in {FALSE, begun} :
       scene' = IF begun /\ ~waits THEN [s EXCEPT !.again = FALSE, !.goal = "coming"]
                ELSE [s EXCEPT !.again = waits]

\* A perfect shows in perfectT, unless the one before is still shown; the second one ends the
\* step when it has been shown.
StepPerfect ==
  \/ Crash
  \/ \E s \in AfterGate(scene) :
       LET perfect == ~s.won /\ s.lit /\ ~scene.lit IN
       \/ /\ perfect /\ s.stage = 0 /\ Remain
          /\ scene' = [s EXCEPT !.stage = 1, !.again = FALSE, !.goal = "coming"]
       \/ (s.won \/ (perfect /\ s.stage = 1)) /\ Remain /\ scene' = [s EXCEPT !.won = TRUE]
       \/ s.won /\ StepDone
       \/ ~s.won /\ ~perfect /\ TryAgain(s)

\* The wall spans the screen: it passes a player who is safe all along, and ends the run
\* otherwise.
StepSkillPhase ==
  LET pressedNow == "phase" \in Applied
      safe == scene.safe \/ pressedNow IN
  \/ scene.goal = "coming" /\ Crash
  \/ scene.won /\ StepDone
  \/ /\ Remain
     /\ \E goal \in {scene.goal} \cup {g \in {"passed"} : safe /\ scene.goal = "coming"},
           still \in {FALSE, safe} :
          scene' = [scene EXCEPT !.goal = goal, !.safe = still, !.used = @ \/ safe,
                                 !.won = @ \/ (goal = "passed" /\ (scene.used \/ safe))]

\* The cage stands still; a teleport may end in the ring or elsewhere.
StepSkillTeleport ==
  LET used == scene.used \/ "teleport" \in Applied IN
  \/ scene.goal = "coming" /\ Crash
  \/ scene.goal = "coming" /\ used /\ StepDone
  \/ Remain /\ scene' = [scene EXCEPT !.used = used]

\* The pipe is broken, or leaves the screen; a bounce leaves it where it is.
StepDashDestroy ==
  \/ Crash
  \/ scene.won /\ StepDone
  \/ Remain /\ scene' \in {scene, [scene EXCEPT !.goal = "passed", !.won = TRUE]}
  
\* A tick of the simulation.  The actions are drained whether or not they are applied.
Tick ==
  /\ phase = "ticks" /\ screen = "play"
  /\ waiting' = {}
  /\ IF ~coached
     THEN Remain /\ screen' \in {"play", "over"} /\ UNCHANGED scene
     ELSE /\ UNCHANGED screen
          /\ IF paused THEN Remain /\ UNCHANGED scene
             ELSE CASE Lesson = "move" -> StepMove
                    [] Lesson = "orbs" -> StepOrbs
                    [] Lesson = "perfect" -> StepPerfect
                    [] Lesson = "skill_phase" -> StepSkillPhase
                    [] Lesson = "skill_teleport" -> StepSkillTeleport
                    [] Lesson = "dash_destroy" -> StepDashDestroy
                    [] OTHER -> Crash \/ (Remain /\ UNCHANGED scene)
  /\ UNCHANGED <<pressed, asked, coached, phase, chosen, late>>

\* renderOverlay: an intro that is done gives way to its scene.
EndFrame ==
  /\ phase = "ticks" /\ phase' = "rest"
  /\ IF intro = "done"
     THEN /\ intro' = "none" /\ paused' = FALSE /\ waiting' = {}
          /\ scene' = [scene EXCEPT !.goal = "coming"]
     ELSE UNCHANGED <<intro, paused, waiting, scene>>
  /\ UNCHANGED <<screen, pressed, asked, coached, chosen, late>>
  /\ UNCHANGED <<step, tuning, cfgBackup, speedBackup, taste, tasteBackup>>

TutorialNext ==
  \/ \E button \in Buttoned : Press(button)
  \/ StartTutorial
  \/ StartGame
  \/ ToMenu
  \/ ProfileArrives
  \/ \E to \in {step - 1, step + 1} : Turn(to)
  \/ \E skill \in Skills : UseSkill(skill)
  \/ BeginFrame
  \/ Tick
  \/ EndFrame

TutorialSpec == TutorialInit /\ [][TutorialNext]_tutorialVars

-----------------------------------------------------------------------------
TutorialTypeOK ==
  /\ screen \in {"menu", "play", "over"} /\ pressed \in [Buttoned -> 0..Clicks]
  /\ {asked, coached, paused, late} \subseteq BOOLEAN /\ step \in DOMAIN Steps
  /\ intro \in {"none", "playing", "done"} /\ waiting \subseteq Skills
  /\ phase \in {"rest", "ticks"} /\ DOMAIN scene = DOMAIN Blank
  /\ DOMAIN tuning = Parts /\ {taste, chosen} \subseteq Tastes

\* Outside the tutorial the game is the player's: however the tutorial was left, and through
\* whatever steps, Back and Next and starts that came late, the configuration is what it was
\* and the settings are those the menu shows, unless a profile changed them meanwhile (stop
\* puts back the settings it found at the start).  Scores are only sent from such runs.
TutorialLeavesNothing ==
  ~coached => tuning = Own /\ (taste = chosen \/ late)

\* A lesson that has not been learned can still be: its scene is to come, or its success or
\* its repetition under way.  Perfects in a row, walls passed while safe, skills pressed
\* before the scene is there, and crashes in the tick of a success do not use it up.  (A run
\* started by a press that waited for the sounds does: it takes the scene away.)
NeverStuck ==
  coached /\ phase = "rest" /\ Lesson # "practice" /\ scene.goal # "swept" =>
    intro = "playing" \/ scene.goal = "coming" \/ scene.won \/ scene.again

\* The tutorial holds on to nothing: neither to the player, in a lesson that cannot be
\* learned, nor, once it was left, to the game.
TutorialLetsGo == TutorialLeavesNothing /\ NeverStuck
=============================================================================
