----------------------------- MODULE MCScreens ------------------------------
(***************************************************************************)
(* Small instances of what the page does around a run: the cosmetics menu  *)
(* and its saves, achievements, the tutorial, the standalone engine, the   *)
(* controls and the themes.                                                *)
(* They share no state here (a player's choices are drawn by the game and  *)
(* nothing else of it depends on them), so a behaviour runs one of them.   *)
(***************************************************************************)
EXTENDS Menus, Achievements, Tutorial, Engine, Controls, Themes, TLC

CONSTANTS flowA, flowB, tab1, tab2

VARIABLE part

\* The menu: of the icons one has to be bought.
MCChoices ==
  [trail |-> {"classic", "neon"}, icon |-> {"dot", "gem"}, texture |-> {"plain", "brick"},
   mode |-> {"calm", "wild"}, settings |-> {"s0", "s1"}, binds |-> {"b0", "b1"}]
MCDefault ==
  [trail |-> "classic", icon |-> "dot", texture |-> "plain", mode |-> "calm",
   settings |-> "s0", binds |-> "b0"]

\* Achievements: of one run, of the best run, of all runs together, and edits that
\* repeat an id, change a requirement or add a definition.
MCCatalog ==
  [clean |-> ("maxOrbs" :> 0 @@ "minScore" :> 1), deft |-> ("minOrbs" :> 1 @@ "minPerfects" :> 1),
   keen |-> ("totalOrbs" :> 2), first |-> ("minScore" :> 2)]
MCEdits ==
  {None, <<>>,
   <<[id |-> "keen", requirement |-> ("totalOrbs" :> 1 @@ "maxOrbs" :> 1)],
     [id |-> "keen", requirement |-> ("totalOrbs" :> 1)]>>,
   <<[id |-> "keen", requirement |-> ("totalOrbs" :> 1 @@ "minScore" :> 1)],
     [id |-> "new", requirement |-> ("totalRuns" :> 1)]>>}

\* The engine: a world so small that a dash reaches its sides.
MCWorld ==
  [width |-> 2, height |-> 2, gravity |-> 1, jumpImpulse |-> 1, maxFallSpeed |-> 1,
   dashSpeed |-> 1, dashDuration |-> 2, phaseDuration |-> 1, eventBufferSize |-> 3]

\* Controls: three skills.  What is loaded is nothing, another set, and one that the server
\* takes and of which the page refuses a part.
MCActionList == <<"dash", "phase", "teleport">>
MCDefaultBinds == [dash |-> "KeyE", phase |-> "m2", teleport |-> "m0"]
MCLoadable ==
  {[a \in Bindable |-> Missing], [dash |-> "m0", phase |-> "m2", teleport |-> "KeyE"],
   [dash |-> "m2", phase |-> "m4", teleport |-> "m0"]}

\* Themes: a color and a range.
MCLibrary ==
  [aurora |-> [bg |-> 0, alpha |-> 0], ember |-> [bg |-> 1, alpha |-> 1]]
MCDefaultValues == [bg |-> 0, alpha |-> 1]
MCPalettes == {[bg |-> 1]}
MCTexts == {Garbled, [bg |-> BadValue, alpha |-> Beyond]}
\* What is stored may be from before the presets were changed.
MCFound ==
  {NothingStored,
   [active |-> "ember", last |-> "ember", mode |-> "none", made |-> Custom,
    values |-> [bg |-> BadValue, alpha |-> Beyond]]}

Flowing == Permutations(Flows)

screenVars == <<menuVars, achievementVars, tutorialVars, engineVars>>
settingVars == <<controlVars, themeVars>>

ScreensInit ==
  /\ part \in {"menus", "achievements", "tutorial", "engine", "controls", "themes"}
  /\ MenusInit /\ AchievementsInit /\ TutorialInit /\ EngineInit
  /\ ControlsInit /\ ThemesInit
  /\ part # "menus" => kinds = {}
  /\ part = "menus" /\ watched = "owned" => kinds = {"icon"}
  /\ part # "tutorial" => taste = "destroy"
  /\ part # "engine" => driver = "loop"
  /\ part # "controls" => binds = DefaultBinds /\ stored = cookie
  /\ part # "themes" => storage = NothingStored

ScreensNext ==
  \/ /\ part = "menus" /\ MenusNext
     /\ UNCHANGED <<part, settingVars, achievementVars, tutorialVars, engineVars>>
  \/ /\ part = "achievements" /\ AchievementsNext
     /\ UNCHANGED <<part, settingVars, menuVars, tutorialVars, engineVars>>
  \/ /\ part = "tutorial" /\ TutorialNext
     /\ UNCHANGED <<part, settingVars, menuVars, achievementVars, engineVars>>
  \/ /\ part = "engine" /\ EngineNext
     /\ UNCHANGED <<part, settingVars, menuVars, achievementVars, tutorialVars>>
  \/ /\ part = "controls" /\ ControlsNext
     /\ UNCHANGED <<part, screenVars, themeVars>>
  \/ /\ part = "themes" /\ ThemesNext
     /\ UNCHANGED <<part, screenVars, controlVars>>

ScreensSpec ==
  ScreensInit /\ [][ScreensNext]_<<part, screenVars, settingVars>>

ScreensTypeOK ==
  /\ MenusTypeOK /\ AchievementsTypeOK /\ TutorialTypeOK /\ EngineTypeOK
  /\ ControlsTypeOK /\ ThemesTypeOK
=============================================================================
