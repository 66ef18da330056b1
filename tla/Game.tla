-------------------------------- MODULE Game --------------------------------
(***************************************************************************)
(* A run of the game: public/js/game.js with the pipe and orb spawners,    *)
(* the cooldowns of mechanics.js and the gaps of perfectGaps.js.           *)
(*                                                                         *)
(* Time is counted in simulation steps.  One call of update is a frame: it *)
(* runs alone, and its phases and the turns of its loops are steps of the  *)
(* model, taken in the order of the code (`at`).  Skills, settings and the *)
(* menu act between two frames.  Positions and speeds are continuous and   *)
(* left out; what they decide (which pipe is touched, which gap is crossed *)
(* well, what leaves the field) is chosen freely, within what the geometry *)
(* allows.  Particles, texts, sounds and the statistics no rule reads are  *)
(* left out.                                                               *)
(***************************************************************************)
EXTENDS Integers, FiniteSetsExt

CONSTANTS
  Cooldown,       \* cfg.skills[...].cooldown
  Duration,       \* cfg.skills[...].duration
  MaxBounces,     \* cfg.skills[...].maxBounces; no dash reaches an infinite one
  ImpactIFrames,  \* cfg.skills.dashDestroy.impactIFrames
  Settings,       \* the skill settings a player can choose from
  Configs,        \* the configurations: skills there are, orbs and perfect gaps on or off
  Intervals,      \* what _spawnInterval can be
  FirstSpecial, Cadences,  \* the first special pattern, and those that follow
  Lead,           \* cfg.pipes.warning.leadSeconds
  Loose,          \* the pipes of each plan that belong to no gap
  OrbIntervals, MaxOrbs,   \* cfg.catalysts.orbs
  ComboBase, ComboMin, ComboDecay,
  OrbBase, OrbBonus, PerfectBonus, PipeDodge,  \* cfg.scoring
  MaxPipes,       \* the cap on pipes
  MaxTime,        \* bound: frames of a run
  MaxGaps,        \* bound: walls of a run
  NoMeta

Skills == {"dash", "phase", "teleport", "slowField"}
Config == {"dash", "dashDestroy", "phase", "teleport", "slowField", "slowExplosion"}
Buckets == {"orbs", "perfects", "pipes"}

PipePlans == {"wall", "single"}
SpecialPlans == {"volley", "specialWall"}   \* a volley is a burst or a crossfire
Plans == PipePlans \cup SpecialPlans
NoPlan == "none"

Gaps == 1..MaxGaps
NoGap == 0

SkillSettings ==
  [dashBehavior : {"ricochet", "destroy"}, slowFieldBehavior : {"slow", "explosion"},
   teleportBehavior : {"normal", "explode"}, invulnBehavior : {"short", "long"}]

Configurations == [skills : SUBSET Skills, orbs : BOOLEAN, perfect : BOOLEAN]

Metas == [perfected : BOOLEAN, broken : BOOLEAN, pipesRemaining : Nat]

ASSUME GameAssumption ==
  /\ Cooldown \in [Config -> Nat]
  /\ Duration \in [Config -> Nat]
  /\ MaxBounces \in [Config -> Nat]
  /\ ImpactIFrames \in Nat
  /\ Settings \subseteq SkillSettings /\ Configs \subseteq Configurations
  /\ Intervals \subseteq Nat /\ \A i \in Intervals : i > 1
  /\ FirstSpecial \in Nat \ {0} /\ Cadences \subseteq Nat \ {0}
  /\ Lead \in Nat
  /\ Loose \in [Plans -> Nat]
  /\ OrbIntervals \subseteq Nat /\ MaxOrbs \in Nat
  /\ ComboBase \in Nat /\ ComboMin \in Nat \ {0} /\ ComboDecay \in Nat
  /\ OrbBase \in Nat /\ OrbBonus \in Nat /\ PerfectBonus \in Nat /\ PipeDodge \in Nat
  /\ MaxPipes \in Nat /\ MaxTime \in Nat /\ MaxGaps \in Nat
  /\ NoMeta \notin Metas

VARIABLES
  state,      \* MENU, PLAY or OVER
  at,         \* the phase of the frame, "rest" between two frames
  timeAlive,
  cfg, settings,    \* the configuration and the player's skill settings
  player,     \* the timers of the player's protection and dash
  cds,
  pipeT, specialT, orbT, pendingPipeSpawn, pendingSpecialSpawn, warnings,
  pipes,      \* how many pipes of each gap, and of none, are in the field
  gates, perfected,   \* the gaps whose gate is in the field; those crossed well
  gapMeta, nextGapId,
  leaving,    \* the gates that are beyond the margin in this frame
  orbs, combo, comboTimer, justPickedOrb, perfectCombo,
  score, points, bustercoinsEarned,
  \* history, read by the properties only
  safeUntil,  \* when the protection the player was given ends
  brokenGaps  \* the gaps that lost a pipe to a skill

runVars == <<timeAlive, settings, cfg>>
spawnVars == <<pipeT, specialT, orbT, pendingPipeSpawn, pendingSpecialSpawn, warnings>>
fieldVars == <<pipes, gates, perfected, gapMeta, nextGapId, brokenGaps>>
comboVars == <<combo, comboTimer, justPickedOrb>>
scoreVars == <<score, points, bustercoinsEarned>>
playerVars == <<player, cds, safeUntil>>
vars == <<state, at, runVars, spawnVars, fieldVars, comboVars, scoreVars, playerVars,
          leaving, orbs, perfectCombo>>

Phases ==
  {"rest", "pipes", "specials", "orbs", "gates", "aging", "pickup", "collide",
   "remove", "gone"}

Players ==
  [invT : Nat, dashT : Nat, dashMode : {"none", "ricochet", "destroy"},
   dashBounces : Nat, dashDestroyed : BOOLEAN]

Warnings == [of : {"pipe", "special"}, spawnAt : Int]

TypeOK ==
  /\ state \in {"MENU", "PLAY", "OVER"}
  /\ at \in Phases
  /\ timeAlive \in Nat /\ settings \in SkillSettings /\ cfg \in Configurations
  /\ player \in Players
  /\ cds \in [Skills -> Nat]
  /\ pipeT \in Int /\ specialT \in Int /\ orbT \in Int
  /\ pendingPipeSpawn \in PipePlans \cup {NoPlan}
  /\ pendingSpecialSpawn \in SpecialPlans \cup {NoPlan}
  /\ warnings \subseteq Warnings
  /\ pipes \in [Gaps \cup {NoGap} -> Nat]
  /\ gates \subseteq Gaps /\ perfected \subseteq Gaps /\ leaving \subseteq Gaps
  /\ gapMeta \in [Gaps -> Metas \cup {NoMeta}]
  /\ nextGapId \in Nat \ {0}
  /\ orbs \in Nat /\ combo \in Nat /\ comboTimer \in Nat /\ perfectCombo \in Nat
  /\ justPickedOrb \in BOOLEAN
  /\ score \in Nat /\ bustercoinsEarned \in Nat
  /\ points \in [Buckets -> Nat]
  /\ safeUntil \in Nat /\ brokenGaps \subseteq Gaps
-----------------------------------------------------------------------------
Larger(m, n) == IF m > n THEN m ELSE n
Less(t) == IF t > 0 THEN t - 1 ELSE 0   \* a timer after a frame

StillPlayer ==
  [invT |-> 0, dashT |-> 0, dashMode |-> "none", dashBounces |-> 0, dashDestroyed |-> FALSE]

NoPipes == [g \in Gaps \cup {NoGap} |-> 0]
NoPoints == [b \in Buckets |-> 0]

Init ==
  /\ state = "MENU" /\ at = "rest" /\ timeAlive = 0
  /\ settings \in Settings /\ cfg \in Configs
  /\ player = StillPlayer /\ cds = [s \in Skills |-> 0] /\ safeUntil = 0
  /\ pipeT = 0 /\ specialT = FirstSpecial /\ orbT \in OrbIntervals
  /\ pendingPipeSpawn = NoPlan /\ pendingSpecialSpawn = NoPlan /\ warnings = {}
  /\ pipes = NoPipes
  /\ gates = {} /\ perfected = {} /\ leaving = {} /\ brokenGaps = {}
  /\ gapMeta = [g \in Gaps |-> NoMeta] /\ nextGapId = 1
  /\ orbs = 0 /\ combo = 0 /\ comboTimer = 0 /\ justPickedOrb = FALSE /\ perfectCombo = 0
  /\ score = 0 /\ points = NoPoints /\ bustercoinsEarned = 0

\* _resetRun: all but the score starts afresh.
ResetRun ==
  /\ at = "rest" /\ at' = "rest" /\ timeAlive' = 0
  /\ player' = StillPlayer /\ cds' = [s \in Skills |-> 0] /\ safeUntil' = 0
  /\ pipeT' = 0 /\ specialT' = FirstSpecial /\ orbT' \in OrbIntervals
  /\ pendingPipeSpawn' = NoPlan /\ pendingSpecialSpawn' = NoPlan /\ warnings' = {}
  /\ pipes' = NoPipes
  /\ gates' = {} /\ perfected' = {} /\ leaving' = {} /\ brokenGaps' = {}
  /\ gapMeta' = [g \in Gaps |-> NoMeta] /\ nextGapId' = 1
  /\ orbs' = 0 /\ combo' = 0 /\ comboTimer' = 0 /\ justPickedOrb' = FALSE
  /\ perfectCombo' = 0
  /\ points' = NoPoints /\ bustercoinsEarned' = 0
  /\ UNCHANGED <<settings, cfg>>

\* Between two frames: the menu, a start or restart, the settings panel.
SetStateMenu == ResetRun /\ state' = "MENU" /\ UNCHANGED score

\* Mutant: the score of the last run is kept.
StartRunScored == ResetRun /\ state' = "PLAY" /\ UNCHANGED score

StartRun == ResetRun /\ state' = "PLAY" /\ score' = 0

SetSkillSettings(next) ==
  /\ at = "rest"
  /\ settings' = next
  /\ UNCHANGED <<state, at, timeAlive, cfg, spawnVars, fieldVars, comboVars, scoreVars,
                 playerVars, leaving, orbs, perfectCombo>>
-----------------------------------------------------------------------------
(***************************************************************************)
(* The obstacles.  A wall has two pipes and the gate of the gap between    *)
(* them; gapMeta keeps how the gap fared until its gate or its last pipe   *)
(* leaves.                                                                 *)
(***************************************************************************)
HasGap(plan) == plan \in {"wall", "specialWall"}

\* _executePlannedSpawn and spawnWallFromPlan.
Spawn(plan) ==
  LET g == nextGapId
      free == [pipes EXCEPT ![NoGap] = @ + Loose[plan]]
  IN  IF HasGap(plan)
      THEN /\ pipes' = [free EXCEPT ![g] = @ + 2]
           /\ gates' = gates \cup {g}
           /\ gapMeta' = [gapMeta EXCEPT
                            ![g] = [perfected |-> FALSE, broken |-> FALSE, pipesRemaining |-> 2]]
           /\ nextGapId' = g + 1
           /\ UNCHANGED <<perfected, brokenGaps>>
      ELSE /\ pipes' = free
           /\ UNCHANGED <<gates, gapMeta, nextGapId, perfected, brokenGaps>>

\* A gap that is done with: nothing is left to say of it.
Forget(g) == [gapMeta EXCEPT ![g] = NoMeta]

\* _onGapPipeRemoved, for one pipe.
PipeRemoved(g) ==
  IF g = NoGap \/ gapMeta[g] = NoMeta
  THEN UNCHANGED <<gapMeta, perfectCombo>>
  ELSE LET left == Less(gapMeta[g].pipesRemaining)
       IN  IF gapMeta[g].broken \/ left > 0
           THEN /\ gapMeta' = [gapMeta EXCEPT ![g] = [@ EXCEPT !.pipesRemaining = left]]
                /\ UNCHANGED perfectCombo
           ELSE /\ gapMeta' = Forget(g)
                /\ perfectCombo' = IF gapMeta[g].perfected THEN perfectCombo ELSE 0

\* Mutant: the gap is not marked broken.
ShatterUnmarked(broken) ==
  /\ pipes' = [g \in DOMAIN pipes |-> pipes[g] - broken[g]]
  /\ gapMeta' = [g \in Gaps |->
       IF broken[g] = 0 \/ gapMeta[g] = NoMeta THEN gapMeta[g]
       ELSE [gapMeta[g] EXCEPT !.pipesRemaining = IF @ > broken[g] THEN @ - broken[g] ELSE 0]]
  /\ brokenGaps' = brokenGaps \cup {g \in Gaps : broken[g] > 0}
  /\ UNCHANGED <<gates, perfected, nextGapId>>

\* _shatterPipe, for the pipes of each gap a skill breaks at once.
Shatter(broken) ==
  /\ pipes' = [g \in DOMAIN pipes |-> pipes[g] - broken[g]]
  /\ gapMeta' = [g \in Gaps |->
       IF broken[g] = 0 \/ gapMeta[g] = NoMeta THEN gapMeta[g]
       ELSE [gapMeta[g] EXCEPT
               !.broken = TRUE,
               !.pipesRemaining = IF @ > broken[g] THEN @ - broken[g] ELSE 0]]
  /\ brokenGaps' = brokenGaps \cup {g \in Gaps : broken[g] > 0}
  /\ UNCHANGED <<gates, perfected, nextGapId>>

\* Any part of the pipes in the field, such as those a blast reaches.
Parts ==
  {part \in [DOMAIN pipes -> UNION {0..pipes[g] : g \in DOMAIN pipes}] :
     \A g \in DOMAIN pipes : part[g] <= pipes[g]}
-----------------------------------------------------------------------------
(***************************************************************************)
(* Skills (_useSkill).  One that still cools down does nothing.            *)
(***************************************************************************)
ActiveDash == IF settings.dashBehavior = "destroy" THEN "dashDestroy" ELSE "dash"
ActiveSlow == IF settings.slowFieldBehavior = "explosion" THEN "slowExplosion" ELSE "slowField"
Factor(doubled) == IF doubled THEN 2 ELSE 1

Ready(name) == name \in cfg.skills /\ state = "PLAY" /\ at = "rest" /\ cds[name] = 0

UseDash ==
  /\ Ready("dash")
  /\ player' = [player EXCEPT !.dashT = Duration[ActiveDash],
                              !.dashBounces = 0, !.dashDestroyed = FALSE,
                              !.dashMode = settings.dashBehavior]
  /\ cds' = [cds EXCEPT !["dash"] = Cooldown[ActiveDash]]
  /\ UNCHANGED <<state, at, runVars, spawnVars, fieldVars, comboVars, scoreVars,
                 safeUntil, leaving, orbs, perfectCombo>>

\* Mutant: the phase replaces a protection that lasts longer.
UsePhaseReplaces ==
  LET times == Factor(settings.invulnBehavior = "long")
      dur == times * Duration["phase"]
  IN  /\ Ready("phase")
      /\ player' = [player EXCEPT !.invT = dur]
      /\ safeUntil' = Larger(safeUntil, timeAlive + dur)
      /\ cds' = [cds EXCEPT !["phase"] = times * Cooldown["phase"]]
      /\ UNCHANGED <<state, at, runVars, spawnVars, fieldVars, comboVars, scoreVars,
                     leaving, orbs, perfectCombo>>

UsePhase ==
  LET times == Factor(settings.invulnBehavior = "long")
      dur == times * Duration["phase"]
  IN  /\ Ready("phase")
      /\ player' = [player EXCEPT !.invT = Larger(@, dur)]
      /\ safeUntil' = Larger(safeUntil, timeAlive + dur)
      /\ cds' = [cds EXCEPT !["phase"] = times * Cooldown["phase"]]
      /\ UNCHANGED <<state, at, runVars, spawnVars, fieldVars, comboVars, scoreVars,
                     leaving, orbs, perfectCombo>>

\* A teleport needs a cursor in the field; an exploding one breaks what it
\* lands on.
UseTeleport(blast) ==
  LET explodes == settings.teleportBehavior = "explode"
  IN  /\ Ready("teleport")
      /\ cds' = [cds EXCEPT !["teleport"] = Factor(explodes) * Cooldown["teleport"]]
      /\ IF explodes THEN Shatter(blast) ELSE UNCHANGED fieldVars
      /\ UNCHANGED <<state, at, runVars, spawnVars, comboVars, scoreVars,
                     player, safeUntil, leaving, orbs, perfectCombo>>

UseSlowField(blast) ==
  /\ Ready("slowField")
  /\ cds' = [cds EXCEPT !["slowField"] = Cooldown[ActiveSlow]]
  /\ IF ActiveSlow = "slowExplosion" THEN Shatter(blast) ELSE UNCHANGED fieldVars
  /\ UNCHANGED <<state, at, runVars, spawnVars, comboVars, scoreVars,
                 player, safeUntil, leaving, orbs, perfectCombo>>
-----------------------------------------------------------------------------
(***************************************************************************)
(* update: the timers and the player, which may run into an edge of the    *)
(* field while dashing.                                                    *)
(***************************************************************************)
Ticked ==
  LET dashT == Less(player.dashT)
  IN  [player EXCEPT !.invT = Less(@), !.dashT = dashT,
                     !.dashMode = IF dashT = 0 THEN "none" ELSE @]

AtEdge(p, cap) ==
  IF p.dashT = 0 \/ p.invT > 0 THEN p
  ELSE IF p.dashBounces < cap THEN [p EXCEPT !.dashBounces = @ + 1]
  ELSE [p EXCEPT !.dashMode = "none", !.dashT = 0, !.dashBounces = cap]

BeginFrame(edge) ==
  /\ state = "PLAY" /\ at = "rest" /\ at' = "pipes"
  /\ timeAlive < MaxTime
  /\ timeAlive' = timeAlive + 1
  /\ cds' = [s \in Skills |-> Less(cds[s])]
  /\ player' = IF edge THEN AtEdge(Ticked, MaxBounces[ActiveDash]) ELSE Ticked
  /\ UNCHANGED <<state, settings, cfg, spawnVars, fieldVars, comboVars, scoreVars,
                 safeUntil, leaving, orbs, perfectCombo>>

(***************************************************************************)
(* Spawning.  A plan is chosen and announced when its time is within the   *)
(* warning's lead, and executed when the time has come.                    *)
(***************************************************************************)
\* Bound: the walls of a run, spawned and planned.
Walls(plan) == IF HasGap(plan) THEN 1 ELSE 0
GapsTaken == nextGapId - 1 + Walls(pendingPipeSpawn) + Walls(pendingSpecialSpawn)

\* _maybeSchedulePipeWarning and _maybeScheduleSpecialWarning.
Schedule(of, pending, t, shown, plan) ==
  IF Lead = 0 \/ pending # NoPlan \/ t > Lead
  THEN [pending |-> pending, shown |-> shown]
  ELSE [pending |-> plan, shown |-> shown \cup {[of |-> of, spawnAt |-> timeAlive + Larger(0, t)]}]

Executed(scheduled, plan) == IF scheduled.pending = NoPlan THEN plan ELSE scheduled.pending

SpawnPipes(plan, nextPlan, interval) ==
  LET t == pipeT - 1
      first == Schedule("pipe", pendingPipeSpawn, t, warnings, plan)
      due == t <= 0
      then == IF due THEN Schedule("pipe", NoPlan, t + interval, first.shown, nextPlan) ELSE first
  IN  /\ at = "pipes" /\ at' = "specials"
      /\ pipeT' = IF due THEN t + interval ELSE t
      /\ pendingPipeSpawn' = then.pending
      /\ warnings' = then.shown
      /\ IF due THEN Spawn(Executed(first, plan)) ELSE UNCHANGED fieldVars
      /\ UNCHANGED <<state, runVars, specialT, orbT, pendingSpecialSpawn, comboVars,
                     scoreVars, playerVars, leaving, orbs, perfectCombo>>
      /\ GapsTaken' <= MaxGaps

SpawnSpecial(plan, cadence) ==
  LET t == specialT - 1
      scheduled == Schedule("special", pendingSpecialSpawn, t, warnings, plan)
      due == t <= 0
  IN  /\ at = "specials" /\ at' = "orbs"
      /\ specialT' = IF due THEN cadence ELSE t
      /\ pendingSpecialSpawn' = IF due THEN NoPlan ELSE scheduled.pending
      /\ warnings' = scheduled.shown
      /\ IF due THEN Spawn(Executed(scheduled, plan)) ELSE UNCHANGED fieldVars
      /\ UNCHANGED <<state, runVars, pipeT, orbT, pendingPipeSpawn, comboVars,
                     scoreVars, playerVars, leaving, orbs, perfectCombo>>
      /\ GapsTaken' <= MaxGaps

\* An orb is spawned unless there are enough, and warnings that are over go.
SpawnOrb(interval) ==
  LET t == orbT - 1
  IN  /\ at = "orbs" /\ at' = "gates"
      /\ IF cfg.orbs
         THEN /\ orbT' = IF t <= 0 THEN interval ELSE t
              /\ orbs' = IF t <= 0 /\ orbs < MaxOrbs THEN orbs + 1 ELSE orbs
         ELSE UNCHANGED <<orbT, orbs>>
      /\ warnings' = {w \in warnings : w.spawnAt > timeAlive}
      /\ UNCHANGED <<state, runVars, pipeT, specialT, pendingPipeSpawn, pendingSpecialSpawn,
                     fieldVars, comboVars, scoreVars, playerVars, leaving, perfectCombo>>
-----------------------------------------------------------------------------
\* _addScore.
AddScore(bucket, pts) ==
  /\ score' = score + pts
  /\ points' = [points EXCEPT ![bucket] = @ + pts]

Unbroken(g) == gapMeta[g] = NoMeta \/ ~gapMeta[g].broken

\* resolveGapPerfect, for a gate the player crosses near the middle.
PerfectGap(g) ==
  /\ at = "gates" /\ cfg.perfect
  /\ g \in gates \ perfected /\ Unbroken(g)
  /\ perfected' = perfected \cup {g}
  /\ perfectCombo' = perfectCombo + 1
  /\ AddScore("perfects", PerfectBonus * (perfectCombo + 1))
  /\ gapMeta' = IF gapMeta[g] = NoMeta THEN gapMeta
                ELSE [gapMeta EXCEPT ![g] = [@ EXCEPT !.perfected = TRUE]]
  /\ UNCHANGED <<state, at, runVars, spawnVars, pipes, gates, nextGapId, brokenGaps,
                 comboVars, bustercoinsEarned, playerVars, leaving, orbs>>

EndGates ==
  /\ at = "gates" /\ at' = "aging"
  /\ UNCHANGED <<state, runVars, spawnVars, fieldVars, comboVars, scoreVars, playerVars,
                 leaving, orbs, perfectCombo>>

\* Any number of orbs has lived long enough.
OrbsDie(n) ==
  /\ at = "aging" /\ at' = "pickup"
  /\ n <= orbs /\ orbs' = orbs - n
  /\ justPickedOrb' = FALSE
  /\ UNCHANGED <<state, runVars, spawnVars, fieldVars, combo, comboTimer, scoreVars,
                 playerVars, leaving, perfectCombo>>

OrbPoints(c) == OrbBase + OrbBonus * (c - 1)

ComboWindow(c) == Larger(ComboMin, ComboBase - (c - 1) * ComboDecay)

PickUpOrb ==
  /\ at = "pickup"
  /\ orbs > 0 /\ orbs' = orbs - 1
  /\ combo' = combo + 1
  /\ comboTimer' = ComboWindow(combo + 1)
  /\ justPickedOrb' = TRUE
  /\ bustercoinsEarned' = bustercoinsEarned + 1
  /\ AddScore("orbs", OrbPoints(combo + 1))
  /\ UNCHANGED <<state, at, runVars, spawnVars, fieldVars, playerVars, leaving, perfectCombo>>

\* The combo's timer runs in a frame without an orb, and breaks it at zero.
TickCombo ==
  LET t == IF combo = 0 THEN 0 ELSE IF justPickedOrb THEN comboTimer ELSE Less(comboTimer)
  IN  /\ at = "pickup" /\ at' = "collide"
      /\ comboTimer' = t
      /\ combo' = IF t = 0 THEN 0 ELSE combo
      /\ UNCHANGED <<state, runVars, spawnVars, fieldVars, justPickedOrb, scoreVars,
                     playerVars, leaving, orbs, perfectCombo>>
-----------------------------------------------------------------------------
(***************************************************************************)
(* Collision.  Only the first pipe that is touched matters.                *)
(***************************************************************************)
One(g) == [h \in DOMAIN pipes |-> IF h = g THEN 1 ELSE 0]

NoHit(gone) ==
  /\ at = "collide" /\ at' = "remove"
  /\ leaving' = gone
  /\ UNCHANGED <<state, runVars, spawnVars, fieldVars, comboVars, scoreVars, playerVars,
                 orbs, perfectCombo>>

Touches(g) == at = "collide" /\ player.invT = 0 /\ pipes[g] > 0

Destroys == player.dashT > 0 /\ player.dashMode = "destroy" /\ ~player.dashDestroyed
Bounces == player.dashT > 0 /\ player.dashBounces < MaxBounces[ActiveDash]

\* _applyDashDestroy.
HitDestroys(g, gone) ==
  /\ Touches(g) /\ Destroys /\ at' = "remove"
  /\ Shatter(One(g))
  /\ player' = [player EXCEPT !.dashDestroyed = TRUE, !.dashMode = "none", !.dashT = 0,
                              !.dashBounces = 0, !.invT = Larger(@, ImpactIFrames)]
  /\ safeUntil' = Larger(safeUntil, timeAlive + ImpactIFrames)
  /\ leaving' = gone
  /\ UNCHANGED <<state, runVars, spawnVars, comboVars, scoreVars, cds, orbs, perfectCombo>>

\* _applyDashReflect.
HitReflects(g, gone) ==
  /\ Touches(g) /\ ~Destroys /\ Bounces /\ at' = "remove"
  /\ player' = [player EXCEPT !.dashBounces = @ + 1]
  /\ leaving' = gone
  /\ UNCHANGED <<state, runVars, spawnVars, fieldVars, comboVars, scoreVars, cds, safeUntil,
                 orbs, perfectCombo>>

\* The run is over; the rest of the frame is skipped.
HitEnds(g) ==
  /\ Touches(g) /\ ~Destroys /\ ~Bounces
  /\ state' = "OVER" /\ at' = "rest"
  /\ UNCHANGED <<runVars, spawnVars, fieldVars, comboVars, scoreVars, playerVars, leaving,
                 orbs, perfectCombo>>

(***************************************************************************)
(* What is beyond the margin is removed, each pipe for its points.  A gate *)
(* moves ahead of its wall's pipes, which a slow field may hold back.      *)
(***************************************************************************)
RemovePipe(g) ==
  /\ at = "remove"
  /\ pipes[g] > 0 /\ g \notin gates \ leaving
  /\ pipes' = [pipes EXCEPT ![g] = @ - 1]
  /\ PipeRemoved(g)
  /\ AddScore("pipes", PipeDodge)
  /\ UNCHANGED <<state, at, runVars, spawnVars, gates, perfected, nextGapId, brokenGaps,
                 comboVars, bustercoinsEarned, playerVars, leaving, orbs>>

\* Mutant: the books of a broken gap are left open.
RemoveGatesUnbroken ==
  /\ at = "remove" /\ at' = "gone"
  /\ gates' = gates \ leaving
  /\ gapMeta' = [g \in Gaps |->
       IF g \in leaving /\ gapMeta[g] # NoMeta /\ ~gapMeta[g].broken THEN NoMeta ELSE gapMeta[g]]
  /\ perfectCombo' =
       IF \E g \in leaving : /\ gapMeta[g] # NoMeta
                             /\ ~gapMeta[g].perfected /\ ~gapMeta[g].broken
       THEN 0 ELSE perfectCombo
  /\ leaving' = {}
  /\ UNCHANGED <<state, runVars, spawnVars, pipes, perfected, nextGapId, brokenGaps,
                 comboVars, scoreVars, playerVars, orbs>>

\* _onGapGateRemoved.
RemoveGates ==
  /\ at = "remove" /\ at' = "gone"
  /\ gates' = gates \ leaving
  /\ gapMeta' = [g \in Gaps |-> IF g \in leaving THEN NoMeta ELSE gapMeta[g]]
  /\ perfectCombo' =
       IF \E g \in leaving : /\ gapMeta[g] # NoMeta
                             /\ ~gapMeta[g].perfected /\ ~gapMeta[g].broken
       THEN 0 ELSE perfectCombo
  /\ leaving' = {}
  /\ UNCHANGED <<state, runVars, spawnVars, pipes, perfected, nextGapId, brokenGaps,
                 comboVars, scoreVars, playerVars, orbs>>

Total(f) == MapThenSumSet(LAMBDA g : f[g], DOMAIN f)

\* Too many pipes: the excess is cut off without further ado.
EndFrame(cut) ==
  /\ at = "gone" /\ at' = "rest"
  /\ Total(cut) = Larger(0, Total(pipes) - MaxPipes)
  /\ pipes' = [g \in DOMAIN pipes |-> pipes[g] - cut[g]]
  /\ UNCHANGED <<state, runVars, spawnVars, gates, perfected, gapMeta, nextGapId, brokenGaps,
                 comboVars, scoreVars, playerVars, leaving, orbs, perfectCombo>>

Next ==
  \/ SetStateMenu \/ StartRun
  \/ \E next \in Settings : SetSkillSettings(next)
  \/ UseDash \/ UsePhase
  \/ \E blast \in Parts : UseTeleport(blast) \/ UseSlowField(blast)
  \/ \E edge \in BOOLEAN : BeginFrame(edge)
  \/ \E plan, nextPlan \in PipePlans, i \in Intervals : SpawnPipes(plan, nextPlan, i)
  \/ \E plan \in SpecialPlans, c \in Cadences : SpawnSpecial(plan, c)
  \/ \E i \in OrbIntervals : SpawnOrb(i)
  \/ \E g \in Gaps : PerfectGap(g)
  \/ EndGates \/ PickUpOrb \/ TickCombo
  \/ \E n \in 0..orbs : OrbsDie(n)
  \/ \E gone \in SUBSET gates :
       \/ NoHit(gone)
       \/ \E g \in DOMAIN pipes : HitDestroys(g, gone) \/ HitReflects(g, gone)
  \/ \E g \in DOMAIN pipes : HitEnds(g) \/ RemovePipe(g)
  \/ RemoveGates
  \/ \E cut \in Parts : EndFrame(cut)

Spec == Init /\ [][Next]_vars
-----------------------------------------------------------------------------
\* The score is what its buckets hold: no point is counted twice or outside of
\* the breakdown shown at the end, in any run and at any moment of a frame
\* (_addScore), and every bustercoin of
\* the run comes with the points of an orb.
ScoreIsAccountedFor ==
  state # "MENU" =>
    /\ score = points["orbs"] + points["perfects"] + points["pipes"]
    /\ bustercoinsEarned * OrbBase <= points["orbs"]

\* A combo lives exactly as long as its timer: none is left without time, and
\* no timer runs on without a combo (update, getComboWindow, _breakCombo).
ComboHasTime ==
  at = "rest" => /\ (combo > 0) = (comboTimer > 0)
                 /\ combo > 0 => comboTimer <= ComboWindow(combo)

\* The warnings on screen are those of the plans that wait, for the very frame
\* in which they will be executed.
WarningsAnnouncePlans ==
  at = "rest" =>
    warnings =
      (IF pendingPipeSpawn = NoPlan THEN {}
       ELSE {[of |-> "pipe", spawnAt |-> timeAlive + pipeT]})
      \cup
      (IF pendingSpecialSpawn = NoPlan THEN {}
       ELSE {[of |-> "special", spawnAt |-> timeAlive + specialT]})

\* The books on gaps are kept as long as the gate is in the field, and agree with
\* what happened to gate and pipes: none leaks, none is closed twice.
GapBooks ==
  at = "rest" =>
    \A g \in Gaps :
      /\ (gapMeta[g] # NoMeta) = (g \in gates)
      /\ g \in gates => /\ gapMeta[g].perfected = (g \in perfected)
                        /\ gapMeta[g].broken = (g \in brokenGaps)
                        /\ gapMeta[g].pipesRemaining >= pipes[g]

\* What a frame has to leave behind, whatever of it came in which order: combos with time,
\* warnings that come true, and books that agree with the field.
FrameBooks == ComboHasTime /\ WarningsAnnouncePlans /\ GapBooks

\* A gap that is leaving the field uncrossed, with both its pipes.
Missed(g) == g \in leaving \ (perfected \cup brokenGaps)

\* The streak of perfect gaps grows by one with each gap crossed well that no
\* skill has broken, and is lost in exactly the frames in which a gap leaves
\* that was neither crossed well nor broken, be it by its pipes or by its gate.
StreakFollowsGaps ==
  [][/\ perfectCombo' > perfectCombo =>
          /\ perfectCombo' = perfectCombo + 1
          /\ \E g \in gates \ (perfected \cup brokenGaps) : perfected' = perfected \cup {g}
     /\ perfectCombo' < perfectCombo => perfectCombo' = 0 /\ (at' = "rest" \/ \E g \in Gaps : Missed(g))
     /\ at = "remove" /\ at' = "gone" /\ (\E g \in Gaps : Missed(g)) => perfectCombo' = 0]_vars

\* A player who has just phased, or broken a pipe with a dash, is not hit before
\* that protection ends, whatever is used, bounced off or restarted meanwhile.
NeverHitWhileSafe ==
  [][state = "PLAY" /\ state' = "OVER" => timeAlive >= safeUntil]_vars
=============================================================================
