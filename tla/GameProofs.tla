------------------------------ MODULE GameProofs ------------------------------
(***************************************************************************)
(* Proofs about a run of the game, for any configuration, any settings and *)
(* runs of any length.                                                     *)
(***************************************************************************)
EXTENDS Game, TLAPS

LEMMA Products == \A a, b \in Nat : a * b \in Nat
OBVIOUS

LEMMA LargerIs ==
  \A a, b \in Int : /\ Larger(a, b) \in Int
                    /\ Larger(a, b) >= a /\ Larger(a, b) >= b
                    /\ Larger(a, b) \in {a, b}
BY DEF Larger

LEMMA LessIs ==
  \A t \in Nat : Less(t) \in Nat /\ (t > 0 => Less(t) = t - 1) /\ (t = 0 => Less(t) = 0)
BY DEF Less

\* What a combo leaves the player to find the next orb.
LEMMA WindowIsOpen ==
  \A c \in Nat : ComboWindow(c) \in Nat \ {0}
<1> SUFFICES ASSUME NEW c \in Nat PROVE ComboWindow(c) \in Nat \ {0}
  OBVIOUS
<1>1. (c - 1) * ComboDecay \in Int
  BY GameAssumption
<1> QED
  BY <1>1, GameAssumption, LargerIs DEF ComboWindow

LEMMA PointsAreNaturals ==
  /\ \A c \in Nat : OrbPoints(c + 1) \in Nat /\ OrbPoints(c + 1) >= OrbBase
  /\ \A c \in Nat : PerfectBonus * (c + 1) \in Nat
<1>1. \A c \in Nat : OrbBonus * c \in Nat /\ PerfectBonus * (c + 1) \in Nat
  BY GameAssumption, Products
<1>2. \A c \in Nat : OrbPoints(c + 1) = OrbBase + OrbBonus * c
  BY GameAssumption DEF OrbPoints
<1> QED
  BY <1>1, <1>2, GameAssumption

\* What a phase lasts and how long a skill cools down.
LEMMA SkillTimes ==
  /\ \A c \in Config : Cooldown[c] \in Nat /\ Duration[c] \in Nat /\ MaxBounces[c] \in Nat
  /\ \A b \in BOOLEAN, n \in Nat : Factor(b) * n \in Nat
  /\ ActiveDash \in Config /\ ActiveSlow \in Config
BY GameAssumption DEF Config, Factor, ActiveDash, ActiveSlow

LEMMA PartsAre ==
  ASSUME TypeOK, NEW part \in Parts
  PROVE  /\ part \in [Gaps \cup {NoGap} -> Nat]
         /\ \A g \in Gaps \cup {NoGap} : part[g] <= pipes[g]
<1>1. DOMAIN pipes = Gaps \cup {NoGap}
  BY DEF TypeOK
<1>2. part \in [DOMAIN pipes -> UNION {0..pipes[g] : g \in DOMAIN pipes}]
  BY DEF Parts
<1>3. \A g \in DOMAIN pipes : 0..pipes[g] \subseteq Nat
  BY DEF TypeOK
<1>4. UNION {0..pipes[g] : g \in DOMAIN pipes} \subseteq Nat
  BY <1>3
<1> QED
  BY <1>1, <1>2, <1>4 DEF Parts
-----------------------------------------------------------------------------
(***************************************************************************)
(* Types: first the effects actions share, then the actions.               *)
(***************************************************************************)
FieldTypeOK ==
  /\ pipes \in [Gaps \cup {NoGap} -> Nat]
  /\ gates \subseteq Gaps /\ perfected \subseteq Gaps /\ brokenGaps \subseteq Gaps
  /\ gapMeta \in [Gaps -> Metas \cup {NoMeta}]
  /\ nextGapId \in Nat \ {0}

LEMMA SpawnTypes ==
  ASSUME TypeOK, NEW plan \in Plans, Spawn(plan), HasGap(plan) => nextGapId <= MaxGaps
  PROVE  FieldTypeOK'
<1>1. Loose[plan] \in Nat
  BY GameAssumption
<1>2. CASE HasGap(plan)
  <2> DEFINE free == [pipes EXCEPT ![NoGap] = @ + Loose[plan]]
  <2>1. nextGapId \in Gaps
    BY <1>2, GameAssumption DEF TypeOK, Gaps
  <2>2. free \in [Gaps \cup {NoGap} -> Nat]
    BY <1>1 DEF TypeOK
  <2>3. pipes' = [free EXCEPT ![nextGapId] = @ + 2]
    BY <1>2 DEF Spawn
  <2>4. pipes' \in [Gaps \cup {NoGap} -> Nat]
    <3> HIDE DEF free
    <3> QED
      BY <2>1, <2>2, <2>3
  <2>5. [perfected |-> FALSE, broken |-> FALSE, pipesRemaining |-> 2] \in Metas
    BY DEF Metas
  <2>6. gapMeta' \in [Gaps -> Metas \cup {NoMeta}]
    BY <1>2, <2>1, <2>5 DEF Spawn, TypeOK
  <2>7. /\ gates' = gates \cup {nextGapId} /\ nextGapId' = nextGapId + 1
        /\ perfected' = perfected /\ brokenGaps' = brokenGaps
    BY <1>2 DEF Spawn
  <2>8. /\ gates' \subseteq Gaps /\ perfected' \subseteq Gaps /\ brokenGaps' \subseteq Gaps
        /\ nextGapId' \in Nat \ {0}
    BY <2>1, <2>7 DEF TypeOK
  <2> QED
    BY <2>4, <2>6, <2>8 DEF FieldTypeOK
<1>3. CASE ~HasGap(plan)
  BY <1>1, <1>3 DEF Spawn, TypeOK, FieldTypeOK
<1> QED
  BY <1>2, <1>3

LEMMA ShatterTypes ==
  ASSUME TypeOK, NEW broken \in [Gaps \cup {NoGap} -> Nat],
         \A g \in Gaps \cup {NoGap} : broken[g] <= pipes[g], Shatter(broken)
  PROVE  FieldTypeOK'
<1>1. pipes' \in [Gaps \cup {NoGap} -> Nat]
  <2>1. DOMAIN pipes = Gaps \cup {NoGap} /\ \A g \in Gaps \cup {NoGap} : pipes[g] \in Nat
    BY DEF TypeOK
  <2>2. \A g \in Gaps \cup {NoGap} : pipes[g] - broken[g] \in Nat
    BY <2>1
  <2> QED
    BY <2>1, <2>2 DEF Shatter
<1>2. gapMeta' \in [Gaps -> Metas \cup {NoMeta}]
  <2> SUFFICES ASSUME NEW g \in Gaps, broken[g] # 0, gapMeta[g] # NoMeta
               PROVE  [gapMeta[g] EXCEPT
                         !.broken = TRUE,
                         !.pipesRemaining = IF @ > broken[g] THEN @ - broken[g] ELSE 0]
                        \in Metas
    BY DEF Shatter, TypeOK
  <2>1. gapMeta[g] \in Metas /\ broken[g] \in Nat
    BY DEF TypeOK
  <2> DEFINE left == IF gapMeta[g].pipesRemaining > broken[g]
                     THEN gapMeta[g].pipesRemaining - broken[g] ELSE 0
  <2>2. left \in Nat
    BY <2>1 DEF Metas
  <2>3. [gapMeta[g] EXCEPT !.broken = TRUE, !.pipesRemaining = left] \in Metas
    <3> HIDE DEF left
    <3> QED
      BY <2>1, <2>2 DEF Metas
  <2> QED
    BY <2>3
<1> QED
  BY <1>1, <1>2 DEF Shatter, TypeOK, FieldTypeOK

LEMMA OneIsPart ==
  ASSUME TypeOK, NEW g \in Gaps \cup {NoGap}, pipes[g] > 0
  PROVE  /\ One(g) \in [Gaps \cup {NoGap} -> Nat]
         /\ \A h \in Gaps \cup {NoGap} : One(g)[h] <= pipes[h]
<1>1. DOMAIN pipes = Gaps \cup {NoGap}
  BY DEF TypeOK
<1>2. \A h \in Gaps \cup {NoGap} : pipes[h] \in Nat
  BY DEF TypeOK
<1> QED
  BY <1>1, <1>2 DEF One

LEMMA PipeRemovedTypes ==
  ASSUME TypeOK, NEW g \in Gaps \cup {NoGap}, PipeRemoved(g)
  PROVE  gapMeta' \in [Gaps -> Metas \cup {NoMeta}] /\ perfectCombo' \in Nat
<1>1. CASE g = NoGap \/ gapMeta[g] = NoMeta
  BY <1>1 DEF PipeRemoved, TypeOK
<1>2. CASE g # NoGap /\ gapMeta[g] # NoMeta
  <2> DEFINE left == Less(gapMeta[g].pipesRemaining)
             kept == [gapMeta[g] EXCEPT !.pipesRemaining = left]
  <2>1. g \in Gaps /\ gapMeta[g] \in Metas
    BY <1>2 DEF TypeOK
  <2>2. left \in Nat
    BY <2>1, LessIs DEF Metas
  <2>3. kept \in Metas
    <3> HIDE DEF left
    <3> QED
      BY <2>1, <2>2 DEF Metas
  <2>4. \/ gapMeta' = [gapMeta EXCEPT ![g] = kept] /\ UNCHANGED perfectCombo
        \/ gapMeta' = Forget(g) /\ perfectCombo' \in {perfectCombo, 0}
    BY <1>2 DEF PipeRemoved
  <2> QED
    <3> HIDE DEF kept
    <3> QED
      BY <2>1, <2>3, <2>4 DEF TypeOK, Forget
<1> QED
  BY <1>1, <1>2

LEMMA AddScoreTypes ==
  ASSUME TypeOK, NEW bucket \in Buckets, NEW pts \in Nat, AddScore(bucket, pts)
  PROVE  score' \in Nat /\ points' \in [Buckets -> Nat]
BY DEF AddScore, TypeOK

LEMMA AtEdgeTypes ==
  ASSUME NEW p \in Players, NEW cap \in Nat
  PROVE  AtEdge(p, cap) \in Players /\ AtEdge(p, cap).invT = p.invT
<1>1. /\ p.dashBounces + 1 \in Nat
      /\ [p EXCEPT !.dashBounces = @ + 1] \in Players
      /\ [p EXCEPT !.dashBounces = @ + 1].invT = p.invT
  BY DEF Players
<1>2. /\ [p EXCEPT !.dashMode = "none", !.dashT = 0, !.dashBounces = cap] \in Players
      /\ [p EXCEPT !.dashMode = "none", !.dashT = 0, !.dashBounces = cap].invT = p.invT
  BY DEF Players
<1> QED
  BY <1>1, <1>2 DEF AtEdge

LEMMA TickedTypes ==
  ASSUME TypeOK
  PROVE  Ticked \in Players /\ Ticked.invT = Less(player.invT)
<1>1. player \in Players /\ Less(player.dashT) \in Nat /\ Less(player.invT) \in Nat
  BY LessIs DEF TypeOK, Players
<1> QED
  BY <1>1 DEF Ticked, Players

LEMMA ResetTypes ==
  ASSUME TypeOK, ResetRun, state' \in {"MENU", "PLAY"}, score' \in Nat
  PROVE  TypeOK'
<1>1. StillPlayer \in Players
  BY DEF StillPlayer, Players
<1>2. /\ NoPipes \in [Gaps \cup {NoGap} -> Nat]
      /\ NoPoints \in [Buckets -> Nat]
      /\ FirstSpecial \in Int /\ OrbIntervals \subseteq Int
  BY GameAssumption DEF NoPipes, NoPoints
<1>3. /\ at' \in Phases /\ timeAlive' \in Nat /\ cds' \in [Skills -> Nat]
      /\ player' \in Players /\ safeUntil' \in Nat
      /\ pipeT' \in Int /\ specialT' \in Int /\ orbT' \in Int
      /\ pendingPipeSpawn' \in PipePlans \cup {NoPlan}
      /\ pendingSpecialSpawn' \in SpecialPlans \cup {NoPlan}
      /\ warnings' \subseteq Warnings
  BY <1>1, <1>2 DEF ResetRun, Phases
<1>4. /\ pipes' \in [Gaps \cup {NoGap} -> Nat]
      /\ gates' \subseteq Gaps /\ perfected' \subseteq Gaps /\ leaving' \subseteq Gaps
      /\ brokenGaps' \subseteq Gaps
      /\ gapMeta' \in [Gaps -> Metas \cup {NoMeta}] /\ nextGapId' \in Nat \ {0}
  BY <1>2 DEF ResetRun
<1>5. /\ orbs' \in Nat /\ combo' \in Nat /\ comboTimer' \in Nat /\ perfectCombo' \in Nat
      /\ justPickedOrb' \in BOOLEAN /\ points' \in [Buckets -> Nat]
      /\ bustercoinsEarned' \in Nat
      /\ settings' \in SkillSettings /\ cfg' \in Configurations
  BY <1>2 DEF ResetRun, TypeOK
<1> QED
  BY <1>3, <1>4, <1>5 DEF TypeOK

LEMMA InitTypes == Init => TypeOK
<1> SUFFICES ASSUME Init PROVE TypeOK
  OBVIOUS
<1>1. StillPlayer \in Players
  BY DEF StillPlayer, Players
<1>2. /\ NoPipes \in [Gaps \cup {NoGap} -> Nat]
      /\ NoPoints \in [Buckets -> Nat]
      /\ FirstSpecial \in Int /\ OrbIntervals \subseteq Int
  BY GameAssumption DEF NoPipes, NoPoints
<1>3. /\ at \in Phases /\ timeAlive \in Nat /\ cds \in [Skills -> Nat]
      /\ player \in Players /\ safeUntil \in Nat
      /\ pipeT \in Int /\ specialT \in Int /\ orbT \in Int
      /\ pendingPipeSpawn \in PipePlans \cup {NoPlan}
      /\ pendingSpecialSpawn \in SpecialPlans \cup {NoPlan}
      /\ warnings \subseteq Warnings
  BY <1>1, <1>2 DEF Init, Phases
<1>4. /\ pipes \in [Gaps \cup {NoGap} -> Nat]
      /\ gates \subseteq Gaps /\ perfected \subseteq Gaps /\ leaving \subseteq Gaps
      /\ brokenGaps \subseteq Gaps
      /\ gapMeta \in [Gaps -> Metas \cup {NoMeta}] /\ nextGapId \in Nat \ {0}
  BY <1>2 DEF Init
<1>5. /\ orbs \in Nat /\ combo \in Nat /\ comboTimer \in Nat /\ perfectCombo \in Nat
      /\ justPickedOrb \in BOOLEAN /\ points \in [Buckets -> Nat]
      /\ bustercoinsEarned \in Nat /\ score \in Nat
      /\ settings \in SkillSettings /\ cfg \in Configurations
      /\ state \in {"MENU", "PLAY", "OVER"}
  BY <1>2, GameAssumption DEF Init
<1> QED
  BY <1>3, <1>4, <1>5 DEF TypeOK

\* What a skill does to the player and the field leaves them well typed.
LEMMA SkillTypes ==
  ASSUME TypeOK
  PROVE  /\ UseDash => TypeOK'
         /\ UsePhase => TypeOK'
         /\ \A blast \in Parts : UseTeleport(blast) \/ UseSlowField(blast) => TypeOK'
<1> USE DEF runVars, spawnVars, comboVars, scoreVars
<1>1. ASSUME UseDash PROVE TypeOK'
  <2> DEFINE dashing == [player EXCEPT !.dashT = Duration[ActiveDash],
                              !.dashBounces = 0, !.dashDestroyed = FALSE,
                              !.dashMode = settings.dashBehavior]
  <2>1. settings.dashBehavior \in {"ricochet", "destroy"}
    BY DEF TypeOK, SkillSettings
  <2>2. dashing \in Players
    BY <2>1, SkillTimes DEF TypeOK, Players
  <2>3. cds' \in [Skills -> Nat]
    BY <1>1, SkillTimes DEF UseDash, TypeOK
  <2>4. player' = dashing
    BY <1>1 DEF UseDash
  <2> HIDE DEF dashing
  <2> QED
    BY <1>1, <2>2, <2>3, <2>4 DEF UseDash, fieldVars, TypeOK
<1>2. ASSUME UsePhase PROVE TypeOK'
  <2> DEFINE times == Factor(settings.invulnBehavior = "long")
             dur == times * Duration["phase"]
  <2>1. dur \in Nat /\ times * Cooldown["phase"] \in Nat
    BY SkillTimes DEF Config
  <2>2. player' = [player EXCEPT !.invT = Larger(player.invT, dur)]
    BY <1>2 DEF UsePhase
  <2>3. safeUntil' = Larger(safeUntil, timeAlive + dur)
    BY <1>2 DEF UsePhase
  <2>4. cds' = [cds EXCEPT !["phase"] = times * Cooldown["phase"]]
    BY <1>2 DEF UsePhase
  <2> HIDE DEF times, dur
  <2>5. player' \in Players
    <3> DEFINE t == Larger(player.invT, dur)
    <3>1. player \in Players /\ player.invT \in Nat
      BY DEF TypeOK, Players
    <3>2. dur \in Int
      BY <2>1
    <3>3. t \in Int /\ t >= player.invT
      BY <3>1, <3>2 DEF Larger
    <3>4. t \in Nat
      BY <3>1, <3>3
    <3>5. player' = [player EXCEPT !.invT = t]
      BY <2>2
    <3> HIDE DEF t
    <3> QED
      BY <3>1, <3>4, <3>5 DEF Players
  <2>6. safeUntil' \in Nat
    BY <2>1, <2>3, LargerIs DEF TypeOK
  <2>7. cds' \in [Skills -> Nat]
    BY <2>1, <2>4 DEF TypeOK
  <2> QED
    BY <1>2, <2>5, <2>6, <2>7 DEF UsePhase, fieldVars, TypeOK
<1>3. ASSUME NEW blast \in Parts, UseTeleport(blast) \/ UseSlowField(blast) PROVE TypeOK'
  <2>1. Shatter(blast) => FieldTypeOK'
    BY PartsAre, ShatterTypes
  <2>2. UNCHANGED fieldVars => FieldTypeOK'
    BY DEF fieldVars, TypeOK, FieldTypeOK
  <2>3. FieldTypeOK'
    BY <1>3, <2>1, <2>2 DEF UseTeleport, UseSlowField
  <2>4. cds' \in [Skills -> Nat]
    BY ZenonT(30), <1>3, SkillTimes DEF UseTeleport, UseSlowField, TypeOK, Config
  <2> QED
    BY <1>3, <2>3, <2>4 DEF UseTeleport, UseSlowField, TypeOK, FieldTypeOK
<1> QED
  BY <1>1, <1>2, <1>3

LEMMA ScheduleTypes ==
  ASSUME TypeOK, NEW of \in {"pipe", "special"}, NEW P, NEW pending \in P \cup {NoPlan},
         NEW t \in Int, NEW shown \in SUBSET Warnings, NEW plan \in P
  PROVE  /\ Schedule(of, pending, t, shown, plan).pending \in P \cup {NoPlan}
         /\ Schedule(of, pending, t, shown, plan).shown \subseteq Warnings
<1>1. [of |-> of, spawnAt |-> timeAlive + Larger(0, t)] \in Warnings
  BY LargerIs DEF Warnings, TypeOK
<1> QED
  BY <1>1 DEF Schedule

\* The walls spawned are within their bound.
LEMMA WallHasRoom ==
  ASSUME TypeOK, NEW plan, Spawn(plan), HasGap(plan), GapsTaken' <= MaxGaps,
         pendingPipeSpawn' \in PipePlans \cup {NoPlan},
         pendingSpecialSpawn' \in SpecialPlans \cup {NoPlan}
  PROVE  nextGapId <= MaxGaps
<1>1. nextGapId' = nextGapId + 1
  BY DEF Spawn
<1>2. Walls(pendingPipeSpawn') \in {0, 1} /\ Walls(pendingSpecialSpawn') \in {0, 1}
  BY DEF Walls
<1>3. GapsTaken' = nextGapId' - 1 + Walls(pendingPipeSpawn') + Walls(pendingSpecialSpawn')
  BY DEF GapsTaken
<1> QED
  BY <1>1, <1>2, <1>3, GameAssumption DEF TypeOK

LEMMA SpawnPipesTypes ==
  ASSUME TypeOK, NEW plan \in PipePlans, NEW nextPlan \in PipePlans, NEW i \in Intervals,
         SpawnPipes(plan, nextPlan, i)
  PROVE  TypeOK'
<1> DEFINE t == pipeT - 1
           first == Schedule("pipe", pendingPipeSpawn, t, warnings, plan)
           due == t <= 0
           again == Schedule("pipe", NoPlan, t + i, first.shown, nextPlan)
<1>1. t \in Int /\ i \in Int
  BY GameAssumption DEF TypeOK
<1>2. first.pending \in PipePlans \cup {NoPlan} /\ first.shown \subseteq Warnings
  BY <1>1, ScheduleTypes DEF TypeOK
<1>3. again.pending \in PipePlans \cup {NoPlan} /\ again.shown \subseteq Warnings
  <2>1. t + i \in Int /\ NoPlan \in PipePlans \cup {NoPlan} /\ first.shown \in SUBSET Warnings
    BY <1>1, <1>2
  <2> HIDE DEF first, t
  <2> QED
    BY <2>1, ScheduleTypes
<1>4. /\ pendingPipeSpawn' = IF due THEN again.pending ELSE first.pending
      /\ warnings' = IF due THEN again.shown ELSE first.shown
      /\ pipeT' = IF due THEN t + i ELSE t
      /\ IF due THEN Spawn(Executed(first, plan)) ELSE UNCHANGED fieldVars
      /\ at' \in Phases /\ GapsTaken' <= MaxGaps
      /\ UNCHANGED <<state, runVars, specialT, orbT, pendingSpecialSpawn, comboVars,
                     scoreVars, playerVars, leaving, orbs, perfectCombo>>
  BY DEF SpawnPipes, Phases
<1>5. Executed(first, plan) \in PipePlans
  BY <1>2 DEF Executed
<1> HIDE DEF first, again, t, due
<1>6. /\ pendingPipeSpawn' \in PipePlans \cup {NoPlan} /\ warnings' \subseteq Warnings
      /\ pipeT' \in Int
  BY <1>1, <1>2, <1>3, <1>4
<1>7. FieldTypeOK'
  <2>1. CASE ~due
    BY <1>4, <2>1 DEF fieldVars, TypeOK, FieldTypeOK
  <2>2. CASE due
    <3>1. pendingSpecialSpawn' \in SpecialPlans \cup {NoPlan}
      BY <1>4 DEF TypeOK
    <3> QED
      BY <1>4, <1>5, <1>6, <2>2, <3>1, SpawnTypes, WallHasRoom DEF Plans
  <2> QED
    BY <2>1, <2>2
<1> QED
  BY <1>4, <1>6, <1>7 DEF TypeOK, FieldTypeOK, runVars, comboVars, scoreVars, playerVars

LEMMA SpawnSpecialTypes ==
  ASSUME TypeOK, NEW plan \in SpecialPlans, NEW cadence \in Cadences,
         SpawnSpecial(plan, cadence)
  PROVE  TypeOK'
<1> DEFINE t == specialT - 1
           scheduled == Schedule("special", pendingSpecialSpawn, t, warnings, plan)
           due == t <= 0
<1>1. t \in Int /\ cadence \in Int
  BY GameAssumption DEF TypeOK
<1>2. /\ scheduled.pending \in SpecialPlans \cup {NoPlan}
      /\ scheduled.shown \subseteq Warnings
  BY <1>1, ScheduleTypes DEF TypeOK
<1>3. /\ pendingSpecialSpawn' = IF due THEN NoPlan ELSE scheduled.pending
      /\ warnings' = scheduled.shown
      /\ specialT' = IF due THEN cadence ELSE t
      /\ IF due THEN Spawn(Executed(scheduled, plan)) ELSE UNCHANGED fieldVars
      /\ at' \in Phases /\ GapsTaken' <= MaxGaps
      /\ UNCHANGED <<state, runVars, pipeT, orbT, pendingPipeSpawn, comboVars,
                     scoreVars, playerVars, leaving, orbs, perfectCombo>>
  BY DEF SpawnSpecial, Phases
<1>4. Executed(scheduled, plan) \in SpecialPlans
  BY <1>2 DEF Executed
<1> HIDE DEF scheduled, t, due
<1>5. /\ pendingSpecialSpawn' \in SpecialPlans \cup {NoPlan} /\ warnings' \subseteq Warnings
      /\ specialT' \in Int
  BY <1>1, <1>2, <1>3
<1>6. FieldTypeOK'
  <2>1. CASE ~due
    BY <1>3, <2>1 DEF fieldVars, TypeOK, FieldTypeOK
  <2>2. CASE due
    <3>1. pendingPipeSpawn' \in PipePlans \cup {NoPlan}
      BY <1>3 DEF TypeOK
    <3> QED
      BY <1>3, <1>4, <1>5, <2>2, <3>1, SpawnTypes, WallHasRoom DEF Plans
  <2> QED
    BY <2>1, <2>2
<1> QED
  BY <1>3, <1>5, <1>6 DEF TypeOK, FieldTypeOK, runVars, comboVars, scoreVars, playerVars

LEMMA ScoringTypes ==
  ASSUME TypeOK
  PROVE  /\ \A g \in Gaps : PerfectGap(g) => TypeOK'
         /\ PickUpOrb => TypeOK'
         /\ \A g \in Gaps \cup {NoGap} : RemovePipe(g) => TypeOK'
<1> USE DEF runVars, spawnVars, comboVars, playerVars
<1>1. ASSUME NEW g \in Gaps, PerfectGap(g) PROVE TypeOK'
  <2>1. score' \in Nat /\ points' \in [Buckets -> Nat]
    BY <1>1, AddScoreTypes, PointsAreNaturals DEF PerfectGap, Buckets, TypeOK
  <2>2. gapMeta' \in [Gaps -> Metas \cup {NoMeta}]
    <3>1. gapMeta[g] # NoMeta => [gapMeta[g] EXCEPT !.perfected = TRUE] \in Metas
      BY DEF TypeOK, Metas
    <3> QED
      BY <1>1, <3>1 DEF PerfectGap, TypeOK
  <2> QED
    BY <1>1, <2>1, <2>2 DEF PerfectGap, TypeOK
<1>2. ASSUME PickUpOrb PROVE TypeOK'
  <2>1. score' \in Nat /\ points' \in [Buckets -> Nat]
    BY <1>2, AddScoreTypes, PointsAreNaturals DEF PickUpOrb, Buckets, TypeOK
  <2>2. comboTimer' \in Nat
    BY <1>2, WindowIsOpen DEF PickUpOrb, TypeOK
  <2> QED
    BY <1>2, <2>1, <2>2 DEF PickUpOrb, fieldVars, TypeOK
<1>3. ASSUME NEW g \in Gaps \cup {NoGap}, RemovePipe(g) PROVE TypeOK'
  <2>1. score' \in Nat /\ points' \in [Buckets -> Nat]
    BY <1>3, AddScoreTypes, GameAssumption DEF RemovePipe, Buckets
  <2>2. gapMeta' \in [Gaps -> Metas \cup {NoMeta}] /\ perfectCombo' \in Nat
    BY <1>3, PipeRemovedTypes DEF RemovePipe
  <2>3. pipes' \in [Gaps \cup {NoGap} -> Nat]
    BY <1>3 DEF RemovePipe, TypeOK
  <2> QED
    BY <1>3, <2>1, <2>2, <2>3 DEF RemovePipe, TypeOK
<1> QED
  BY <1>1, <1>2, <1>3

LEMMA FrameTypes ==
  ASSUME TypeOK
  PROVE  /\ \A edge \in BOOLEAN : BeginFrame(edge) => TypeOK'
         /\ \A i \in OrbIntervals : SpawnOrb(i) => TypeOK'
         /\ \A n \in 0..orbs : OrbsDie(n) => TypeOK'
         /\ EndGates \/ TickCombo \/ RemoveGates => TypeOK'
         /\ \A cut \in Parts : EndFrame(cut) => TypeOK'
<1> USE DEF runVars, comboVars, scoreVars
<1>1. ASSUME NEW edge \in BOOLEAN, BeginFrame(edge) PROVE TypeOK'
  <2>1. player' \in Players
    BY <1>1, TickedTypes, AtEdgeTypes, SkillTimes DEF BeginFrame
  <2>2. cds' \in [Skills -> Nat]
    BY <1>1, LessIs DEF BeginFrame, TypeOK
  <2> QED
    BY <1>1, <2>1, <2>2 DEF BeginFrame, spawnVars, fieldVars, TypeOK, Phases
<1>2. ASSUME NEW i \in OrbIntervals, SpawnOrb(i) PROVE TypeOK'
  <2>1. orbT' \in Int /\ orbs' \in Nat /\ warnings' \subseteq Warnings
    BY <1>2, GameAssumption DEF SpawnOrb, TypeOK
  <2> QED
    BY <1>2, <2>1 DEF SpawnOrb, fieldVars, playerVars, TypeOK, Phases
<1>3. ASSUME NEW n \in 0..orbs, OrbsDie(n) PROVE TypeOK'
  <2>1. orbs' \in Nat
    BY <1>3 DEF OrbsDie, TypeOK
  <2>2. justPickedOrb' = FALSE
    BY <1>3 DEF OrbsDie
  <2> QED
    BY <1>3, <2>1, <2>2 DEF OrbsDie, spawnVars, fieldVars, playerVars, TypeOK, Phases
<1>4. ASSUME EndGates \/ TickCombo \/ RemoveGates PROVE TypeOK'
  <2>1. CASE EndGates
    BY <2>1 DEF EndGates, spawnVars, fieldVars, playerVars, TypeOK, Phases
  <2>2. CASE TickCombo
    <3>1. comboTimer' \in Nat /\ combo' \in Nat
      BY <2>2, LessIs DEF TickCombo, TypeOK
    <3> QED
      BY <2>2, <3>1 DEF TickCombo, spawnVars, fieldVars, playerVars, TypeOK, Phases
  <2>3. CASE RemoveGates
    <3>1. /\ gapMeta' \in [Gaps -> Metas \cup {NoMeta}] /\ perfectCombo' \in Nat
          /\ gates' \subseteq Gaps /\ leaving' \subseteq Gaps
      BY <2>3 DEF RemoveGates, TypeOK
    <3> QED
      BY <2>3, <3>1 DEF RemoveGates, spawnVars, playerVars, TypeOK, Phases
  <2> QED
    BY <1>4, <2>1, <2>2, <2>3
<1>5. ASSUME NEW cut \in Parts, EndFrame(cut) PROVE TypeOK'
  <2>1. pipes' \in [Gaps \cup {NoGap} -> Nat]
    <3>1. DOMAIN pipes = Gaps \cup {NoGap} /\ \A g \in Gaps \cup {NoGap} : pipes[g] \in Nat
      BY DEF TypeOK
    <3>2. \A g \in Gaps \cup {NoGap} : pipes[g] - cut[g] \in Nat
      BY <3>1, PartsAre
    <3> QED
      BY <1>5, <3>1, <3>2 DEF EndFrame
  <2> QED
    BY <1>5, <2>1 DEF EndFrame, spawnVars, playerVars, TypeOK, Phases
<1> QED
  BY <1>1, <1>2, <1>3, <1>4, <1>5

LEMMA CollisionTypes ==
  ASSUME TypeOK, NEW gone \in SUBSET gates, NEW g \in Gaps \cup {NoGap}
  PROVE  NoHit(gone) \/ HitDestroys(g, gone) \/ HitReflects(g, gone) \/ HitEnds(g) => TypeOK'
<1> USE DEF runVars, spawnVars, comboVars, scoreVars
<1>1. ASSUME NoHit(gone) PROVE TypeOK'
  BY <1>1 DEF NoHit, fieldVars, playerVars, TypeOK, Phases
<1>2. ASSUME HitDestroys(g, gone) PROVE TypeOK'
  <2>1. FieldTypeOK'
    BY <1>2, OneIsPart, ShatterTypes DEF HitDestroys, Touches
  <2>2. player' \in Players
    <3>1. Larger(player.invT, ImpactIFrames) \in Nat
      <4>1. player.invT \in Nat
        BY DEF TypeOK, Players
      <4> QED
        BY <4>1, GameAssumption DEF Larger
    <3> DEFINE t == Larger(player.invT, ImpactIFrames)
    <3>2. player' = [player EXCEPT !.dashDestroyed = TRUE, !.dashMode = "none", !.dashT = 0,
                              !.dashBounces = 0, !.invT = t]
      BY <1>2 DEF HitDestroys
    <3>3. t \in Nat
      BY <3>1
    <3> HIDE DEF t
    <3> QED
      BY <3>2, <3>3 DEF TypeOK, Players
  <2>3. safeUntil' \in Nat
    BY <1>2, GameAssumption DEF HitDestroys, Larger, TypeOK
  <2> QED
    BY <1>2, <2>1, <2>2, <2>3 DEF HitDestroys, TypeOK, FieldTypeOK, Phases
<1>3. ASSUME HitReflects(g, gone) PROVE TypeOK'
  <2>1. player' \in Players
    BY <1>3 DEF HitReflects, TypeOK, Players
  <2> QED
    BY <1>3, <2>1 DEF HitReflects, fieldVars, TypeOK, Phases
<1>4. ASSUME HitEnds(g) PROVE TypeOK'
  BY <1>4 DEF HitEnds, fieldVars, playerVars, TypeOK, Phases
<1> QED
  BY <1>1, <1>2, <1>3, <1>4

LEMMA TypesKept == TypeOK /\ [Next]_vars => TypeOK'
<1> SUFFICES ASSUME TypeOK, [Next]_vars PROVE TypeOK'
  OBVIOUS
<1> DEFINE field == Gaps \cup {NoGap}
<1>1. DOMAIN pipes = field
  BY DEF TypeOK
<1>2. CASE SetStateMenu \/ StartRun
  BY <1>2, ResetTypes DEF SetStateMenu, StartRun, TypeOK
<1>3. CASE \E next \in Settings : SetSkillSettings(next)
  BY <1>3, GameAssumption DEF SetSkillSettings, spawnVars, fieldVars, comboVars, scoreVars,
                              playerVars, TypeOK
<1>4. CASE UseDash \/ UsePhase \/ \E blast \in Parts : UseTeleport(blast) \/ UseSlowField(blast)
  BY <1>4, SkillTypes
<1>5. CASE \E plan, nextPlan \in PipePlans, i \in Intervals : SpawnPipes(plan, nextPlan, i)
  BY <1>5, SpawnPipesTypes
<1>6. CASE \E plan \in SpecialPlans, c \in Cadences : SpawnSpecial(plan, c)
  BY <1>6, SpawnSpecialTypes
<1>7. CASE \/ \E edge \in BOOLEAN : BeginFrame(edge)
           \/ \E i \in OrbIntervals : SpawnOrb(i)
           \/ \E n \in 0..orbs : OrbsDie(n)
           \/ EndGates \/ TickCombo \/ RemoveGates
           \/ \E cut \in Parts : EndFrame(cut)
  BY <1>7, FrameTypes
<1>8. CASE PickUpOrb \/ (\E g \in Gaps : PerfectGap(g)) \/ \E g \in field : RemovePipe(g)
  BY <1>8, ScoringTypes
<1>9. CASE \E gone \in SUBSET gates : \/ NoHit(gone)
                                     \/ \E g \in field : \/ HitDestroys(g, gone)
                                                         \/ HitReflects(g, gone)
  BY <1>9, CollisionTypes
<1>10. CASE \E g \in field : HitEnds(g)
  BY <1>10, CollisionTypes
<1>11. CASE UNCHANGED vars
  BY <1>11 DEF vars, runVars, spawnVars, fieldVars, comboVars, scoreVars, playerVars, TypeOK
<1> QED
  <2> HIDE DEF field
  <2> QED
    BY <1>1, <1>2, <1>3, <1>4, <1>5, <1>6, <1>7, <1>8, <1>9, <1>10, <1>11 DEF Next

\* Every reachable state of the game is well typed: counters stay natural, and no wall
\* is spawned whose gap was not set up (game.js update).
THEOREM TypeCorrect == Spec => []TypeOK
BY InitTypes, TypesKept, PTL DEF Spec
-----------------------------------------------------------------------------
(***************************************************************************)
(* Which actions touch what.                                               *)
(***************************************************************************)
Removes == \E g \in DOMAIN pipes : RemovePipe(g)
Crosses == \E g \in Gaps : PerfectGap(g)
Breaks == \E blast \in Parts : UseTeleport(blast) \/ UseSlowField(blast)
Destroying == \E gone \in SUBSET gates, g \in DOMAIN pipes : HitDestroys(g, gone)
Reflecting == \E gone \in SUBSET gates, g \in DOMAIN pipes : HitReflects(g, gone)
Ending == \E g \in DOMAIN pipes : HitEnds(g)
Begins == \E edge \in BOOLEAN : BeginFrame(edge)

LEMMA WhoScores ==
  [Next]_vars =>
    \/ SetStateMenu \/ StartRun \/ Crosses \/ PickUpOrb \/ Removes
    \/ UNCHANGED scoreVars
BY DEF Next, vars, Removes, Crosses, SetSkillSettings, UseDash, UsePhase, UseTeleport, UseSlowField,
       BeginFrame, SpawnPipes, SpawnSpecial, SpawnOrb, EndGates, OrbsDie, TickCombo,
       NoHit, HitDestroys, HitReflects, HitEnds, RemoveGates, EndFrame

LEMMA WhoCombines ==
  [Next]_vars =>
    \/ SetStateMenu \/ StartRun \/ PickUpOrb \/ TickCombo
    \/ UNCHANGED <<combo, comboTimer>>
BY DEF Next, vars, comboVars, SetSkillSettings, UseDash, UsePhase, UseTeleport, UseSlowField,
       BeginFrame, SpawnPipes, SpawnSpecial, SpawnOrb, PerfectGap, EndGates, OrbsDie,
       NoHit, HitDestroys, HitReflects, HitEnds, RemovePipe, RemoveGates, EndFrame

LEMMA WhoProtects ==
  ASSUME TypeOK, [Next]_vars
  PROVE  \/ SetStateMenu \/ StartRun \/ UsePhase \/ Begins \/ Destroying
         \/ /\ UNCHANGED <<timeAlive, safeUntil>>
            /\ player'.invT = player.invT
<1>1. \/ SetStateMenu \/ StartRun \/ UsePhase \/ Begins \/ Destroying
      \/ UseDash \/ Reflecting
      \/ UNCHANGED <<timeAlive, player, safeUntil>>
  BY DEF Next, vars, runVars, playerVars, Destroying, Reflecting, Begins,
       SetSkillSettings, UseTeleport, UseSlowField,
       SpawnPipes, SpawnSpecial, SpawnOrb, PerfectGap, EndGates, OrbsDie, PickUpOrb, TickCombo,
       NoHit, HitEnds, RemovePipe, RemoveGates, EndFrame
<1>2. UseDash \/ Reflecting =>
        UNCHANGED <<timeAlive, safeUntil>> /\ player'.invT = player.invT
  BY DEF UseDash, Reflecting, HitReflects, runVars, TypeOK, Players
<1> QED
  BY <1>1, <1>2
-----------------------------------------------------------------------------
(***************************************************************************)
(* Score.                                                                  *)
(***************************************************************************)
FrameInPlay == at # "rest" => state = "PLAY"

LEMMA WhoStarts ==
  [Next]_vars => SetStateMenu \/ StartRun \/ Ending \/ UNCHANGED state
BY DEF Next, vars, Ending, SetSkillSettings, UseDash, UsePhase, UseTeleport, UseSlowField,
       BeginFrame, SpawnPipes, SpawnSpecial, SpawnOrb, PerfectGap, EndGates, OrbsDie,
       PickUpOrb, TickCombo, NoHit, HitDestroys, HitReflects, RemovePipe, RemoveGates,
       EndFrame

LEMMA FrameInPlayKept == FrameInPlay /\ [Next]_vars => FrameInPlay'
<1>1. [Next]_vars => at' = "rest" \/ at # "rest" \/ Begins
  BY DEF Next, vars, Begins, SetStateMenu, StartRun, ResetRun, Ready,
         SetSkillSettings, UseDash, UsePhase, UseTeleport, UseSlowField,
         SpawnPipes, SpawnSpecial, SpawnOrb, PerfectGap, EndGates, OrbsDie,
         PickUpOrb, TickCombo, Touches, NoHit, HitDestroys, HitReflects, HitEnds, RemovePipe,
         RemoveGates, EndFrame
<1>2. SetStateMenu \/ StartRun \/ Ending => at' = "rest"
  BY DEF SetStateMenu, StartRun, ResetRun, Ending, HitEnds
<1>3. Begins => state = "PLAY"
  BY DEF Begins, BeginFrame
<1> QED
  BY <1>1, <1>2, <1>3, WhoStarts DEF FrameInPlay

ScoreInv == TypeOK /\ FrameInPlay /\ ScoreIsAccountedFor

LEMMA AddScoreKeeps ==
  ASSUME ScoreInv, state # "MENU", NEW bucket \in Buckets, NEW pts \in Nat,
         AddScore(bucket, pts)
  PROVE  /\ score' = points'["orbs"] + points'["perfects"] + points'["pipes"]
         /\ points'["orbs"] = IF bucket = "orbs" THEN points["orbs"] + pts ELSE points["orbs"]
BY DEF ScoreInv, ScoreIsAccountedFor, AddScore, TypeOK, Buckets

LEMMA ScoreInit == Init => FrameInPlay /\ ScoreIsAccountedFor
BY DEF Init, FrameInPlay, ScoreIsAccountedFor

LEMMA ScoreKept == ScoreInv /\ [Next]_vars => ScoreInv'
<1> SUFFICES ASSUME ScoreInv, [Next]_vars PROVE ScoreInv'
  OBVIOUS
<1>1. TypeOK' /\ FrameInPlay'
  BY TypesKept, FrameInPlayKept DEF ScoreInv
<1> SUFFICES ASSUME state' # "MENU" PROVE ScoreIsAccountedFor'
  BY <1>1 DEF ScoreInv, ScoreIsAccountedFor
<1>2. CASE SetStateMenu
  BY <1>2 DEF SetStateMenu
<1>3. CASE StartRun
  BY <1>3, GameAssumption DEF StartRun, ResetRun, NoPoints, Buckets, ScoreIsAccountedFor
<1>4. CASE Crosses
  <2> PICK g \in Gaps : PerfectGap(g)
    BY <1>4 DEF Crosses
  <2>1. state # "MENU" /\ UNCHANGED bustercoinsEarned
    BY DEF PerfectGap, ScoreInv, FrameInPlay
  <2>2. AddScore("perfects", PerfectBonus * (perfectCombo + 1))
    BY DEF PerfectGap, Unbroken
  <2> QED
    BY <2>1, <2>2, AddScoreKeeps, PointsAreNaturals
       DEF ScoreIsAccountedFor, ScoreInv, Buckets, TypeOK
<1>5. CASE PickUpOrb
  <2>1. state # "MENU"
    BY <1>5 DEF PickUpOrb, ScoreInv, FrameInPlay
  <2>2. AddScore("orbs", OrbPoints(combo + 1)) /\ bustercoinsEarned' = bustercoinsEarned + 1
    BY <1>5 DEF PickUpOrb
  <2>3. OrbPoints(combo + 1) \in Nat /\ OrbPoints(combo + 1) >= OrbBase
    BY PointsAreNaturals DEF ScoreInv, TypeOK
  <2>4. bustercoinsEarned' * OrbBase = bustercoinsEarned * OrbBase + OrbBase
    BY <2>2, GameAssumption DEF ScoreInv, TypeOK
  <2>5. bustercoinsEarned * OrbBase \in Nat /\ points["orbs"] \in Nat
    BY Products, GameAssumption DEF ScoreInv, TypeOK, Buckets
  <2>6. /\ score' = points'["orbs"] + points'["perfects"] + points'["pipes"]
        /\ points'["orbs"] = points["orbs"] + OrbPoints(combo + 1)
    BY <2>1, <2>2, <2>3, AddScoreKeeps DEF Buckets
  <2>7. bustercoinsEarned * OrbBase <= points["orbs"]
    BY <2>1 DEF ScoreInv, ScoreIsAccountedFor
  <2>8. bustercoinsEarned' * OrbBase <= points'["orbs"]
    BY <2>3, <2>4, <2>5, <2>6, <2>7, GameAssumption
  <2> QED
    BY <2>6, <2>8 DEF ScoreIsAccountedFor
<1>6. CASE Removes
  <2> PICK g \in DOMAIN pipes : RemovePipe(g)
    BY <1>6 DEF Removes
  <2>1. state # "MENU" /\ UNCHANGED bustercoinsEarned
    BY DEF RemovePipe, ScoreInv, FrameInPlay
  <2>2. AddScore("pipes", PipeDodge)
    BY DEF RemovePipe
  <2> QED
    BY <2>1, <2>2, AddScoreKeeps, GameAssumption DEF ScoreIsAccountedFor, ScoreInv, Buckets
<1>7. CASE UNCHANGED scoreVars
  <2>1. CASE UNCHANGED state
    BY <1>7, <2>1 DEF scoreVars, ScoreInv, ScoreIsAccountedFor
  <2>2. CASE Ending
    <3>1. state # "MENU"
      BY <2>2 DEF Ending, HitEnds, Touches, ScoreInv, FrameInPlay
    <3> QED
      BY <1>7, <3>1 DEF scoreVars, ScoreInv, ScoreIsAccountedFor
  <2> QED
    BY <1>2, <1>3, <2>1, <2>2, WhoStarts
<1> QED
  BY <1>2, <1>3, <1>4, <1>5, <1>6, <1>7, WhoScores

\* The score is the sum of the breakdown shown with it, in every state of every run, and
\* no bustercoin comes without the points of an orb (_addScore, the orb pickup).
THEOREM ScoreAddsUp == Spec => []ScoreIsAccountedFor
<1>1. Init => ScoreInv
  BY InitTypes, ScoreInit DEF ScoreInv
<1>2. ScoreInv => ScoreIsAccountedFor
  BY DEF ScoreInv
<1> QED
  BY <1>1, <1>2, ScoreKept, PTL DEF Spec
-----------------------------------------------------------------------------
(***************************************************************************)
(* Combo.                                                                  *)
(***************************************************************************)
ComboAndTimer ==
  /\ combo > 0 <=> comboTimer > 0
  /\ combo > 0 => comboTimer <= ComboWindow(combo)

ComboInv == TypeOK /\ ComboAndTimer

LEMMA ComboKept == ComboInv /\ [Next]_vars => ComboInv'
<1> SUFFICES ASSUME ComboInv, [Next]_vars PROVE ComboInv'
  OBVIOUS
<1>1. TypeOK'
  BY TypesKept DEF ComboInv
<1>2. CASE SetStateMenu \/ StartRun
  BY <1>1, <1>2 DEF SetStateMenu, StartRun, ResetRun, ComboInv, ComboAndTimer
<1>3. CASE PickUpOrb
  BY <1>1, <1>3, WindowIsOpen DEF PickUpOrb, ComboInv, ComboAndTimer, TypeOK
<1>4. CASE TickCombo
  <2>1. combo \in Nat /\ comboTimer \in Nat
    BY DEF ComboInv, TypeOK
  <2>2. \/ combo = 0 /\ comboTimer' = 0 /\ combo' = 0
        \/ combo > 0 /\ comboTimer' \in {comboTimer, Less(comboTimer)}
           /\ combo' = IF comboTimer' = 0 THEN 0 ELSE combo
    BY <1>4, <2>1 DEF TickCombo
  <2>3. Less(comboTimer) \in Nat /\ Less(comboTimer) <= comboTimer
    BY <2>1 DEF Less
  <2> QED
    BY <1>1, <2>1, <2>2, <2>3, WindowIsOpen DEF ComboInv, ComboAndTimer
<1>5. CASE UNCHANGED <<combo, comboTimer>>
  BY <1>1, <1>5 DEF ComboInv, ComboAndTimer
<1> QED
  BY <1>2, <1>3, <1>4, <1>5, WhoCombines

\* A combo and its timer are there together or not at all, and the timer never exceeds the
\* window of that combo (update, getComboWindow).
THEOREM CombosHaveTime == Spec => []ComboHasTime
<1>1. Init => ComboInv
  BY InitTypes DEF Init, ComboInv, ComboAndTimer
<1>2. ComboInv => ComboHasTime
  BY DEF ComboInv, ComboAndTimer, ComboHasTime
<1> QED
  BY <1>1, <1>2, ComboKept, PTL DEF Spec
-----------------------------------------------------------------------------
(***************************************************************************)
(* Protection.                                                             *)
(***************************************************************************)
ProtectionRuns == safeUntil <= timeAlive + player.invT

SafeInv == TypeOK /\ ProtectionRuns

LEMMA SafeKept == SafeInv /\ [Next]_vars => SafeInv'
<1> SUFFICES ASSUME SafeInv, [Next]_vars PROVE SafeInv'
  OBVIOUS
<1>1. TypeOK'
  BY TypesKept DEF SafeInv
<1>2. /\ player.invT \in Nat /\ timeAlive \in Nat /\ safeUntil \in Nat
      /\ safeUntil <= timeAlive + player.invT
  BY DEF SafeInv, ProtectionRuns, TypeOK, Players
<1> SUFFICES safeUntil' <= timeAlive' + player'.invT
  BY <1>1 DEF SafeInv, ProtectionRuns
<1>3. CASE SetStateMenu \/ StartRun
  BY <1>3 DEF SetStateMenu, StartRun, ResetRun, StillPlayer
<1>4. CASE UsePhase
  <2> DEFINE dur == Factor(settings.invulnBehavior = "long") * Duration["phase"]
  <2>1. dur \in Nat
    BY SkillTimes DEF Config
  <2>2. /\ player'.invT = Larger(player.invT, dur)
        /\ safeUntil' = Larger(safeUntil, timeAlive + dur) /\ timeAlive' = timeAlive
    BY <1>4 DEF UsePhase, runVars, SafeInv, TypeOK, Players
  <2> HIDE DEF dur
  <2> QED
    BY <1>2, <2>1, <2>2 DEF Larger
<1>5. CASE Begins
  <2> PICK edge \in BOOLEAN : BeginFrame(edge)
    BY <1>5 DEF Begins
  <2>1. player'.invT = Less(player.invT) /\ timeAlive' = timeAlive + 1 /\ safeUntil' = safeUntil
    BY TickedTypes, AtEdgeTypes, SkillTimes DEF BeginFrame, SafeInv
  <2> QED
    BY <1>2, <2>1 DEF Less
<1>6. CASE Destroying
  <2> PICK gone \in SUBSET gates, g \in DOMAIN pipes : HitDestroys(g, gone)
    BY <1>6 DEF Destroying
  <2>1. /\ player'.invT = Larger(player.invT, ImpactIFrames)
        /\ safeUntil' = Larger(safeUntil, timeAlive + ImpactIFrames) /\ timeAlive' = timeAlive
    BY DEF HitDestroys, runVars, SafeInv, TypeOK, Players
  <2> QED
    BY <1>2, <2>1, GameAssumption DEF Larger
<1>7. CASE UNCHANGED <<timeAlive, safeUntil>> /\ player'.invT = player.invT
  BY <1>2, <1>7
<1> QED
  BY <1>3, <1>4, <1>5, <1>6, <1>7, WhoProtects DEF SafeInv

\* No run ends before the longest protection its player was given does, however phases and
\* dashes overlap (the two Math.max of _useSkill and _applyDashDestroy).
THEOREM ProtectedPlayersAreNotHit == Spec => NeverHitWhileSafe
<1>1. Init => SafeInv
  BY InitTypes DEF Init, SafeInv, ProtectionRuns, StillPlayer
<1>2. SafeInv /\ [Next]_vars =>
        [state = "PLAY" /\ state' = "OVER" => timeAlive >= safeUntil]_vars
  <2> SUFFICES ASSUME SafeInv, [Next]_vars, state = "PLAY", state' = "OVER"
               PROVE  timeAlive >= safeUntil
    OBVIOUS
  <2>1. Ending
    BY WhoStarts DEF SetStateMenu, StartRun
  <2>2. player.invT = 0
    BY <2>1 DEF Ending, HitEnds, Touches
  <2> QED
    BY <2>2 DEF SafeInv, ProtectionRuns, TypeOK
<1> QED
  BY <1>1, <1>2, SafeKept, PTL DEF Spec, NeverHitWhileSafe
-----------------------------------------------------------------------------
(***************************************************************************)
(* Warnings: in the middle of a frame, those of a plan that was just       *)
(* executed are still there.                                               *)
(***************************************************************************)
PipesSpawn ==
  \E plan, nextPlan \in PipePlans, i \in Intervals : SpawnPipes(plan, nextPlan, i)
SpecialSpawns == \E plan \in SpecialPlans, c \in Cadences : SpawnSpecial(plan, c)
OrbSpawns == \E i \in OrbIntervals : SpawnOrb(i)

LEMMA WhoSpawns ==
  [Next]_vars =>
    \/ SetStateMenu \/ StartRun \/ Begins \/ PipesSpawn \/ SpecialSpawns \/ OrbSpawns
    \/ /\ UNCHANGED <<timeAlive, pipeT, specialT, pendingPipeSpawn, pendingSpecialSpawn,
                      warnings>>
       /\ at' = at \/ {at, at'} \cap {"pipes", "specials", "orbs"} = {}
<1>1. [Next]_vars =>
        \/ SetStateMenu \/ StartRun \/ Begins \/ PipesSpawn \/ SpecialSpawns \/ OrbSpawns
        \/ UNCHANGED <<timeAlive, pipeT, specialT, pendingPipeSpawn, pendingSpecialSpawn, warnings>>
  BY DEF Next, vars, runVars, spawnVars, Begins, PipesSpawn, SpecialSpawns, OrbSpawns,
         SetSkillSettings, UseDash, UsePhase, UseTeleport, UseSlowField,
         PerfectGap, EndGates, OrbsDie, PickUpOrb, TickCombo,
         NoHit, HitDestroys, HitReflects, HitEnds, RemovePipe, RemoveGates, EndFrame
<1>2. [Next]_vars =>
        \/ SetStateMenu \/ StartRun \/ Begins \/ PipesSpawn \/ SpecialSpawns \/ OrbSpawns
        \/ at' = at
        \/ {at, at'} \subseteq {"gates", "aging", "pickup", "collide", "remove", "gone", "rest"}
  BY DEF Next, vars, Begins, PipesSpawn, SpecialSpawns, OrbSpawns,
         SetSkillSettings, UseDash, UsePhase, UseTeleport, UseSlowField,
         PerfectGap, EndGates, OrbsDie, PickUpOrb, TickCombo, Touches,
         NoHit, HitDestroys, HitReflects, HitEnds, RemovePipe, RemoveGates, EndFrame
<1>3. {at, at'} \subseteq {"gates", "aging", "pickup", "collide", "remove", "gone", "rest"} =>
        {at, at'} \cap {"pipes", "specials", "orbs"} = {}
  OBVIOUS
<1> QED
  BY <1>1, <1>2, <1>3

PipeAt == timeAlive + pipeT - (IF at = "pipes" THEN 1 ELSE 0)
SpecialAt == timeAlive + specialT - (IF at \in {"pipes", "specials"} THEN 1 ELSE 0)

PipeWarnings ==
  /\ pipeT >= 0
  /\ at \in {"specials", "orbs"} => pipeT >= 1
  /\ \A w \in Warnings :
       w.of = "pipe" /\ (at \in {"specials", "orbs"} => w.spawnAt > timeAlive)
         => (w \in warnings <=> pendingPipeSpawn # NoPlan /\ w.spawnAt = PipeAt)

SpecialWarnings ==
  /\ specialT >= 1
  /\ \A w \in Warnings :
       w.of = "special" /\ (at = "orbs" => w.spawnAt > timeAlive)
         => (w \in warnings <=> pendingSpecialSpawn # NoPlan /\ w.spawnAt = SpecialAt)

WarnInv == TypeOK /\ PipeWarnings /\ SpecialWarnings

\* What scheduling does: nothing, or a plan with its warning.
LEMMA ScheduleIs ==
  ASSUME NEW of, NEW pending, NEW t \in Int, NEW shown, NEW plan
  PROVE  LET s == Schedule(of, pending, t, shown, plan)
         IN  \/ s.pending = pending /\ s.shown = shown
             \/ /\ pending = NoPlan
                /\ s.pending = plan
                /\ \A w \in Warnings :
                     w \in s.shown <=>
                       w \in shown \/ (w.of = of /\ w.spawnAt = timeAlive + Larger(0, t))
<1>1. \A w \in Warnings :
        w = [of |-> of, spawnAt |-> timeAlive + Larger(0, t)]
          <=> w.of = of /\ w.spawnAt = timeAlive + Larger(0, t)
  BY DEF Warnings
<1> QED
  BY <1>1 DEF Schedule

LEMMA PipesSpawnWarn == WarnInv /\ PipesSpawn => PipeWarnings' /\ SpecialWarnings'
<1> SUFFICES ASSUME WarnInv,
                    NEW plan \in PipePlans, NEW nextPlan \in PipePlans, NEW i \in Intervals,
                    SpawnPipes(plan, nextPlan, i)
             PROVE  PipeWarnings' /\ SpecialWarnings'
  BY DEF PipesSpawn
<1> DEFINE t == pipeT - 1
           first == Schedule("pipe", pendingPipeSpawn, t, warnings, plan)
           again == Schedule("pipe", NoPlan, t + i, first.shown, nextPlan)
<1>1. /\ at = "pipes" /\ at' = "specials" /\ timeAlive' = timeAlive
      /\ pipeT' = IF t <= 0 THEN t + i ELSE t
      /\ pendingPipeSpawn' = IF t <= 0 THEN again.pending ELSE first.pending
      /\ warnings' = IF t <= 0 THEN again.shown ELSE first.shown
      /\ specialT' = specialT /\ pendingSpecialSpawn' = pendingSpecialSpawn
  BY DEF SpawnPipes, runVars
<1>2. /\ pipeT >= 0 /\ t \in Int /\ t >= -1 /\ i \in Int /\ i > 1 /\ timeAlive \in Nat
      /\ specialT \in Int /\ t + i \in Int
      /\ plan # NoPlan /\ nextPlan # NoPlan
  BY GameAssumption DEF WarnInv, TypeOK, PipeWarnings, PipePlans, NoPlan
<1>3. \A w \in Warnings :
        w.of = "pipe" => (w \in warnings <=> pendingPipeSpawn # NoPlan /\ w.spawnAt = timeAlive + t)
  BY <1>1, <1>2 DEF WarnInv, PipeWarnings, PipeAt
<1>4. \/ first.pending = pendingPipeSpawn /\ first.shown = warnings
      \/ /\ pendingPipeSpawn = NoPlan /\ first.pending = plan
         /\ \A w \in Warnings :
              w \in first.shown <=>
                w \in warnings \/ (w.of = "pipe" /\ w.spawnAt = timeAlive + Larger(0, t))
  <2>1. t \in Int
    BY <1>2
  <2> HIDE DEF t
  <2>2. LET s == Schedule("pipe", pendingPipeSpawn, t, warnings, plan)
        IN  \/ s.pending = pendingPipeSpawn /\ s.shown = warnings
            \/ /\ pendingPipeSpawn = NoPlan
               /\ s.pending = plan
               /\ \A w \in Warnings :
                    w \in s.shown <=>
                      w \in warnings \/ (w.of = "pipe" /\ w.spawnAt = timeAlive + Larger(0, t))
    BY <2>1, ScheduleIs
  <2> QED
    BY <2>2
<1>5. \/ again.pending = NoPlan /\ again.shown = first.shown
      \/ /\ again.pending = nextPlan
         /\ \A w \in Warnings :
              w \in again.shown <=>
                w \in first.shown \/ (w.of = "pipe" /\ w.spawnAt = timeAlive + Larger(0, t + i))
  BY <1>2, ScheduleIs
<1> HIDE DEF first, again, t
<1>6. \A w \in Warnings : w.of = "special" => (w \in warnings' <=> w \in warnings)
  BY <1>1, <1>4, <1>5
<1>7. SpecialWarnings'
  BY <1>1, <1>6 DEF WarnInv, SpecialWarnings, SpecialAt
<1>8. CASE t > 0
  <2>1. Larger(0, t) = t
    BY <1>2, <1>8 DEF Larger
  <2>2. \A w \in Warnings :
          w.of = "pipe" => (w \in warnings' <=> pendingPipeSpawn' # NoPlan /\ w.spawnAt = timeAlive + t)
    BY <1>1, <1>2, <1>3, <1>4, <1>8, <2>1
  <2>3. pipeT' = t /\ at' = "specials" /\ timeAlive' = timeAlive
    BY <1>1, <1>2, <1>8
  <2> QED
    BY <1>2, <1>7, <1>8, <2>2, <2>3 DEF PipeWarnings, PipeAt
<1>9. CASE t <= 0
  <2>1. Larger(0, t) = 0 /\ Larger(0, t + i) = t + i
    BY <1>2, <1>9 DEF Larger
  <2>2. \A w \in Warnings : w.of = "pipe" /\ w \in first.shown => w.spawnAt <= timeAlive
    BY <1>2, <1>3, <1>4, <1>9, <2>1
  <2>3. \A w \in Warnings :
          w.of = "pipe" /\ w.spawnAt > timeAlive =>
            (w \in warnings' <=> pendingPipeSpawn' # NoPlan /\ w.spawnAt = timeAlive + (t + i))
    <3> SUFFICES ASSUME NEW w \in Warnings, w.of = "pipe", w.spawnAt > timeAlive
                 PROVE  w \in warnings' <=>
                          pendingPipeSpawn' # NoPlan /\ w.spawnAt = timeAlive + (t + i)
      OBVIOUS
    <3>1. w.spawnAt \in Int
      BY DEF Warnings
    <3>2. w \notin first.shown
      BY <1>2, <2>2, <3>1
    <3> QED
      BY <1>1, <1>2, <1>5, <1>9, <2>1, <3>2
  <2>4. pipeT' = t + i /\ at' = "specials" /\ timeAlive' = timeAlive
    BY <1>1, <1>9
  <2> QED
    BY <1>2, <1>7, <2>3, <2>4 DEF PipeWarnings, PipeAt
<1> QED
  BY <1>2, <1>8, <1>9

LEMMA SpecialSpawnsWarn == WarnInv /\ SpecialSpawns => PipeWarnings' /\ SpecialWarnings'
<1> SUFFICES ASSUME WarnInv, NEW plan \in SpecialPlans, NEW c \in Cadences,
                    SpawnSpecial(plan, c)
             PROVE  PipeWarnings' /\ SpecialWarnings'
  BY DEF SpecialSpawns
<1> DEFINE t == specialT - 1
           scheduled == Schedule("special", pendingSpecialSpawn, t, warnings, plan)
<1>1. /\ at = "specials" /\ at' = "orbs" /\ timeAlive' = timeAlive
      /\ specialT' = IF t <= 0 THEN c ELSE t
      /\ pendingSpecialSpawn' = IF t <= 0 THEN NoPlan ELSE scheduled.pending
      /\ warnings' = scheduled.shown
      /\ pipeT' = pipeT /\ pendingPipeSpawn' = pendingPipeSpawn
  BY DEF SpawnSpecial, runVars
<1>2. /\ t \in Int /\ t >= 0 /\ c \in Nat /\ c >= 1 /\ timeAlive \in Nat /\ pipeT \in Int
      /\ plan # NoPlan
  BY GameAssumption DEF WarnInv, TypeOK, SpecialWarnings, SpecialPlans, NoPlan
<1>3. \A w \in Warnings :
        w.of = "special" =>
          (w \in warnings <=> pendingSpecialSpawn # NoPlan /\ w.spawnAt = timeAlive + t)
  BY <1>1, <1>2 DEF WarnInv, SpecialWarnings, SpecialAt
<1>4. \/ scheduled.pending = pendingSpecialSpawn /\ scheduled.shown = warnings
      \/ /\ pendingSpecialSpawn = NoPlan /\ scheduled.pending = plan
         /\ \A w \in Warnings :
              w \in scheduled.shown <=>
                w \in warnings \/ (w.of = "special" /\ w.spawnAt = timeAlive + Larger(0, t))
  BY <1>2, ScheduleIs
<1> HIDE DEF scheduled, t
<1>5. \A w \in Warnings : w.of = "pipe" => (w \in warnings' <=> w \in warnings)
  BY <1>1, <1>4
<1>6. PipeWarnings'
  BY <1>1, <1>5 DEF WarnInv, PipeWarnings, PipeAt
<1>7. Larger(0, t) = t
  BY <1>2 DEF Larger
<1>8. CASE t > 0
  <2>1. \A w \in Warnings :
          w.of = "special" =>
            (w \in warnings' <=> pendingSpecialSpawn' # NoPlan /\ w.spawnAt = timeAlive + t)
    BY <1>1, <1>2, <1>3, <1>4, <1>7, <1>8
  <2>2. specialT' = t /\ at' = "orbs" /\ timeAlive' = timeAlive
    BY <1>1, <1>2, <1>8
  <2> QED
    BY <1>2, <1>6, <1>8, <2>1, <2>2 DEF SpecialWarnings, SpecialAt
<1>9. CASE t <= 0
  <2>1. \A w \in Warnings : w.of = "special" /\ w \in warnings' => w.spawnAt <= timeAlive
    BY <1>1, <1>2, <1>3, <1>4, <1>7, <1>9
  <2>2. specialT' = c /\ at' = "orbs" /\ timeAlive' = timeAlive /\ pendingSpecialSpawn' = NoPlan
    BY <1>1, <1>9
  <2>3. \A w \in Warnings : w.of = "special" /\ w.spawnAt > timeAlive => w \notin warnings'
    <3> SUFFICES ASSUME NEW w \in Warnings, w.of = "special", w.spawnAt > timeAlive
                 PROVE  w \notin warnings'
      OBVIOUS
    <3>1. w.spawnAt \in Int
      BY DEF Warnings
    <3> QED
      BY <1>2, <2>1, <3>1
  <2> QED
    BY <1>2, <1>6, <2>2, <2>3 DEF SpecialWarnings, SpecialAt
<1> QED
  BY <1>2, <1>8, <1>9

LEMMA WarnKept == WarnInv /\ [Next]_vars => WarnInv'
<1> SUFFICES ASSUME WarnInv, [Next]_vars PROVE WarnInv'
  OBVIOUS
<1>1. TypeOK'
  BY TypesKept DEF WarnInv
<1> SUFFICES PipeWarnings' /\ SpecialWarnings'
  BY <1>1 DEF WarnInv
<1>2. CASE SetStateMenu \/ StartRun
  <2>1. /\ pipeT' = 0 /\ specialT' = FirstSpecial /\ at' = "rest" /\ warnings' = {}
        /\ pendingPipeSpawn' = NoPlan /\ pendingSpecialSpawn' = NoPlan
    BY <1>2 DEF SetStateMenu, StartRun, ResetRun
  <2> QED
    BY <2>1, GameAssumption DEF PipeWarnings, SpecialWarnings
<1>3. CASE Begins
  <2>1. /\ at = "rest" /\ at' = "pipes" /\ timeAlive' = timeAlive + 1
        /\ UNCHANGED <<pipeT, specialT, pendingPipeSpawn, pendingSpecialSpawn, warnings>>
    BY <1>3 DEF Begins, BeginFrame, spawnVars
  <2>2. PipeAt' = PipeAt /\ SpecialAt' = SpecialAt
    BY <2>1 DEF PipeAt, SpecialAt, WarnInv, TypeOK
  <2> QED
    BY <2>1, <2>2 DEF WarnInv, PipeWarnings, SpecialWarnings
<1>4. CASE PipesSpawn
  BY <1>4, PipesSpawnWarn
<1>5. CASE SpecialSpawns
  BY <1>5, SpecialSpawnsWarn
<1>6. CASE OrbSpawns
  <2>1. /\ at = "orbs" /\ at' = "gates" /\ timeAlive' = timeAlive
        /\ UNCHANGED <<pipeT, specialT, pendingPipeSpawn, pendingSpecialSpawn>>
        /\ warnings' = {w \in warnings : w.spawnAt > timeAlive}
    BY <1>6 DEF OrbSpawns, SpawnOrb, runVars
  <2>2. PipeAt' = PipeAt /\ SpecialAt' = SpecialAt /\ PipeAt > timeAlive /\ SpecialAt > timeAlive
    BY <2>1 DEF PipeAt, SpecialAt, WarnInv, TypeOK, PipeWarnings, SpecialWarnings
  <2> QED
    BY <2>1, <2>2 DEF WarnInv, PipeWarnings, SpecialWarnings
<1>7. CASE /\ UNCHANGED <<timeAlive, pipeT, specialT, pendingPipeSpawn, pendingSpecialSpawn,
                         warnings>>
           /\ at' = at \/ {at, at'} \cap {"pipes", "specials", "orbs"} = {}
  <2>1. PipeAt' = PipeAt /\ SpecialAt' = SpecialAt
    BY <1>7 DEF PipeAt, SpecialAt
  <2> QED
    BY <1>7, <2>1 DEF WarnInv, PipeWarnings, SpecialWarnings
<1> QED
  BY <1>2, <1>3, <1>4, <1>5, <1>6, <1>7, WhoSpawns

\* Between frames the warnings shown are those of the plans that wait, each for the frame
\* in which its plan is executed, whatever the lead and the intervals
\* (_maybeSchedulePipeWarning, _cleanupWarnings).
THEOREM WarningsTellTheTruth == Spec => []WarningsAnnouncePlans
<1>1. Init => WarnInv
  BY InitTypes, GameAssumption DEF Init, WarnInv, PipeWarnings, SpecialWarnings
<1>2. WarnInv => WarningsAnnouncePlans
  <2> SUFFICES ASSUME WarnInv, at = "rest"
               PROVE  warnings =
                        (IF pendingPipeSpawn = NoPlan THEN {}
                         ELSE {[of |-> "pipe", spawnAt |-> timeAlive + pipeT]})
                        \cup
                        (IF pendingSpecialSpawn = NoPlan THEN {}
                         ELSE {[of |-> "special", spawnAt |-> timeAlive + specialT]})
    BY DEF WarningsAnnouncePlans
  <2>1. /\ \A t \in Int : \A w \in Warnings :
             w = [of |-> "pipe", spawnAt |-> t] <=> w.of = "pipe" /\ w.spawnAt = t
        /\ \A t \in Int : \A w \in Warnings :
             w = [of |-> "special", spawnAt |-> t] <=> w.of = "special" /\ w.spawnAt = t
        /\ \A t \in Int : /\ [of |-> "pipe", spawnAt |-> t] \in Warnings
                          /\ [of |-> "special", spawnAt |-> t] \in Warnings
        /\ \A w \in Warnings : w.of \in {"pipe", "special"}
    BY DEF Warnings
  <2>2. /\ timeAlive + pipeT \in Int /\ timeAlive + specialT \in Int
        /\ warnings \subseteq Warnings
    BY DEF WarnInv, TypeOK
  <2>3. PipeAt = timeAlive + pipeT /\ SpecialAt = timeAlive + specialT
    BY <2>2 DEF PipeAt, SpecialAt, WarnInv, TypeOK
  <2>4. \A w \in Warnings :
          w \in warnings <=>
            \/ pendingPipeSpawn # NoPlan /\ w = [of |-> "pipe", spawnAt |-> timeAlive + pipeT]
            \/ /\ pendingSpecialSpawn # NoPlan
               /\ w = [of |-> "special", spawnAt |-> timeAlive + specialT]
    BY <2>1, <2>2, <2>3 DEF WarnInv, PipeWarnings, SpecialWarnings
  <2> DEFINE said ==
        (IF pendingPipeSpawn = NoPlan THEN {}
         ELSE {[of |-> "pipe", spawnAt |-> timeAlive + pipeT]})
        \cup
        (IF pendingSpecialSpawn = NoPlan THEN {}
         ELSE {[of |-> "special", spawnAt |-> timeAlive + specialT]})
  <2>5. said \subseteq Warnings
    <3>1. /\ [of |-> "pipe", spawnAt |-> timeAlive + pipeT] \in Warnings
          /\ [of |-> "special", spawnAt |-> timeAlive + specialT] \in Warnings
      BY <2>2 DEF Warnings
    <3> QED
      BY <3>1
  <2>6. \A w \in Warnings :
          w \in said <=>
            \/ pendingPipeSpawn # NoPlan /\ w = [of |-> "pipe", spawnAt |-> timeAlive + pipeT]
            \/ /\ pendingSpecialSpawn # NoPlan
               /\ w = [of |-> "special", spawnAt |-> timeAlive + specialT]
    OBVIOUS
  <2> HIDE DEF said
  <2>7. warnings = said
    BY <2>2, <2>4, <2>5, <2>6
  <2> QED
    BY <2>7 DEF said
<1> QED
  BY <1>1, <1>2, WarnKept, PTL DEF Spec
-----------------------------------------------------------------------------
(***************************************************************************)
(* Gaps: their books are closed by the gate, or, in the frame in which the *)
(* gate is beyond the margin, by the last pipe before it.                  *)
(***************************************************************************)
Unspawned ==
  \A g \in Gaps : g >= nextGapId =>
    pipes[g] = 0 /\ g \notin gates \cup perfected \cup brokenGaps /\ gapMeta[g] = NoMeta

BooksAgree ==
  \A g \in Gaps : gapMeta[g] # NoMeta =>
    /\ g \in gates
    /\ gapMeta[g].perfected = TRUE <=> g \in perfected
    /\ gapMeta[g].broken = TRUE <=> g \in brokenGaps
    /\ gapMeta[g].pipesRemaining >= pipes[g]

GatesHaveBooks == \A g \in gates \ leaving : gapMeta[g] # NoMeta

LeavingOnlyAtRemoval == at # "remove" => leaving = {}

\* A gap that was missed and whose books a pipe has closed already.
MissedIsCharged ==
  at = "remove" =>
    \A g \in leaving :
      gapMeta[g] = NoMeta /\ g \notin perfected \cup brokenGaps => perfectCombo = 0

BooksInv ==
  /\ TypeOK
  /\ Unspawned
  /\ BooksAgree
  /\ GatesHaveBooks
  /\ LeavingOnlyAtRemoval
  /\ MissedIsCharged

LEMMA MetaIs ==
  \A m \in Metas : m # NoMeta /\ m.perfected \in BOOLEAN /\ m.broken \in BOOLEAN
                   /\ m.pipesRemaining \in Nat
BY GameAssumption DEF Metas

LEMMA SpawnKeepsBooks ==
  ASSUME BooksInv, NEW plan \in Plans, Spawn(plan), HasGap(plan) => nextGapId <= MaxGaps,
         UNCHANGED leaving, leaving = {}
  PROVE  Unspawned' /\ BooksAgree' /\ GatesHaveBooks'
<1>1. CASE HasGap(plan)
  <2> DEFINE new == [perfected |-> FALSE, broken |-> FALSE, pipesRemaining |-> 2]
             free == [pipes EXCEPT ![NoGap] = @ + Loose[plan]]
  <2>1. nextGapId \in Gaps /\ NoGap \notin Gaps
    BY <1>1, GameAssumption DEF BooksInv, TypeOK, Gaps, NoGap
  <2>2. /\ pipes' = [free EXCEPT ![nextGapId] = @ + 2]
        /\ gates' = gates \cup {nextGapId} /\ nextGapId' = nextGapId + 1
        /\ gapMeta' = [gapMeta EXCEPT ![nextGapId] = new]
        /\ perfected' = perfected /\ brokenGaps' = brokenGaps
    BY <1>1 DEF Spawn
  <2>3. \A g \in Gaps : free[g] = pipes[g]
    BY <2>1 DEF BooksInv, TypeOK
  <2>4. free \in [Gaps \cup {NoGap} -> Nat]
    BY GameAssumption DEF BooksInv, TypeOK
  <2>5. new \in Metas /\ new.perfected = FALSE /\ new.broken = FALSE /\ new.pipesRemaining = 2
    BY DEF Metas
  <2> HIDE DEF new, free
  <2>6. /\ pipes[nextGapId] = 0 /\ nextGapId \notin perfected \cup brokenGaps
        /\ nextGapId \in Nat
    BY <2>1 DEF BooksInv, Unspawned, TypeOK, Gaps
  <2>7. /\ pipes'[nextGapId] = 2 /\ gapMeta'[nextGapId] = new
        /\ \A g \in Gaps : g # nextGapId => pipes'[g] = pipes[g] /\ gapMeta'[g] = gapMeta[g]
    BY <2>1, <2>2, <2>3, <2>4, <2>6 DEF BooksInv, TypeOK
  <2>8. Unspawned'
    <3> SUFFICES ASSUME NEW g \in Gaps, g >= nextGapId + 1
                 PROVE  /\ pipes'[g] = 0 /\ g \notin gates' \cup perfected' \cup brokenGaps'
                        /\ gapMeta'[g] = NoMeta
      BY <2>2 DEF Unspawned
    <3>1. g # nextGapId /\ g >= nextGapId
      BY <2>6 DEF Gaps
    <3> QED
      BY <2>2, <2>7, <3>1 DEF BooksInv, Unspawned
  <2>9. BooksAgree'
    <3> SUFFICES ASSUME NEW g \in Gaps, gapMeta'[g] # NoMeta
                 PROVE  /\ g \in gates'
                        /\ gapMeta'[g].perfected = TRUE <=> g \in perfected'
                        /\ gapMeta'[g].broken = TRUE <=> g \in brokenGaps'
                        /\ gapMeta'[g].pipesRemaining >= pipes'[g]
      BY DEF BooksAgree
    <3>1. CASE g = nextGapId
      BY <2>2, <2>5, <2>6, <2>7, <3>1
    <3>2. CASE g # nextGapId
      BY <2>2, <2>7, <3>2 DEF BooksInv, BooksAgree
    <3> QED
      BY <3>1, <3>2
  <2>10. GatesHaveBooks'
    <3> SUFFICES ASSUME NEW g \in gates' \ leaving' PROVE gapMeta'[g] # NoMeta
      BY DEF GatesHaveBooks
    <3>1. g \in Gaps
      BY <2>1, <2>2 DEF BooksInv, TypeOK
    <3> QED
      BY <2>2, <2>5, <2>7, <3>1, MetaIs DEF BooksInv, GatesHaveBooks
  <2> QED
    BY <2>8, <2>9, <2>10
<1>2. CASE ~HasGap(plan)
  <2>1. /\ pipes' = [pipes EXCEPT ![NoGap] = @ + Loose[plan]]
        /\ UNCHANGED <<gates, gapMeta, nextGapId, perfected, brokenGaps>>
    BY <1>2 DEF Spawn
  <2>2. \A g \in Gaps : pipes'[g] = pipes[g]
    BY <2>1 DEF BooksInv, TypeOK, Gaps, NoGap
  <2> QED
    BY <2>1, <2>2 DEF BooksInv, Unspawned, BooksAgree, GatesHaveBooks
<1> QED
  BY <1>1, <1>2

LEMMA ShatterKeepsBooks ==
  ASSUME BooksInv, NEW broken \in [Gaps \cup {NoGap} -> Nat],
         \A g \in Gaps \cup {NoGap} : broken[g] <= pipes[g], Shatter(broken)
  PROVE  /\ Unspawned' /\ BooksAgree'
         /\ \A g \in Gaps : gapMeta'[g] = NoMeta <=> gapMeta[g] = NoMeta
         /\ UNCHANGED <<gates, perfected, nextGapId>>
         /\ brokenGaps \subseteq brokenGaps'
<1> DEFINE hit(g) ==
      [gapMeta[g] EXCEPT !.broken = TRUE,
                         !.pipesRemaining = IF @ > broken[g] THEN @ - broken[g] ELSE 0]
<1>1. /\ \A g \in Gaps : pipes'[g] = pipes[g] - broken[g]
      /\ \A g \in Gaps : gapMeta'[g] = IF broken[g] = 0 \/ gapMeta[g] = NoMeta
                                     THEN gapMeta[g] ELSE hit(g)
      /\ brokenGaps' = brokenGaps \cup {g \in Gaps : broken[g] > 0}
      /\ UNCHANGED <<gates, perfected, nextGapId>>
  BY DEF Shatter, BooksInv, TypeOK
<1>2. \A g \in Gaps : /\ broken[g] \in Nat /\ pipes[g] \in Nat /\ broken[g] <= pipes[g]
                     /\ gapMeta[g] \in Metas \cup {NoMeta}
  BY DEF BooksInv, TypeOK
<1>3. \A g \in Gaps : gapMeta[g] # NoMeta =>
        /\ hit(g) \in Metas /\ hit(g).broken = TRUE /\ hit(g).perfected = gapMeta[g].perfected
        /\ gapMeta[g].pipesRemaining >= pipes[g] => hit(g).pipesRemaining >= pipes[g] - broken[g]
  <2> SUFFICES ASSUME NEW g \in Gaps, gapMeta[g] # NoMeta
               PROVE  /\ hit(g) \in Metas /\ hit(g).broken = TRUE
                      /\ hit(g).perfected = gapMeta[g].perfected
                      /\ gapMeta[g].pipesRemaining >= pipes[g] =>
                           hit(g).pipesRemaining >= pipes[g] - broken[g]
    OBVIOUS
  <2> DEFINE was == gapMeta[g].pipesRemaining
             left == IF was > broken[g] THEN was - broken[g] ELSE 0
  <2>1. gapMeta[g] \in Metas /\ was \in Nat
    BY <1>2, MetaIs
  <2>2. left \in Nat /\ (was >= pipes[g] => left >= pipes[g] - broken[g])
    <3> HIDE DEF was
    <3> QED
      BY <1>2, <2>1
  <2>3. hit(g) = [gapMeta[g] EXCEPT !.broken = TRUE, !.pipesRemaining = left]
    OBVIOUS
  <2>4. /\ hit(g) \in Metas /\ hit(g).broken = TRUE /\ hit(g).pipesRemaining = left
        /\ hit(g).perfected = gapMeta[g].perfected
    <3> HIDE DEF hit, left
    <3> QED
      BY <2>1, <2>2, <2>3 DEF Metas
  <2> QED
    <3> HIDE DEF hit, left
    <3> QED
      BY <2>2, <2>4
<1> HIDE DEF hit
<1>4. \A g \in Gaps : gapMeta'[g] = NoMeta <=> gapMeta[g] = NoMeta
  BY <1>1, <1>3, MetaIs
<1>5. Unspawned'
  <2> SUFFICES ASSUME NEW g \in Gaps, g >= nextGapId
               PROVE  /\ pipes'[g] = 0 /\ g \notin gates' \cup perfected' \cup brokenGaps'
                      /\ gapMeta'[g] = NoMeta
    BY <1>1 DEF Unspawned
  <2>1. /\ pipes[g] = 0 /\ g \notin gates \cup perfected \cup brokenGaps
        /\ gapMeta[g] = NoMeta
    BY DEF BooksInv, Unspawned
  <2>2. broken[g] = 0
    BY <1>2, <2>1
  <2> QED
    BY <1>1, <1>4, <2>1, <2>2
<1>6. BooksAgree'
  <2> SUFFICES ASSUME NEW g \in Gaps, gapMeta'[g] # NoMeta
               PROVE  /\ g \in gates'
                      /\ gapMeta'[g].perfected = TRUE <=> g \in perfected'
                      /\ gapMeta'[g].broken = TRUE <=> g \in brokenGaps'
                      /\ gapMeta'[g].pipesRemaining >= pipes'[g]
    BY DEF BooksAgree
  <2>1. /\ g \in gates
        /\ gapMeta[g].perfected = TRUE <=> g \in perfected
        /\ gapMeta[g].broken = TRUE <=> g \in brokenGaps
        /\ gapMeta[g].pipesRemaining >= pipes[g]
        /\ gapMeta[g] # NoMeta
    BY <1>4 DEF BooksInv, BooksAgree
  <2>2. CASE broken[g] = 0
    BY <1>1, <1>2, <2>1, <2>2
  <2>3. CASE broken[g] # 0
    <3>1. gapMeta'[g] = hit(g) /\ g \in brokenGaps'
      BY <1>1, <1>2, <2>1, <2>3
    <3> QED
      BY <1>1, <1>3, <2>1, <3>1
  <2> QED
    BY <2>2, <2>3
<1> QED
  BY <1>1, <1>4, <1>5, <1>6

LEMMA BooksInit == Init => BooksInv
<1> SUFFICES ASSUME Init PROVE BooksInv
  OBVIOUS
<1>1. TypeOK
  BY InitTypes
<1>2. \A g \in Gaps : pipes[g] = 0 /\ gapMeta[g] = NoMeta
  BY DEF Init, NoPipes
<1> QED
  BY <1>1, <1>2 DEF Init, BooksInv, Unspawned, BooksAgree, GatesHaveBooks,
                    LeavingOnlyAtRemoval, MissedIsCharged

Passing == \E gone \in SUBSET gates : NoHit(gone)
Cuts == \E cut \in Parts : EndFrame(cut)

LEMMA WhoKeepsBooks ==
  [Next]_vars =>
    \/ SetStateMenu \/ StartRun \/ Breaks \/ PipesSpawn \/ SpecialSpawns \/ Crosses
    \/ Passing \/ Destroying \/ Reflecting \/ Removes \/ RemoveGates \/ Cuts
    \/ /\ UNCHANGED <<fieldVars, leaving, perfectCombo>>
       /\ at' = at \/ (at # "remove" /\ at' # "remove")
<1>1. [Next]_vars =>
        \/ SetStateMenu \/ StartRun \/ Breaks \/ PipesSpawn \/ SpecialSpawns \/ Crosses
        \/ Passing \/ Destroying \/ Reflecting \/ Removes \/ RemoveGates \/ Cuts
        \/ UNCHANGED <<fieldVars, leaving, perfectCombo>>
  BY DEF Next, vars, Breaks, PipesSpawn, SpecialSpawns, Crosses, Passing, Destroying,
         Reflecting, Removes, Cuts, SetSkillSettings, UseDash, UsePhase, BeginFrame,
         SpawnOrb, EndGates, OrbsDie, PickUpOrb, TickCombo, HitEnds
<1>2. [Next]_vars =>
        \/ SetStateMenu \/ StartRun \/ Breaks \/ PipesSpawn \/ SpecialSpawns \/ Crosses
        \/ Passing \/ Destroying \/ Reflecting \/ Removes \/ RemoveGates \/ Cuts
        \/ at' = at \/ (at # "remove" /\ at' # "remove")
  BY DEF Next, vars, Breaks, PipesSpawn, SpecialSpawns, Crosses, Passing, Destroying,
         Reflecting, Removes, Cuts, SetSkillSettings, UseDash, UsePhase, BeginFrame,
         SpawnOrb, EndGates, OrbsDie, PickUpOrb, TickCombo, HitEnds, Touches
<1> QED
  BY <1>1, <1>2

\* A step that moves on to the removals decides which gates leave.
LEMMA LeavingDecided ==
  ASSUME BooksInv, at = "collide", NEW gone \in SUBSET gates, leaving' = gone,
         \A g \in Gaps : gapMeta'[g] = NoMeta <=> gapMeta[g] = NoMeta,
         gates' = gates
  PROVE  GatesHaveBooks' /\ MissedIsCharged'
<1>1. \A g \in gates : g \in Gaps /\ gapMeta[g] # NoMeta
  BY DEF BooksInv, TypeOK, LeavingOnlyAtRemoval, GatesHaveBooks
<1> QED
  BY <1>1 DEF GatesHaveBooks, MissedIsCharged

\* One pipe of a gap whose gate is gone, or beyond the margin, is removed.
LEMMA PipeRemovedKeepsBooks ==
  ASSUME BooksInv, NEW g \in Gaps \cup {NoGap}, RemovePipe(g)
  PROVE  Unspawned' /\ BooksAgree' /\ GatesHaveBooks' /\ MissedIsCharged'
<1> DEFINE left == Less(gapMeta[g].pipesRemaining)
           kept == [gapMeta[g] EXCEPT !.pipesRemaining = left]
<1>1. /\ at = "remove" /\ at' = at /\ pipes[g] > 0 /\ g \notin gates \ leaving
      /\ pipes' = [pipes EXCEPT ![g] = @ - 1] /\ PipeRemoved(g)
      /\ UNCHANGED <<gates, perfected, nextGapId, brokenGaps, leaving>>
  BY DEF RemovePipe
<1>2. /\ \A h \in Gaps : pipes[h] \in Nat /\ gapMeta[h] \in Metas \cup {NoMeta}
      /\ \A h \in Gaps : pipes'[h] = IF h = g THEN pipes[h] - 1 ELSE pipes[h]
      /\ NoGap \notin Gaps
  <2>1. \A h \in Gaps : pipes[h] \in Nat /\ gapMeta[h] \in Metas \cup {NoMeta}
    BY DEF BooksInv, TypeOK
  <2>2. \A h \in Gaps : h \in DOMAIN pipes
    BY DEF BooksInv, TypeOK
  <2>3. \A h \in Gaps : pipes'[h] = IF h = g THEN pipes[h] - 1 ELSE pipes[h]
    BY <1>1, <2>2
  <2>4. NoGap \notin Gaps
    BY DEF Gaps, NoGap
  <2> QED
    BY <2>1, <2>3, <2>4
<1>3. \A h \in Gaps : h >= nextGapId => h # g
  BY <1>1, <1>2 DEF BooksInv, Unspawned
<1>4. CASE g = NoGap \/ gapMeta[g] = NoMeta
  <2>1. UNCHANGED <<gapMeta, perfectCombo>>
    BY <1>1, <1>4 DEF PipeRemoved
  <2>2. BooksAgree'
    BY <1>1, <1>2, <1>4, <2>1 DEF BooksInv, BooksAgree
  <2> QED
    BY <1>1, <1>2, <1>3, <2>1, <2>2
       DEF BooksInv, Unspawned, GatesHaveBooks, MissedIsCharged
<1>5. CASE g # NoGap /\ gapMeta[g] # NoMeta
  <2>1. /\ g \in Gaps /\ gapMeta[g] \in Metas /\ g \in gates /\ g \in leaving
        /\ gapMeta[g].perfected = TRUE <=> g \in perfected
        /\ gapMeta[g].broken = TRUE <=> g \in brokenGaps
        /\ gapMeta[g].pipesRemaining >= pipes[g]
    BY <1>1, <1>2, <1>5 DEF BooksInv, BooksAgree
  <2>2. left \in Nat /\ left >= pipes[g] - 1
    <3>1. gapMeta[g].pipesRemaining \in Nat
      BY <2>1, MetaIs
    <3> QED
      BY <1>2, <2>1, <3>1 DEF Less
  <2>3. /\ kept \in Metas /\ kept.pipesRemaining = left
        /\ kept.perfected = gapMeta[g].perfected /\ kept.broken = gapMeta[g].broken
    <3> HIDE DEF left
    <3> QED
      BY <2>1, <2>2 DEF Metas
  <2>4. \/ gapMeta' = [gapMeta EXCEPT ![g] = kept] /\ UNCHANGED perfectCombo
        \/ /\ gapMeta' = [gapMeta EXCEPT ![g] = NoMeta]
           /\ perfectCombo' = IF gapMeta[g].perfected THEN perfectCombo ELSE 0
    BY <1>1, <1>5 DEF PipeRemoved, Forget
  <2> HIDE DEF left, kept
  <2>5. \A h \in Gaps : h # g => gapMeta'[h] = gapMeta[h]
    BY <2>1, <2>4 DEF BooksInv, TypeOK
  <2>6. \/ gapMeta'[g] = kept /\ UNCHANGED perfectCombo
        \/ /\ gapMeta'[g] = NoMeta
           /\ perfectCombo' = IF gapMeta[g].perfected THEN perfectCombo ELSE 0
    BY <2>1, <2>4 DEF BooksInv, TypeOK
  <2>7. Unspawned'
    BY <1>1, <1>2, <1>3, <2>5 DEF BooksInv, Unspawned
  <2>8. BooksAgree'
    BY <1>1, <1>2, <2>1, <2>2, <2>3, <2>5, <2>6 DEF BooksInv, BooksAgree
  <2>9. GatesHaveBooks'
    <3> SUFFICES ASSUME NEW h \in gates \ leaving PROVE gapMeta'[h] # NoMeta
      BY <1>1 DEF GatesHaveBooks
    <3>1. h \in Gaps /\ h # g /\ gapMeta[h] # NoMeta
      BY <1>1 DEF BooksInv, TypeOK, GatesHaveBooks
    <3> QED
      BY <2>5, <3>1
  <2>10. perfectCombo' = perfectCombo \/ perfectCombo' = 0
    BY <2>6
  <2>11. g \notin perfected => gapMeta'[g] # NoMeta \/ perfectCombo' = 0
    <3>1. kept # NoMeta
      BY <2>3, MetaIs
    <3> QED
      BY <2>1, <2>6, <3>1
  <2>12. MissedIsCharged'
    <3> SUFFICES ASSUME NEW h \in leaving, gapMeta'[h] = NoMeta, h \notin perfected \cup brokenGaps
                 PROVE  perfectCombo' = 0
      BY <1>1 DEF MissedIsCharged
    <3>1. h \in Gaps
      BY DEF BooksInv, TypeOK
    <3>2. CASE h = g
      BY <2>11, <3>2
    <3>3. CASE h # g
      <4>1. perfectCombo = 0
        BY <1>1, <2>5, <3>1, <3>3 DEF BooksInv, MissedIsCharged
      <4> QED
        BY <2>10, <4>1
    <3> QED
      BY <3>2, <3>3
  <2> QED
    BY <2>7, <2>8, <2>9, <2>12
<1> QED
  BY <1>4, <1>5

LEMMA BooksKept == BooksInv /\ [Next]_vars => BooksInv'
<1> SUFFICES ASSUME BooksInv, [Next]_vars PROVE BooksInv'
  OBVIOUS
<1>1. TypeOK'
  BY TypesKept DEF BooksInv
<1>2. CASE SetStateMenu \/ StartRun
  <2>1. /\ \A g \in Gaps : pipes'[g] = 0 /\ gapMeta'[g] = NoMeta
        /\ gates' = {} /\ perfected' = {} /\ brokenGaps' = {} /\ leaving' = {} /\ at' = "rest"
    BY <1>2 DEF SetStateMenu, StartRun, ResetRun, NoPipes
  <2> QED
    BY <1>1, <2>1 DEF BooksInv, Unspawned, BooksAgree, GatesHaveBooks, LeavingOnlyAtRemoval,
                      MissedIsCharged
<1>3. CASE Breaks
  <2> PICK blast \in Parts : UseTeleport(blast) \/ UseSlowField(blast)
    BY <1>3 DEF Breaks
  <2>1. /\ at = "rest" /\ at' = "rest" /\ leaving' = leaving
        /\ Shatter(blast) \/ UNCHANGED fieldVars
    BY DEF UseTeleport, UseSlowField, Ready
  <2>2. CASE Shatter(blast)
    <3>1. /\ Unspawned' /\ BooksAgree'
          /\ \A g \in Gaps : gapMeta'[g] = NoMeta <=> gapMeta[g] = NoMeta
          /\ UNCHANGED gates
      BY <2>2, PartsAre, ShatterKeepsBooks DEF BooksInv
    <3>2. GatesHaveBooks'
      <4>1. gates \subseteq Gaps
        BY DEF BooksInv, TypeOK
      <4> QED
        BY <2>1, <3>1, <4>1 DEF BooksInv, GatesHaveBooks
    <3> QED
      BY <1>1, <2>1, <3>1, <3>2 DEF BooksInv, LeavingOnlyAtRemoval, MissedIsCharged
  <2>3. CASE UNCHANGED fieldVars
    BY <1>1, <2>1, <2>3 DEF fieldVars, BooksInv, Unspawned, BooksAgree, GatesHaveBooks,
                            LeavingOnlyAtRemoval, MissedIsCharged
  <2> QED
    BY <2>1, <2>2, <2>3
<1>4. CASE PipesSpawn \/ SpecialSpawns
  <2>1. /\ at \in {"pipes", "specials"} /\ at' \in {"specials", "orbs"} /\ leaving' = leaving
        /\ GapsTaken' <= MaxGaps
    BY <1>4 DEF PipesSpawn, SpecialSpawns, SpawnPipes, SpawnSpecial
  <2>2. leaving = {}
    BY <2>1 DEF BooksInv, LeavingOnlyAtRemoval
  <2>3. UNCHANGED fieldVars \/ \E plan \in Plans : Spawn(plan)
    <3>1. CASE PipesSpawn
      <4> PICK plan \in PipePlans, nextPlan \in PipePlans, i \in Intervals :
                 SpawnPipes(plan, nextPlan, i)
        BY <3>1 DEF PipesSpawn
      <4> DEFINE t == pipeT - 1
                 first == Schedule("pipe", pendingPipeSpawn, t, warnings, plan)
      <4>0. /\ t \in Int /\ warnings \in SUBSET Warnings /\ TypeOK
            /\ pendingPipeSpawn \in PipePlans \cup {NoPlan} /\ "pipe" \in {"pipe", "special"}
        BY DEF BooksInv, TypeOK
      <4> HIDE DEF t
      <4>1. first.pending \in PipePlans \cup {NoPlan}
        BY <4>0, ScheduleTypes
      <4> USE DEF t
      <4>2. Spawn(Executed(first, plan)) \/ UNCHANGED fieldVars
        BY DEF SpawnPipes
      <4> HIDE DEF first
      <4> QED
        BY <4>1, <4>2 DEF Executed, Plans
    <3>2. CASE SpecialSpawns
      <4> PICK plan \in SpecialPlans, c \in Cadences : SpawnSpecial(plan, c)
        BY <3>2 DEF SpecialSpawns
      <4> DEFINE t == specialT - 1
                 first == Schedule("special", pendingSpecialSpawn, t, warnings, plan)
      <4>0. /\ t \in Int /\ warnings \in SUBSET Warnings /\ TypeOK
            /\ pendingSpecialSpawn \in SpecialPlans \cup {NoPlan} /\ "special" \in {"pipe", "special"}
        BY DEF BooksInv, TypeOK
      <4> HIDE DEF t
      <4>1. first.pending \in SpecialPlans \cup {NoPlan}
        BY <4>0, ScheduleTypes
      <4> USE DEF t
      <4>2. Spawn(Executed(first, plan)) \/ UNCHANGED fieldVars
        BY DEF SpawnSpecial
      <4> HIDE DEF first
      <4> QED
        BY <4>1, <4>2 DEF Executed, Plans
    <3> QED
      BY <1>4, <3>1, <3>2
  <2>4. Unspawned' /\ BooksAgree' /\ GatesHaveBooks'
    <3>1. CASE UNCHANGED fieldVars
      BY <2>1, <3>1 DEF fieldVars, BooksInv, Unspawned, BooksAgree, GatesHaveBooks
    <3>2. ASSUME NEW plan \in Plans, Spawn(plan) PROVE Unspawned' /\ BooksAgree' /\ GatesHaveBooks'
      <4>1. HasGap(plan) => nextGapId <= MaxGaps
        BY <1>1, <2>1, <3>2, WallHasRoom DEF BooksInv, TypeOK
      <4> QED
        BY <2>1, <2>2, <3>2, <4>1, SpawnKeepsBooks
    <3> QED
      BY <2>3, <3>1, <3>2
  <2> QED
    BY <1>1, <2>1, <2>2, <2>4 DEF BooksInv, LeavingOnlyAtRemoval, MissedIsCharged
<1>5. CASE Crosses
  <2> PICK g \in Gaps : PerfectGap(g)
    BY <1>5 DEF Crosses
  <2>1. /\ at = "gates" /\ at' = "gates" /\ perfected' = perfected \cup {g} /\ g \in gates
        /\ gapMeta' = IF gapMeta[g] = NoMeta THEN gapMeta
                      ELSE [gapMeta EXCEPT ![g] = [@ EXCEPT !.perfected = TRUE]]
        /\ UNCHANGED <<pipes, gates, nextGapId, brokenGaps, leaving>>
    BY DEF PerfectGap, Unbroken
  <2>2. g < nextGapId
    BY <2>1 DEF BooksInv, Unspawned, TypeOK, Gaps
  <2>3. leaving = {} /\ gapMeta[g] # NoMeta /\ gapMeta[g] \in Metas
    BY <2>1 DEF BooksInv, LeavingOnlyAtRemoval, GatesHaveBooks, TypeOK
  <2> DEFINE m == [gapMeta[g] EXCEPT !.perfected = TRUE]
  <2>4. /\ m \in Metas /\ m.perfected = TRUE /\ m.broken = gapMeta[g].broken
        /\ m.pipesRemaining = gapMeta[g].pipesRemaining
    BY <2>3 DEF Metas
  <2>5. gapMeta' = [gapMeta EXCEPT ![g] = m]
    BY <2>1, <2>3
  <2> HIDE DEF m
  <2>6. gapMeta'[g] = m /\ \A h \in Gaps : h # g => gapMeta'[h] = gapMeta[h]
    BY <2>5 DEF BooksInv, TypeOK
  <2>7. Unspawned'
    <3>1. \A h \in Gaps : h >= nextGapId => h # g
      BY <2>2 DEF BooksInv, TypeOK, Gaps
    <3> QED
      BY <2>1, <2>6, <3>1 DEF BooksInv, Unspawned
  <2>8. BooksAgree'
    BY <2>1, <2>3, <2>4, <2>6 DEF BooksInv, BooksAgree
  <2>9. GatesHaveBooks'
    <3>1. gates \subseteq Gaps /\ m # NoMeta
      BY <2>4, MetaIs DEF BooksInv, TypeOK
    <3> QED
      BY <2>1, <2>6, <3>1 DEF BooksInv, GatesHaveBooks
  <2> QED
    BY <1>1, <2>1, <2>3, <2>7, <2>8, <2>9 DEF BooksInv, LeavingOnlyAtRemoval, MissedIsCharged
<1>6. CASE Passing \/ Reflecting
  <2>1. /\ at = "collide" /\ at' = "remove" /\ leaving' \in SUBSET gates
        /\ UNCHANGED <<fieldVars, perfectCombo>>
    BY <1>6 DEF Passing, Reflecting, NoHit, HitReflects, Touches
  <2>2. GatesHaveBooks' /\ MissedIsCharged'
    BY <2>1, LeavingDecided DEF fieldVars
  <2> QED
    BY <1>1, <2>1, <2>2 DEF fieldVars, BooksInv, Unspawned, BooksAgree, LeavingOnlyAtRemoval
<1>7. CASE Destroying
  <2> PICK gone \in SUBSET gates, g \in DOMAIN pipes : HitDestroys(g, gone)
    BY <1>7 DEF Destroying
  <2>1. /\ at = "collide" /\ at' = "remove" /\ leaving' = gone /\ pipes[g] > 0
        /\ Shatter(One(g)) /\ g \in Gaps \cup {NoGap}
    BY DEF HitDestroys, Touches, BooksInv, TypeOK
  <2>2. /\ Unspawned' /\ BooksAgree'
        /\ \A h \in Gaps : gapMeta'[h] = NoMeta <=> gapMeta[h] = NoMeta
        /\ UNCHANGED gates
    BY <2>1, OneIsPart, ShatterKeepsBooks DEF BooksInv
  <2>3. GatesHaveBooks' /\ MissedIsCharged'
    BY <2>1, <2>2, LeavingDecided
  <2> QED
    BY <1>1, <2>1, <2>2, <2>3 DEF BooksInv, LeavingOnlyAtRemoval
<1>8. CASE Removes
  <2> PICK g \in Gaps \cup {NoGap} : RemovePipe(g)
    BY <1>8 DEF Removes, BooksInv, TypeOK
  <2>1. at' = "remove"
    BY DEF RemovePipe
  <2> QED
    BY <1>1, <2>1, PipeRemovedKeepsBooks DEF BooksInv, LeavingOnlyAtRemoval
<1>9. CASE RemoveGates
  <2>1. /\ at' = "gone" /\ leaving' = {} /\ gates' = gates \ leaving
        /\ \A g \in Gaps : gapMeta'[g] = IF g \in leaving THEN NoMeta ELSE gapMeta[g]
        /\ UNCHANGED <<pipes, perfected, nextGapId, brokenGaps>>
    BY <1>9 DEF RemoveGates
  <2>2. gates \subseteq Gaps
    BY DEF BooksInv, TypeOK
  <2> QED
    BY <1>1, <2>1, <2>2 DEF BooksInv, Unspawned, BooksAgree, GatesHaveBooks,
                            LeavingOnlyAtRemoval, MissedIsCharged
<1>10. CASE Cuts
  <2> PICK cut \in Parts : EndFrame(cut)
    BY <1>10 DEF Cuts
  <2>1. /\ at = "gone" /\ at' = "rest"
        /\ pipes' = [g \in DOMAIN pipes |-> pipes[g] - cut[g]]
        /\ UNCHANGED <<gates, perfected, gapMeta, nextGapId, brokenGaps, leaving>>
    BY DEF EndFrame
  <2>2. \A g \in Gaps : pipes[g] \in Nat /\ cut[g] \in Nat /\ cut[g] <= pipes[g]
    BY PartsAre DEF BooksInv, TypeOK
  <2>3. \A g \in Gaps : pipes'[g] = pipes[g] - cut[g]
    BY <2>1 DEF BooksInv, TypeOK
  <2>4. Unspawned'
    <3> SUFFICES ASSUME NEW g \in Gaps, g >= nextGapId PROVE pipes'[g] = 0
      BY <2>1 DEF BooksInv, Unspawned
    <3>1. pipes[g] = 0
      BY DEF BooksInv, Unspawned
    <3> QED
      BY <2>2, <2>3, <3>1
  <2>5. BooksAgree'
    <3> SUFFICES ASSUME NEW g \in Gaps, gapMeta[g] # NoMeta
                 PROVE  gapMeta[g].pipesRemaining >= pipes'[g]
      BY <2>1 DEF BooksInv, BooksAgree
    <3>1. gapMeta[g].pipesRemaining >= pipes[g] /\ gapMeta[g].pipesRemaining \in Nat
      BY MetaIs DEF BooksInv, BooksAgree, TypeOK
    <3> QED
      BY <2>2, <2>3, <3>1
  <2> QED
    BY <1>1, <2>1, <2>4, <2>5 DEF BooksInv, GatesHaveBooks, LeavingOnlyAtRemoval, MissedIsCharged
<1>11. CASE /\ UNCHANGED <<fieldVars, leaving, perfectCombo>>
            /\ at' = at \/ (at # "remove" /\ at' # "remove")
  BY <1>1, <1>11 DEF fieldVars, BooksInv, Unspawned, BooksAgree, GatesHaveBooks,
                     LeavingOnlyAtRemoval, MissedIsCharged
<1> QED
  BY <1>2, <1>3, <1>4, <1>5, <1>6, <1>7, <1>8, <1>9, <1>10, <1>11, WhoKeepsBooks

\* Between frames there are books for exactly the gates in the field, and they agree with
\* what was crossed, broken and removed (_gapMeta, in whatever order pipes and gates go).
THEOREM BooksAreKept == Spec => []GapBooks
<1>1. BooksInv => GapBooks
  <2> SUFFICES ASSUME BooksInv, at = "rest", NEW g \in Gaps
               PROVE  /\ (gapMeta[g] # NoMeta) = (g \in gates)
                      /\ g \in gates => /\ gapMeta[g].perfected = (g \in perfected)
                                        /\ gapMeta[g].broken = (g \in brokenGaps)
                                        /\ gapMeta[g].pipesRemaining >= pipes[g]
    BY DEF GapBooks
  <2>1. gapMeta[g] # NoMeta <=> g \in gates
    BY DEF BooksInv, LeavingOnlyAtRemoval, GatesHaveBooks, BooksAgree
  <2>2. gapMeta[g] # NoMeta =>
          /\ gapMeta[g].perfected \in BOOLEAN /\ gapMeta[g].broken \in BOOLEAN
          /\ gapMeta[g].perfected = TRUE <=> g \in perfected
          /\ gapMeta[g].broken = TRUE <=> g \in brokenGaps
          /\ gapMeta[g].pipesRemaining >= pipes[g]
    BY MetaIs DEF BooksInv, TypeOK, BooksAgree
  <2> QED
    BY <2>1, <2>2
<1> QED
  BY <1>1, BooksInit, BooksKept, PTL DEF Spec

\* What every frame leaves behind: combos with time, warnings that come true, books that
\* agree with the field (update).
THEOREM FramesKeepBooks == Spec => []FrameBooks
<1>1. ComboHasTime /\ WarningsAnnouncePlans /\ GapBooks => FrameBooks
  BY DEF FrameBooks
<1> QED
  BY <1>1, CombosHaveTime, WarningsTellTheTruth, BooksAreKept, PTL

\* Who changes the streak: a new run, a gap crossed well, a gap that leaves.
LEMMA WhoChangesStreak ==
  [Next]_vars =>
    \/ SetStateMenu \/ StartRun \/ Crosses \/ Removes \/ RemoveGates
    \/ UNCHANGED perfectCombo /\ ~(at = "remove" /\ at' = "gone")
<1> SUFFICES ASSUME [Next]_vars, ~SetStateMenu, ~StartRun, ~Crosses, ~Removes, ~RemoveGates
             PROVE  UNCHANGED perfectCombo /\ ~(at = "remove" /\ at' = "gone")
  OBVIOUS
<1>1. UNCHANGED perfectCombo
  BY DEF Next, vars, fieldVars, PipesSpawn, SpecialSpawns, SpawnPipes, SpawnSpecial, Crosses,
         Passing, NoHit, Destroying, HitDestroys, Reflecting, HitReflects, Removes,
         Cuts, EndFrame, SetSkillSettings, UseDash, UsePhase, UseTeleport, UseSlowField,
         Breaks, BeginFrame, SpawnOrb, EndGates, OrbsDie, PickUpOrb, TickCombo, HitEnds,
         Touches, Ready, Shatter
<1>2. ~(at = "remove" /\ at' = "gone")
  BY DEF Next, vars, PipesSpawn, SpecialSpawns, SpawnPipes, SpawnSpecial, Crosses,
         Passing, NoHit, Destroying, HitDestroys, Reflecting, HitReflects, Removes,
         Cuts, EndFrame, SetSkillSettings, UseDash, UsePhase, UseTeleport, UseSlowField,
         Breaks, BeginFrame, SpawnOrb, EndGates, OrbsDie, PickUpOrb, TickCombo, HitEnds,
         Touches, Ready
<1> QED
  BY <1>1, <1>2

\* The streak grows only by a gap crossed well, and is lost exactly when a gap leaves
\* that was neither crossed well nor broken (_onGapPipeRemoved, _onGapGateRemoved).
THEOREM StreakIsFair == Spec => StreakFollowsGaps
<1> DEFINE Grows == perfectCombo' > perfectCombo =>
                      /\ perfectCombo' = perfectCombo + 1
                      /\ \E g \in gates \ (perfected \cup brokenGaps) : perfected' = perfected \cup {g}
           Drops == perfectCombo' < perfectCombo =>
                      perfectCombo' = 0 /\ (at' = "rest" \/ \E g \in Gaps : Missed(g))
           Charged == at = "remove" /\ at' = "gone" /\ (\E g \in Gaps : Missed(g)) => perfectCombo' = 0
<1>1. BooksInv /\ [Next]_vars => [Grows /\ Drops /\ Charged]_vars
  <2> SUFFICES ASSUME BooksInv, [Next]_vars PROVE Grows /\ Drops /\ Charged
    OBVIOUS
  <2>1. perfectCombo \in Nat /\ leaving \subseteq Gaps /\ gates \subseteq Gaps
    <3>1. leaving \subseteq Gaps
      BY DEF BooksInv, TypeOK
    <3>2. perfectCombo \in Nat
      BY DEF BooksInv, TypeOK
    <3>3. gates \subseteq Gaps
      BY DEF BooksInv, TypeOK
    <3> QED
      BY <3>1, <3>2, <3>3
  <2>2. CASE SetStateMenu \/ StartRun
    <3>1. at' = "rest" /\ perfectCombo' = 0
      BY <2>2 DEF SetStateMenu, StartRun, ResetRun
    <3> QED
      BY <2>1, <3>1
  <2>3. CASE Crosses
    <3> PICK g \in Gaps : PerfectGap(g)
      BY <2>3 DEF Crosses
    <3>1. /\ at = "gates" /\ g \in gates /\ g \notin perfected /\ perfected' = perfected \cup {g}
          /\ perfectCombo' = perfectCombo + 1
          /\ ~(gapMeta[g] # NoMeta /\ gapMeta[g].broken)
      BY DEF PerfectGap, Unbroken
    <3>2. g \notin brokenGaps
      BY <3>1 DEF BooksInv, BooksAgree, GatesHaveBooks, LeavingOnlyAtRemoval
    <3> QED
      BY <2>1, <3>1, <3>2
  <2>4. CASE Removes
    <3> PICK g \in Gaps \cup {NoGap} : RemovePipe(g)
      BY <2>4 DEF Removes, BooksInv, TypeOK
    <3>1. at' = "remove" /\ at = "remove" /\ PipeRemoved(g) /\ g \notin gates \ leaving
      BY DEF RemovePipe
    <3>2. \/ UNCHANGED perfectCombo
          \/ /\ g # NoGap /\ gapMeta[g] # NoMeta /\ ~gapMeta[g].broken
             /\ ~gapMeta[g].perfected /\ perfectCombo' = 0
      BY <3>1 DEF PipeRemoved
    <3>3. CASE UNCHANGED perfectCombo
      BY <2>1, <3>1, <3>3
    <3>4. CASE /\ g # NoGap /\ gapMeta[g] # NoMeta /\ ~gapMeta[g].broken
               /\ ~gapMeta[g].perfected /\ perfectCombo' = 0
      <4>1. g \in Gaps /\ g \in gates /\ g \notin perfected /\ g \notin brokenGaps
        BY <3>4 DEF BooksInv, BooksAgree
      <4>2. Missed(g)
        BY <3>1, <4>1 DEF Missed
      <4> QED
        BY <2>1, <3>1, <3>4, <4>1, <4>2
    <3> QED
      BY <3>2, <3>3, <3>4
  <2>5. CASE RemoveGates
    <3> DEFINE lost == \E g \in leaving : /\ gapMeta[g] # NoMeta
                                          /\ ~gapMeta[g].perfected /\ ~gapMeta[g].broken
    <3>1. at = "remove" /\ at' = "gone" /\ perfectCombo' = IF lost THEN 0 ELSE perfectCombo
      BY <2>5 DEF RemoveGates
    <3>2. lost => \E g \in Gaps : Missed(g)
      <4> SUFFICES ASSUME NEW g \in leaving, gapMeta[g] # NoMeta,
                          ~gapMeta[g].perfected, ~gapMeta[g].broken
                   PROVE  g \in Gaps /\ Missed(g)
        OBVIOUS
      <4> QED
        BY <2>1 DEF Missed, BooksInv, BooksAgree
    <3>3. (\E g \in Gaps : Missed(g)) => lost \/ perfectCombo = 0
      <4> SUFFICES ASSUME NEW g \in Gaps, Missed(g), perfectCombo # 0
                   PROVE  lost
        OBVIOUS
      <4>1. g \in leaving /\ g \notin perfected /\ g \notin brokenGaps
        BY DEF Missed
      <4>2. gapMeta[g] # NoMeta
        BY <3>1, <4>1 DEF BooksInv, MissedIsCharged
      <4>3. gapMeta[g].perfected # TRUE /\ gapMeta[g].broken # TRUE
        BY <4>1, <4>2 DEF BooksInv, BooksAgree
      <4>4. gapMeta[g].perfected \in BOOLEAN /\ gapMeta[g].broken \in BOOLEAN
        BY <4>2, MetaIs DEF BooksInv, TypeOK
      <4> QED
        BY <4>1, <4>2, <4>3, <4>4
    <3> HIDE DEF lost
    <3> QED
      BY <2>1, <3>1, <3>2, <3>3
  <2>6. CASE UNCHANGED perfectCombo /\ ~(at = "remove" /\ at' = "gone")
    BY <2>1, <2>6
  <2> QED
    BY <2>2, <2>3, <2>4, <2>5, <2>6, WhoChangesStreak
<1>2. [][Grows /\ Drops /\ Charged]_vars => StreakFollowsGaps
  BY PTL DEF StreakFollowsGaps
<1> QED
  BY <1>1, <1>2, BooksInit, BooksKept, PTL DEF Spec
=============================================================================
