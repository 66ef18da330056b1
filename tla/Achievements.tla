---------------------------- MODULE Achievements ----------------------------
(***************************************************************************)
(* Achievements: their definitions (achievementDefinitions.cjs), the       *)
(* evaluation of a run against them by the server (achievements.cjs) and,  *)
(* during the run, by the browser's twin of it (achievements.js, main.js). *)
(*                                                                         *)
(* The browser evaluates every tick of a run, from what it knew of the     *)
(* account when the run began, and announces what it finds.  The server    *)
(* evaluates the finished run, from the account as it finds it.  A run's   *)
(* score may still be on its way when the next run begins.                 *)
(***************************************************************************)
EXTENDS Naturals, Sequences, FiniteSets, FiniteSetsExt

CONSTANTS
  Catalog,     \* ACHIEVEMENTS: a requirement for each id
  Edits,       \* what operators send: lists of definitions, or None
  Counted,     \* the statistics that runs vary
  MaxCount,    \* bound: the largest of them
  MaxEdits,    \* bound: how often the definitions are edited
  Runs,        \* bound: the runs that are begun
  Cap,         \* the largest number that progress is counted to (1,000,000,000)
  Scale,       \* percentages are multiples of 1 / Scale
  Unknown,     \* a statistic that was not sent
  Bad,         \* anything that is not a number
  None

\* RUN_REQUIREMENT_CONFIG, and the requirements that look at what all runs sum up to:
\* minSkillUses has a minimum for each skill, and each one has to be reached.
Upper == [maxOrbs |-> "orbs", maxAbilities |-> "abilities"]
Lower == [minScore |-> "score", minOrbs |-> "orbs", minPerfects |-> "perfects",
          minPipesDodged |-> "pipes", minOrbCombo |-> "orbCombo",
          minPerfectCombo |-> "perfectCombo", minRunTime |-> "runTime",
          minBrokenPipesInExplosion |-> "explosion", minBrokenPipesInRun |-> "broken"]
Lifetime == [totalScore |-> "score", totalRuns |-> "runs", totalRunTime |-> "runTime",
             totalOrbs |-> "orbs", totalPerfects |-> "perfects", totalPipesDodged |-> "pipes",
             totalBrokenPipes |-> "broken", minDashUses |-> "dash", minPhaseUses |-> "phase",
             minTeleportUses |-> "teleport", minSlowFieldUses |-> "slowField"]
SkillUses == {"dash", "phase", "teleport", "slowField"}
RequirementKeys == DOMAIN Upper \cup DOMAIN Lower \cup DOMAIN Lifetime

Statistics == {"score", "orbs", "abilities", "perfects", "pipes", "orbCombo", "perfectCombo",
               "runTime", "explosion", "broken"} \cup SkillUses
Bests == Statistics \ ({"abilities"} \cup SkillUses)
Totals == {Lifetime[k] : k \in DOMAIN Lifetime}

ASSUME AchievementsAssumption ==
  /\ Counted \subseteq Statistics \ {"score"}
  /\ MaxCount \in Nat /\ MaxEdits \in Nat /\ Runs \in Nat /\ Cap \in Nat \ {0} /\ Scale \in Nat \ {0}
  /\ \A id \in DOMAIN Catalog :
       /\ DOMAIN Catalog[id] \subseteq RequirementKeys
       /\ \A k \in DOMAIN Catalog[id] : Catalog[id][k] \in Nat
  /\ \A raw \in Edits \ {None} : \A i \in DOMAIN raw :
       \A k \in DOMAIN raw[i].requirement : raw[i].requirement[k] \in Nat \cup {Bad}
  /\ Unknown \notin Nat /\ Bad \notin Nat /\ Unknown # Bad

VARIABLES
  served,      \* the server's definitions; None: those of the code
  earned,      \* the account's achievements: what is unlocked, and progress
  record,      \* its totalScore, runs and bestScore
  net,         \* the page's copy of the definitions and of what the account has achieved
  totals,      \* and of its score and runs
  stage,       \* is a run being played
  base,        \* runAchievementBaseState
  stats,       \* game.runStats, and the score
  announced,   \* runAchievementIds
  sent,        \* the scores on their way, and their answers
  begun,       \* how many runs have begun, and edits been made
  edited,
  history      \* history: the runs that the account has recorded, with the definitions of then

achievementVars == <<served, earned, record, net, totals, stage, base, stats, announced, sent,
                     begun, edited, history>>
-----------------------------------------------------------------------------
(* Definitions. *)

\* normalizeAchievementDefinitions: a list of [id, requirement]; an id that is empty is None.
Valid(raw) ==
  /\ \A i \in DOMAIN raw :
       /\ raw[i].id # None /\ DOMAIN raw[i].requirement \subseteq RequirementKeys
       /\ \A k \in DOMAIN raw[i].requirement : raw[i].requirement[k] # Bad
  /\ \A i, j \in DOMAIN raw : raw[i].id = raw[j].id => i = j

Normalized(raw) ==
  [id \in {raw[i].id : i \in DOMAIN raw} |->
     raw[CHOOSE i \in DOMAIN raw : raw[i].id = id].requirement]

\* getAchievementDefinitions
Definitions(s) == IF s = None THEN Catalog ELSE s

\* resolveAchievementDefinitions of the page: an empty list is none at all.
Known(definitions, before) == IF DOMAIN definitions # {} THEN definitions ELSE before
-----------------------------------------------------------------------------
(* Evaluation of a run. *)

Clamped(n) == IF n < Cap THEN n ELSE Cap
Larger(a, b) == IF a < b THEN b ELSE a
Amount(s, k) == IF s[k] = Unknown THEN 0 ELSE Clamped(s[k])

\* validateRunStats: nothing at all is a run of which only the score is known.
RunIsValid(raw) == \A k \in DOMAIN raw : raw[k] # Bad

Fresh == [unlocked |-> {},
          best |-> [k \in Bests |-> 0], total |-> [k \in Totals |-> 0],
          without |-> [k \in {"orbs", "abilities"} |-> 0],
          percent |-> [id \in {} |-> 0]]

\* How much of a requirement with several parts that one run has to meet has been met.
Part(requirement, k, s) ==
  LET target == requirement[k]
      value == s[IF k \in DOMAIN Upper THEN Upper[k] ELSE Lower[k]]
  IN  IF value = Unknown THEN 0
      ELSE IF k \in DOMAIN Upper
      THEN IF value <= target THEN Scale ELSE (Scale * target) \div value
      ELSE IF value >= target THEN Scale ELSE (Scale * value) \div target
RunKeys(requirement) == DOMAIN requirement \cap (DOMAIN Upper \cup DOMAIN Lower)
Percent(requirement, s) ==
  MapThenSumSet(LAMBDA k : Part(requirement, k, s), RunKeys(requirement))
    \div Cardinality(RunKeys(requirement))

\* The progress after a run of an account that has these totals.
Progress(state, s, account) ==
  [best |-> [k \in Bests |->
      IF k = "score" THEN Larger(Amount(s, k), Larger(Clamped(account.best), state.best[k]))
      ELSE Larger(state.best[k], Amount(s, k))],
   total |-> [k \in Totals |->
      CASE k = "score" -> Clamped(Clamped(account.score) + Amount(s, k))
        [] k = "runs" -> Clamped(Clamped(account.runs) + 1)
        [] OTHER -> Clamped(state.total[k] + Amount(s, k))],
   without |-> [k \in {"orbs", "abilities"} |->
      IF s[k] = 0 THEN Larger(state.without[k], Amount(s, "score")) ELSE state.without[k]]]

\* Is a part of a requirement met by a run and the progress after it?
Met(requirement, k, s, best, total) ==
  CASE k \in DOMAIN Upper -> s[Upper[k]] # Unknown /\ s[Upper[k]] <= requirement[k]
    [] k \in DOMAIN Lower ->
         LET value == IF DOMAIN requirement = {"minScore"} THEN best["score"] ELSE s[Lower[k]]
         IN  value # Unknown /\ Clamped(value) >= requirement[k]
    [] OTHER -> total[Lifetime[k]] >= requirement[k]

\* evaluateRunForAchievements
Evaluate(state, s, account, definitions) ==
  LET now == Progress(state, s, account)
      new == {id \in DOMAIN definitions \ state.unlocked :
                \A k \in DOMAIN definitions[id] : Met(definitions[id], k, s, now.best, now.total)}
      open == {id \in DOMAIN definitions \ state.unlocked : Cardinality(RunKeys(definitions[id])) > 1}
      Had(id) == IF id \in DOMAIN state.percent THEN state.percent[id] ELSE 0
  IN  [unlocked |-> state.unlocked \cup new,
       best |-> now.best, total |-> now.total, without |-> now.without,
       percent |-> [id \in DOMAIN state.percent \cup {i \in open : Percent(definitions[i], s) > 0} |->
                      IF id \in open THEN Larger(Had(id), Percent(definitions[id], s)) ELSE Had(id)]]

\* Mutant: the browser does not know of a requirement that was added to the server.
EvaluateUnaware(state, s, account, definitions) ==
  Evaluate(state, s, account, [id \in DOMAIN definitions |->
    [k \in DOMAIN definitions[id] \ {"minPerfects"} |-> definitions[id][k]]])

\* The browser's, of a run that is being played and all of which is known.
EvaluateSoFar(state, s, account, definitions) == Evaluate(state, s, account, definitions)
-----------------------------------------------------------------------------
(* The account, the page and the runs. *)

NoStats == [k \in Statistics |-> 0]

AchievementsInit ==
  /\ served = None /\ earned = Fresh /\ record = [score |-> 0, runs |-> 0, best |-> 0]
  /\ net = [definitions |-> Catalog, state |-> Fresh] /\ totals = record
  /\ stage = "menu" /\ base = Fresh /\ stats = NoStats /\ announced = {}
  /\ sent = {} /\ begun = 0 /\ edited = 0 /\ history = <<>>

\* startGame and resetRunAchievements
StartRun ==
  /\ begun < Runs /\ stage = "menu"
  /\ begun' = begun + 1 /\ stage' = "play"
  /\ stats' = NoStats /\ announced' = {} /\ base' = net.state
  /\ UNCHANGED <<served, earned, record, net, totals, sent, edited, history>>

\* An orb, a gap, a pipe, an ability, a combo...: some of them score.
Happens(k, points) ==
  /\ stage = "play" /\ k \in Counted /\ stats[k] < MaxCount
  /\ points > 0 => k \in {"orbs", "perfects", "pipes"}
  /\ stats' = [stats EXCEPT ![k] = @ + 1, !["score"] = @ + points]
  /\ UNCHANGED <<served, earned, record, net, totals, stage, base, announced, sent, begun, edited, history>>

\* checkRunAchievements, at the end of a tick.
CheckRun ==
  /\ stage = "play"
  /\ LET found == EvaluateSoFar(base, stats, totals, net.definitions).unlocked \ base.unlocked
     IN  announced' = announced \cup {[id |-> i, requirement |-> net.definitions[i]] :
           i \in {j \in found : \A a \in announced : a.id # j}}
  /\ announced' # announced
  /\ UNCHANGED <<served, earned, record, net, totals, stage, base, stats, sent, begun, edited, history>>

\* onGameOver: the score is sent.
GameOver ==
  /\ stage = "play" /\ stage' = "menu"
  /\ sent' = sent \cup {[run |-> begun, stats |-> stats, announced |-> announced, status |-> "sent",
                         unlocked |-> {}, definitions |-> served, state |-> Fresh, record |-> record]}
  /\ UNCHANGED <<served, earned, record, net, totals, base, stats, announced, begun, edited, history>>

\* What arrives of a run: other programs than this page send less, or nonsense.
Raw(s) ==
  {s, [k \in Statistics |-> IF k = "score" THEN s[k] ELSE Unknown],
   [k \in Statistics |-> IF k = "score" THEN s[k] ELSE Bad]}

\* submitScore: one at a time here; handlers that overlap are the business of Accounts.
SubmitScore(q, raw) ==
  /\ q \in sent /\ q.status = "sent" /\ raw \in Raw(q.stats)
  /\ IF RunIsValid(raw)
     THEN LET definitions == Definitions(served)
              after == Evaluate(earned, raw, record, definitions)
          IN  /\ earned' = after
              /\ record' = [score |-> record.score + raw["score"], runs |-> record.runs + 1,
                            best |-> Larger(record.best, raw["score"])]
              /\ history' = Append(history, [stats |-> raw, definitions |-> definitions])
              /\ sent' = (sent \ {q}) \cup {[q EXCEPT !.stats = raw, !.status = "recorded",
                           !.unlocked = after.unlocked \ earned.unlocked,
                           !.definitions = definitions, !.state = after, !.record = record']}
     ELSE /\ sent' = (sent \ {q}) \cup {[q EXCEPT !.status = "refused"]}
          /\ UNCHANGED <<earned, record, history>>
  /\ UNCHANGED <<served, net, totals, stage, base, stats, announced, begun, edited>>

\* applyAchievementsPayload and notifyAchievements: what a late answer unlocked is added to
\* the run that is being played by then.
Apply(definitions, state, account, unlocked) ==
  LET known == Known(definitions, net.definitions)
  IN  /\ net' = [definitions |-> known, state |-> state] /\ totals' = account
      /\ announced' = announced \cup {[id |-> i, requirement |-> known[i]] :
           i \in {j \in unlocked \cap DOMAIN known : \A a \in announced : a.id # j}}

ScoreAnswered(q) ==
  /\ q \in sent /\ q.status = "recorded" /\ sent' = sent \ {q}
  /\ Apply(q.definitions, q.state, q.record, q.unlocked)
  /\ UNCHANGED <<served, earned, record, stage, base, stats, begun, edited, history>>

\* No answer, or a refusal: the profile is asked for (refreshProfileAndHighscores), or not
\* there either.
ScoreFailed(q, refreshes) ==
  /\ q \in sent /\ sent' = sent \ {q}
  /\ IF refreshes = "yes" THEN Apply(Definitions(served), earned, record, {})
     ELSE UNCHANGED <<net, totals, announced>>
  /\ UNCHANGED <<served, earned, record, stage, base, stats, begun, edited, history>>

\* PUT /api/admin/achievements
Edit(raw) ==
  /\ edited < MaxEdits /\ edited' = edited + 1
  /\ served' = IF raw = None THEN None ELSE IF Valid(raw) THEN Normalized(raw) ELSE served
  /\ UNCHANGED <<earned, record, net, totals, stage, base, stats, announced, sent, begun, history>>

AchievementsNext ==
  \/ StartRun \/ CheckRun \/ GameOver
  \/ \E k \in Counted, points \in 0..1 : Happens(k, points)
  \/ \E q \in sent :
       \/ \E raw \in Raw(q.stats) : SubmitScore(q, raw)
       \/ ScoreAnswered(q)
       \/ \E refreshes \in {"no", "yes"} : ScoreFailed(q, refreshes)
  \/ \E raw \in Edits : Edit(raw)

AchievementsSpec == AchievementsInit /\ [][AchievementsNext]_achievementVars
-----------------------------------------------------------------------------
AchievementsTypeOK ==
  /\ \A k \in Bests : earned.best[k] \in 0..Cap
  /\ \A k \in Totals : earned.total[k] \in 0..Cap
  /\ \A id \in DOMAIN earned.percent : earned.percent[id] \in 1..Scale
  /\ stage \in {"menu", "play"} /\ begun \in 0..Runs /\ Len(history) <= begun

\* What k sums up to over the first n of some runs, from the runs themselves.
Counts(s, k) == IF k = "runs" THEN 1 ELSE IF s[k] = Unknown THEN 0 ELSE s[k]
Tally(runs, k, n) ==
  LET tally[i \in 0..n] == IF i = 0 THEN 0 ELSE tally[i - 1] + Counts(runs[i].stats, k)
  IN  tally[n]

\* Did the n-th run, with all before it, meet a requirement as it was then?
Reaches(value, target) == value # Unknown /\ Clamped(value) >= target
EarnedBy(id, runs, n) ==
  LET requirement == runs[n].definitions[id]
      run == runs[n].stats
  IN  \A k \in DOMAIN requirement :
        CASE k \in DOMAIN Upper -> run[Upper[k]] # Unknown /\ run[Upper[k]] <= requirement[k]
          [] k \in DOMAIN Lower ->
               IF DOMAIN requirement = {"minScore"}
               THEN \E i \in 1..n : Reaches(runs[i].stats["score"], requirement[k])
               ELSE Reaches(run[Lower[k]], requirement[k])
          [] OTHER -> Clamped(Tally(runs, Lifetime[k], n)) >= requirement[k]

\* An achievement is unlocked if and only if one of the account's recorded runs, with all
\* that were recorded before it, met the whole of its requirement as it was then: however
\* the definitions were edited between the runs.
UnlockedIsEarned ==
  earned.unlocked = {id \in UNION {DOMAIN history[n].definitions : n \in DOMAIN history} :
                       \E n \in DOMAIN history : id \in DOMAIN history[n].definitions /\ EarnedBy(id, history, n)}

\* What the browser announces during a run is unlocked once the server has recorded that
\* run, unless its requirement has an upper limit, which the rest of the run may exceed, or
\* has been edited meanwhile: whatever the browser still had to learn when the run began.
AnnouncedIsUnlocked ==
  \A q \in sent : q.status = "recorded" /\ Unknown \notin {q.stats[k] : k \in Statistics} =>
    \A a \in q.announced :
      /\ DOMAIN a.requirement \cap DOMAIN Upper = {}
      /\ a.id \in DOMAIN q.definitions
      /\ a.requirement = q.definitions[a.id]
      => a.id \in earned.unlocked

\* Server and browser agree with the runs: what is unlocked was earned, and what was
\* announced is unlocked.
AchievementsAreTrue == UnlockedIsEarned /\ AnnouncedIsUnlocked
=============================================================================
