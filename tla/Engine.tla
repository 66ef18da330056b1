------------------------------- MODULE Engine -------------------------------
(***************************************************************************)
(* The headless engine of engine/: a world that is stepped by a pipeline   *)
(* of systems, the log of its events with the animations derived from      *)
(* them, the four ways to drive it (a loop of fixed steps, a scenario, a   *)
(* timeline and the page's game), and the buffer that puts the snapshots   *)
(* of a remote engine in order.                                            *)
(*                                                                         *)
(* Times are whole numbers of a fixed step, places whole numbers too.      *)
(***************************************************************************)
EXTENDS Integers, Sequences, SequencesExt

CONSTANTS
  World,       \* the configuration: width, height, gravity, jumpImpulse, maxFallSpeed,
               \* dashSpeed, dashDuration, phaseDuration, eventBufferSize
  Triggers,    \* the trigger ids of emitted events
  MaxSteps,    \* steps of one call of the loop
  Capacity,    \* snapshots in the buffer
  LastTick,    \* bound: ticks of an engine
  Times,       \* bound: times of remote snapshots
  Arrivals,    \* bound: remote snapshots that arrive
  MaxQueued,   \* bound: actions that are enqueued at a time
  NoTrigger

ASSUME EngineAssumption ==
  /\ \A f \in {"width", "height", "gravity", "jumpImpulse", "maxFallSpeed", "dashSpeed",
               "dashDuration", "phaseDuration", "eventBufferSize"} : World[f] \in Nat \ {0}
  /\ {MaxSteps, Capacity, LastTick, Arrivals, MaxQueued} \subseteq Nat \ {0} /\ Times \subseteq Int
  /\ NoTrigger \notin Triggers

VARIABLES
  driver,      \* what drives the engine: "loop", "scenario" or "page"
  engine,      \* tick, time, now (the clock's), player, events and the triggers seen
  queue,       \* the actions enqueued
  accumulator,
  animated,    \* history: how often a trigger was animated, and whether it succeeded
  entries,     \* the buffer of snapshots
  arrived      \* history: the remote snapshots in the order of their arrival

engineVars == <<driver, engine, queue, accumulator, animated, entries, arrived>>

Directions == {"left", "right", "up", "down"}
Actions == {<<"jump", "up">>, <<"phase", "up">>} \cup ({"dash"} \X Directions)

-----------------------------------------------------------------------------
(* The log. *)

Event(type, trigger, at) == [type |-> type, trigger |-> trigger, at |-> at]

Animations == [score |-> "anim:orbPickup", dashStart |-> "anim:dash", phaseStart |-> "anim:phase",
               teleport |-> "anim:teleport"]

\* What is left of a list that may hold so many: the last of it.
Newest(list, size) ==
  SubSeq(list, IF Len(list) > size THEN Len(list) - size + 1 ELSE 1, Len(list))

Push(events, e) == Newest(Append(events, e), World.eventBufferSize)

\* A skill that failed or is on cooldown is logged and not animated, and leaves its trigger for
\* the next attempt; a trigger that was animated is not animated again.
Animates(e, type, trigger, succeeds) ==
  type \in DOMAIN Animations /\ succeeds /\ (trigger = NoTrigger \/ <<type, trigger>> \notin e.seen)

Emit(e, type, trigger, succeeds) ==
  LET logged == Push(e.events, Event(type, trigger, e.now)) IN
  IF Animates(e, type, trigger, succeeds)
  THEN [e EXCEPT !.events = Push(logged, Event(Animations[type], trigger, e.now)),
                 !.seen = IF trigger = NoTrigger THEN @ ELSE @ \cup {<<type, trigger>>}]
  ELSE [e EXCEPT !.events = logged]

Say(e, type) == Emit(e, type, NoTrigger, TRUE)

-----------------------------------------------------------------------------
(* The world. *)

NewEngine ==
  [tick |-> 0, time |-> 0, now |-> 0, events |-> <<>>, seen |-> {},
   player |-> [x |-> World.width \div 2, y |-> World.height \div 2, vx |-> 0, vy |-> 0,
               dash |-> 0, invuln |-> 0, bounces |-> 0]]

Towards == [left |-> <<-1, 0>>, right |-> <<1, 0>>, up |-> <<0, -1>>, down |-> <<0, 1>>]

\* applyAction; dash.active and invulnerable are dash > 0 and invuln > 0.
Command(e, a) ==
  CASE a[1] = "jump" ->
         Say([e EXCEPT !.player.vy = -World.jumpImpulse], "jump")
    [] a[1] = "dash" ->
         Say([e EXCEPT !.player.dash = World.dashDuration,
                       !.player.vx = Towards[a[2]][1] * World.dashSpeed,
                       !.player.vy = Towards[a[2]][2] * World.dashSpeed], "dashStart")
    [] a[1] = "phase" ->
         Say([e EXCEPT !.player.invuln = World.phaseDuration], "phaseStart")

Less(time, dt) == IF time > dt THEN time - dt ELSE 0
Abs(v) == IF v < 0 THEN -v ELSE v
Smaller(a, b) == IF a < b THEN a ELSE b

\* tickAbilities.
TickAbilities(e, dt) ==
  LET p == e.player
      d == [e EXCEPT !.player.dash = Less(@, dt)]
      dashed == IF p.dash > 0 /\ d.player.dash = 0 THEN Say(d, "dashEnd") ELSE d
      i == [dashed EXCEPT !.player.invuln = Less(@, dt)] IN
  IF p.invuln > 0 /\ i.player.invuln = 0 THEN Say(i, "phaseEnd") ELSE i

\* applyPhysics.
Move(e, dt) ==
  LET p == e.player
      vy == IF p.dash > 0 THEN p.vy ELSE Smaller(World.maxFallSpeed, p.vy + World.gravity * dt) IN
  [e EXCEPT !.player.vy = vy, !.player.x = @ + p.vx * dt, !.player.y = @ + vy * dt]

\* BoundsHandler.resolve on one axis: the place, the speed, and whether it bounced.
Resolve(place, speed, limit) ==
  CASE place < 0 -> <<0, Abs(speed), speed < 0>>
    [] place > limit -> <<limit, -Abs(speed), speed > 0>>
    [] OTHER -> <<place, speed, FALSE>>

Bounced(e, yes) == IF yes THEN Say([e EXCEPT !.player.bounces = @ + 1], "bounce") ELSE e

\* handleBounds.
HandleBounds(e) ==
  LET x == Resolve(e.player.x, e.player.vx, World.width)
      y == Resolve(e.player.y, e.player.vy, World.height)
      inside == [e EXCEPT !.player.x = x[1], !.player.vx = x[2],
                          !.player.y = y[1], !.player.vy = y[2]] IN
  Bounced(Bounced(inside, x[3]), y[3])

\* stepWorld with the default pipeline; the clock moves when the systems have run.
Step(e, dt) ==
  LET run == HandleBounds(Move(TickAbilities(e, dt), dt)) IN
  [run EXCEPT !.tick = @ + 1, !.time = @ + dt, !.now = @ + dt]

-----------------------------------------------------------------------------
(* What drives it. *)

Room(dt) == engine.now + dt <= LastTick
Buffer == UNCHANGED <<entries, arrived>>

\* createFixedStepLoop: the actions enqueued are applied before the first step only.
Enqueue(a) ==
  /\ driver = "loop" /\ Len(queue) < MaxQueued
  /\ queue' = Append(queue, a)
  /\ UNCHANGED <<driver, engine, accumulator, animated>> /\ Buffer

Commanded(e, actions) ==
  LET commanded[n \in 0..Len(actions)] ==
        IF n = 0 THEN e ELSE Command(commanded[n - 1], actions[n])
  IN  commanded[Len(actions)]

Stepped(e, actions, due) ==
  LET stepped[n \in 0..due] ==
        IF n = 0 THEN e ELSE Step(IF n = 1 THEN Commanded(e, actions) ELSE stepped[n - 1], 1)
  IN  stepped[due]

Advance(dt) ==
  LET due == Smaller(accumulator + dt, MaxSteps) IN
  /\ driver = "loop" /\ Room(due)
  /\ engine' = Stepped(engine, queue, due)
  /\ queue' = IF due > 0 THEN <<>> ELSE queue
  /\ accumulator' = accumulator + dt - due
  /\ UNCHANGED <<driver, animated>> /\ Buffer

\* runScenario: a step is preceded by one step over the time since the last one.
After(gap) == IF gap > 0 THEN Step(engine, gap) ELSE engine

ScenarioStep(gap, dt) ==
  /\ driver = "scenario" /\ Room(gap + dt)
  /\ engine' = Step(After(gap), dt)
  /\ UNCHANGED <<driver, queue, accumulator, animated>> /\ Buffer

ScenarioCommand(gap, a) ==
  /\ driver = "scenario" /\ Room(gap)
  /\ engine' = Command(After(gap), a)
  /\ UNCHANGED <<driver, queue, accumulator, animated>> /\ Buffer

\* A scenario may emit anything; here it emits teleports, which have no time of their own.  (One
\* that emits the start of a dash by hand has the log say what does not hold.)
ScenarioEmit(gap, type, trigger, succeeds) ==
  /\ driver = "scenario" /\ Room(gap)
  /\ LET e == After(gap) IN
     /\ engine' = Emit(e, type, trigger, succeeds)
     /\ animated' = [animated EXCEPT ![trigger] =
          [times |-> @.times + (IF Animates(e, type, trigger, succeeds) THEN 1 ELSE 0),
           succeeded |-> @.succeeded \/ succeeds]]
  /\ UNCHANGED <<driver, queue, accumulator>> /\ Buffer

\* GameDriver.step: the actions go to the game alone; the engine steps a player of its own, and
\* mapState then gives it the game's time and what the game has of a player, and counts a tick
\* more.
PageStep(time, seen) ==
  /\ driver = "page" /\ Room(1)
  /\ LET e == Step(engine, 1) IN
     engine' = [e EXCEPT !.time = time, !.tick = @ + 1,
                         !.player.x = seen.x, !.player.y = seen.y,
                         !.player.vx = seen.vx, !.player.vy = seen.vy]
  /\ UNCHANGED <<driver, queue, accumulator, animated>> /\ Buffer

\* Where the game's player may be, on and beyond the sides of the engine's world, and its speed.
GamePlayers ==
  [x : {0, World.width + 1}, y : {-1, World.height}, vx : {-1, 1}, vy : {-1, 1}]

-----------------------------------------------------------------------------
(* The buffer of remote snapshots. *)

Before(a, b) == a.time < b.time

AddLast(buffer, entry) ==  \* mutant: the order of arrival
  Newest(Append(buffer, entry), Capacity)

\* add: pushed, sorted by time (the sort is stable), and the oldest dropped.
Add(buffer, entry) ==
  LET later == {i \in DOMAIN buffer : Before(entry, buffer[i])}
      at == IF later = {} THEN Len(buffer) + 1 ELSE CHOOSE i \in later : \A j \in later : i <= j IN
  Newest(InsertAt(buffer, at, entry), Capacity)

\* sample without an interpolation.
Sample(buffer, time) ==
  LET last == buffer[Len(buffer)]
      notBefore == {i \in DOMAIN buffer : buffer[i].time >= time}
      i == CHOOSE i \in notBefore : \A j \in notBefore : i <= j IN
  IF time <= buffer[1].time THEN buffer[1]
  ELSE IF time >= last.time THEN last
  ELSE IF buffer[i].time = time THEN buffer[i] ELSE buffer[i - 1]

Arrive(time) ==
  LET entry == [time |-> time, snapshot |-> Len(arrived) + 1] IN
  /\ Len(arrived) < Arrivals
  /\ entries' = Add(entries, entry)
  /\ arrived' = Append(arrived, entry)
  /\ UNCHANGED <<driver, engine, queue, accumulator, animated>>

Clear ==
  /\ entries # <<>> /\ entries' = <<>>
  /\ arrived' = <<>>
  /\ UNCHANGED <<driver, engine, queue, accumulator, animated>>

-----------------------------------------------------------------------------
EngineInit ==
  /\ driver \in {"loop", "scenario", "page", "remote"}
  /\ engine = NewEngine /\ queue = <<>> /\ accumulator = 0
  /\ animated = [t \in Triggers |-> [times |-> 0, succeeded |-> FALSE]]
  /\ entries = <<>> /\ arrived = <<>>

EngineNext ==
  \/ \E a \in Actions : Enqueue(a)
  \/ \E dt \in 0..MaxSteps + 1 : Advance(dt)
  \/ \E gap \in 0..1, dt \in 1..2 : ScenarioStep(gap, dt)
  \/ \E gap \in 0..2, a \in Actions : ScenarioCommand(gap, a)
  \/ \E gap \in 0..1, t \in Triggers, ok \in BOOLEAN : ScenarioEmit(gap, "teleport", t, ok)
  \/ \E time \in {0, 1, engine.time + 1}, seen \in GamePlayers : PageStep(time, seen)
  \/ driver = "remote" /\ \E time \in Times : Arrive(time)
  \/ driver = "remote" /\ Clear

EngineSpec == EngineInit /\ [][EngineNext]_engineVars

-----------------------------------------------------------------------------
EngineTypeOK ==
  /\ driver \in {"loop", "scenario", "page", "remote"}
  /\ engine.tick \in Nat /\ engine.now \in 0..LastTick /\ accumulator \in Nat
  /\ Len(engine.events) <= World.eventBufferSize /\ Len(entries) <= Capacity

\* What the log says last of a skill is whether time is left of it.
LastSays(log, start, end, left) ==
  \A i \in DOMAIN log :
    /\ log[i].type \in {start, end}
    /\ \A j \in DOMAIN log : j > i => log[j].type \notin {start, end}
    => (log[i].type = start <=> left > 0)

\* The log can be replayed: whatever it has dropped, it is in the order of its times, and what
\* it last says of dash and phase is what holds.
LogTellsWhatHolds ==
  LET log == engine.events IN
  /\ \A i, j \in DOMAIN log : i < j => log[i].at <= log[j].at
  /\ LastSays(log, "dashStart", "dashEnd", engine.player.dash)
  /\ LastSays(log, "phaseStart", "phaseEnd", engine.player.invuln)

\* A skill that is used once is animated once, however often it is reported, and also if it was
\* first reported as failed or on cooldown.
AnimatedOnce ==
  \A k \in DOMAIN animated : animated[k].times = IF animated[k].succeeded THEN 1 ELSE 0

\* The buffer answers with the snapshot that was in force at a time, as far as it remembers,
\* in whatever order the snapshots arrived: none of those it still holds lies between.
SampleIsInForce ==
  entries # <<>> =>
    \A time \in Times :
      LET s == Sample(entries, time) IN
      \A i \in DOMAIN arrived :
        LET a == arrived[i] IN
        /\ s.time <= time => ~(s.time < a.time /\ a.time <= time)
        /\ s.time > time => \A j \in DOMAIN entries : entries[j].time > time

\* What the engine reports is what happened, to the log, to the animations and to whoever
\* samples a remote state.
ReportsAreTrue == LogTellsWhatHolds /\ AnimatedOnce /\ SampleIsInForce
=============================================================================
