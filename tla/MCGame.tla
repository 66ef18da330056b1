------------------------------- MODULE MCGame -------------------------------
(***************************************************************************)
(* A small instance of Game: a few frames, two walls, short timers.        *)
(***************************************************************************)
EXTENDS Game

MCCooldown ==
  [dash |-> 2, dashDestroy |-> 3, phase |-> 2, teleport |-> 1, slowField |-> 2,
   slowExplosion |-> 4]
MCDuration == [c \in Config |-> IF c = "phase" THEN 1 ELSE 2]
MCMaxBounces == [c \in Config |-> IF c = "dash" THEN 1 ELSE 0]
MCLoose ==
  [wall |-> 0, single |-> 1, volley |-> 2, specialWall |-> 1]

Usual ==
  [dashBehavior |-> "ricochet", slowFieldBehavior |-> "slow",
   teleportBehavior |-> "normal", invulnBehavior |-> "short"]
Other ==
  [dashBehavior |-> "destroy", slowFieldBehavior |-> "explosion",
   teleportBehavior |-> "explode", invulnBehavior |-> "long"]
Cfg(skills, orbsOn, perfectOn) ==
  [skills |-> skills, orbs |-> orbsOn, perfect |-> perfectOn]
MCConfigs ==
  {Cfg({"dash", "phase"}, FALSE, FALSE), Cfg({"dash"}, FALSE, TRUE), Cfg({"teleport"}, FALSE, TRUE),
   Cfg({"slowField"}, FALSE, TRUE), Cfg({}, TRUE, FALSE)}

MCSettings == {Usual, Other}
=============================================================================
