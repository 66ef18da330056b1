----------------------------- MODULE MCServices -----------------------------
(***************************************************************************)
(* Small instances of what the server does around the accounts (uploads of *)
(* best runs, the rate limiter, the database connection, the icon registry,*)
(* sessions), of the operator's pages (forms, the card of an icon, the     *)
(* database and JSON editors) and of the replay browser.  They share no    *)
(* state here, so that interleaving their steps would add nothing: a       *)
(* behaviour runs one of them.                                             *)
(***************************************************************************)
EXTENDS BestRuns, RateLimiter, MongoConnection, IconRegistry, Sessions, Forms,
        IconCard, Desk, JsonEditor, ReplayBrowser

CONSTANTS alice, r1, r2, r3

VARIABLE part

\* Uploads: four runs, one of them of score zero and two that tie.
MCScore == [replay \in Replays |->
  CASE replay = "crashed" -> 0 [] replay = "low" -> 1 [] OTHER -> 2]

MCConfigs == {[limit |-> 1, windowMs |-> 3], [limit |-> 2, windowMs |-> 4]}

\* One icon is built in, the other one is found in an old game configuration.
MCBuiltin == [i \in Icons |-> IF i = "b" THEN 2 ELSE Absent]
MCLegacy == [i \in Icons |-> IF i = "a" THEN 1 ELSE Absent]

\* Forms: of each document something may be stored that another operator has
\* changed, or nothing.  The built-in trail comes with an achievement, the icon
\* has more to it than its form.
MCEntry(style, extra, unlock) == [style |-> style, extra |-> extra, unlock |-> unlock]
MCFeat == [type |-> "achievement", id |-> "feat", min |-> Null]
MCRecord == [type |-> "record", id |-> NoId, min |-> 1]
MCAlone(e) == [i \in EntryIds |-> IF i = "b" THEN e ELSE Nothing]

MCBuiltIns == [d \in Docs |->
  CASE d = "trails" -> MCAlone(MCEntry(0, 0, MCFeat))
    [] d = "icons" -> MCAlone(MCEntry(0, 1, [type |-> "score", id |-> NoId, min |-> 1]))
    [] d = "achievements" -> MCAlone(MCEntry(0, 0, Nothing))
    [] OTHER -> [i \in EntryIds |-> MCEntry(0, 0, Nothing)]]

MCOpening == [d \in Docs |->
  CASE d = "trails" ->
         {Nothing, [b |-> MCEntry(1, 0, Free), c |-> Nothing],
          [b |-> MCEntry(1, 1, Nothing), c |-> MCEntry(1, 0, MCRecord)]}
    [] d = "icons" -> {Nothing, [b |-> Nothing, c |-> MCEntry(1, 1, Free)]}
    [] d = "achievements" -> {Nothing, [i \in EntryIds |-> MCEntry(1, 0, Nothing)]}
    [] OTHER -> {MCBuiltIns["config"]}]

MCTyped ==
  {[id |-> "b", style |-> 1, unlock |-> Free], [id |-> "c", style |-> 1, unlock |-> Free],
   [id |-> "c", style |-> 1, unlock |-> [MCFeat EXCEPT !.min = 1]],
   [id |-> "b", style |-> Bad, unlock |-> [MCFeat EXCEPT !.min = Undefined]],
   [id |-> NoId, style |-> 1, unlock |-> Free]}

\* Pages of different documents do not meet, and what is stored of the others
\* does not matter.
FormsMeet ==
  /\ \A p, q \in Pages : DocumentOf(tool[p]) = DocumentOf(tool[q])
  /\ \A d \in Docs : (\A p \in Pages : DocumentOf(tool[p]) # d)
                       => held[d] = CHOOSE list \in Opening[d] : TRUE

\* Sessions: flows one at a time while time passes, accounts go and the server
\* restarts, and two at a time while they do not.
OneFlow == \A p \in Slots \ {"p"} : UNCHANGED flow[p]
StandsStill == UNCHANGED <<now, secret, registered>>

\* Cards: of a style of each version, and of a new icon.
MCRow(type, target, params) == [type |-> type, target |-> target, params |-> params]
MCStyle == [v2 |-> "yes", look |-> 1, texture |-> 1, effects |-> <<MCRow("vignette", "", 1)>>,
            animations |-> <<MCRow("slowSpin", "pattern.rotationDeg", 0),
                             MCRow("slowSpin", "palette.fill", 1)>>]
MCOldStyle == [MCStyle EXCEPT !.v2 = "no", !.effects = <<>>, !.animations = <<>>]

MCCardIcons ==
  {[id |-> "given", style |-> MCStyle], [id |-> "given", style |-> MCOldStyle],
   [id |-> "missing", style |-> [MCOldStyle EXCEPT !.look = 0, !.texture = 0]]}
MCTexts ==
  {NotJSON, [id |-> "given", style |-> MCStyle],
   [id |-> "missing", style |-> [MCStyle EXCEPT !.v2 = "no"]],
   [id |-> "given", style |-> [MCStyle EXCEPT !.look = Wrong]]}
MCPresets ==
  {[look |-> 0, texture |-> 1, effects |-> Unsaid, animations |-> Unsaid],
   [look |-> 1, texture |-> Unsaid, effects |-> <<MCRow("outline", "", 1)>>, animations |-> <<>>]}
MCMaxRows == [list \in RowLists |-> 2]

\* The database: a collection with documents and an empty one.
MCFirstDocs == [c \in Collections |-> IF c = 1 THEN DocIds ELSE {}]

\* JSON: two objects and a list.
MCValue(type) == [type |-> type, raw |-> IF type = "null" THEN 0 ELSE 1]
MCLoaded == {[k \in {"x", "y"} |-> MCValue(IF k = "x" THEN "number" ELSE "null")],
             [k \in {"x"} |-> MCValue("string")]}
MCLoadedList == <<MCValue("boolean")>>

\* The replay browser: a run with a tape and a shorter one with a seed.
MCLastVersion == [u \in Recorded |-> IF u \in Taped THEN 2 ELSE 1]
MCTotalTicks == [u \in Recorded |-> IF u \in Taped THEN 2 ELSE 1]
-----------------------------------------------------------------------------
serverVars == <<vars, limiterVars, connectionVars, registryVars, sessionVars>>
operatorVars == <<formVars, cardVars, deskVars, jsonVars>>

\* Each part starts in one state while another one runs.
ServicesInit ==
  /\ part \in {"uploads", "limiter", "connection", "registry", "sessions", "overlaps",
               "forms", "card", "desk", "json", "browser"}
  /\ Init /\ LimiterInit /\ ConnectionInit /\ RegistryInit /\ SessionsInit
  /\ FormsInit /\ CardInit /\ DeskInit /\ JsonInit /\ BrowserInit
  /\ part # "limiter" => cfg = CHOOSE c \in Configs : TRUE
  /\ legacy # NoName => part = "sessions" /\ legacy = "u"   \* the names are alike
  /\ IF part = "forms" THEN FormsMeet
     ELSE /\ tool = [p \in Pages |-> "whole"]
          /\ held = [d \in Docs |-> CHOOSE list \in Opening[d] : TRUE]
  /\ part # "card" => look = 0
  /\ part # "json" => DOMAIN loadedOnce = {"x"}

ServicesNext ==
  \/ /\ part = "uploads" /\ Next
     /\ UNCHANGED <<part, operatorVars, replayVars, limiterVars, connectionVars, registryVars, sessionVars>>
  \/ /\ part = "limiter" /\ LimiterNext
     /\ UNCHANGED <<part, operatorVars, replayVars, vars, connectionVars, registryVars, sessionVars>>
  \/ /\ part = "connection" /\ ConnectionNext
     /\ UNCHANGED <<part, operatorVars, replayVars, vars, limiterVars, registryVars, sessionVars>>
  \/ /\ part = "registry" /\ RegistryNext
     /\ UNCHANGED <<part, operatorVars, replayVars, vars, limiterVars, connectionVars, sessionVars>>
  \/ /\ part \in {"sessions", "overlaps"} /\ SessionsNext
     /\ IF part = "sessions" THEN OneFlow ELSE StandsStill
     /\ UNCHANGED <<part, operatorVars, replayVars, vars, limiterVars, connectionVars, registryVars>>
  \/ /\ part = "forms" /\ FormsNext
     /\ UNCHANGED <<part, serverVars, cardVars, deskVars, jsonVars, replayVars>>
  \/ /\ part = "card" /\ CardNext
     /\ UNCHANGED <<part, serverVars, formVars, deskVars, jsonVars, replayVars>>
  \/ /\ part = "desk" /\ DeskNext
     /\ UNCHANGED <<part, serverVars, formVars, cardVars, jsonVars, replayVars>>
  \/ /\ part = "json" /\ JsonNext
     /\ UNCHANGED <<part, serverVars, formVars, cardVars, deskVars, replayVars>>
  \/ /\ part = "browser" /\ BrowserNext
     /\ UNCHANGED <<part, serverVars, operatorVars>>

ServicesSpec == ServicesInit /\ [][ServicesNext]_<<part, serverVars, operatorVars, replayVars>>
=============================================================================
