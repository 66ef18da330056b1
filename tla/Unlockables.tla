----------------------------- MODULE Unlockables -----------------------------
(***************************************************************************)
(* The catalog of cosmetics and the rules that unlock them                 *)
(* (services/unlockables.cjs, the trail definitions of server.cjs).        *)
(***************************************************************************)
EXTENDS Wallet, FiniteSets

CONSTANTS
  Items,      \* ids of the cosmetics in the catalog
  Catalog,    \* the definition of each
  Feats,      \* achievement ids
  NoFeat,     \* "this cosmetic names no achievement"
  Fallback    \* per type, the cosmetic of a new user, which is free

Trail == "trail"
Types == {Trail, "player_texture", "pipe_texture"}

(***************************************************************************)
(* A definition.  minScore is Absent when the catalog gives none; cost and *)
(* currency matter to purchases only, feat to achievements, and to the     *)
(* trails whose achievement is granted with the score.                     *)
(***************************************************************************)
Definitions ==
  [type : Types,
   unlock : {"free", "score", "achievement", "purchase", "record"},
   minScore : Nat \cup {Absent},
   feat : Feats \cup {NoFeat},
   cost : Nat,
   currency : Currencies]

ASSUME CatalogAssumption ==
  /\ NoFeat \notin Feats
  /\ Catalog \in [Items -> Definitions]
  /\ Fallback \in [Types -> Items]
  /\ \A t \in Types : /\ Catalog[Fallback[t]].type = t
                      /\ Catalog[Fallback[t]].unlock = "free"

Purchasable == {i \in Items : Catalog[i].unlock = "purchase"}

(***************************************************************************)
(* user is any record with bestScore, achievements and ownedUnlockables.   *)
(***************************************************************************)
ReachesScore(i, user) ==
  Catalog[i].minScore # Absent /\ user.bestScore >= Catalog[i].minScore

IsUnlockSatisfied(i, user, recordHolder) ==
  LET def == Catalog[i]
  IN  \/ def.unlock = "free"
      \/ def.unlock = "score" /\ user.bestScore >= OrElse(def.minScore, 0)
      \/ def.unlock = "achievement" /\ (def.feat \in user.achievements \/ ReachesScore(i, user))
      \/ def.unlock = "purchase" /\ i \in user.ownedUnlockables
      \/ /\ def.unlock = "record"
         /\ recordHolder
         /\ def.minScore # Absent => ReachesScore(i, user)

(***************************************************************************)
(* The achievements a best score brings along with its trails.             *)
(***************************************************************************)
SyncTrailAchievements(user, recordHolder) ==
  user.achievements \cup
    {f \in Feats : \E i \in Items : /\ Catalog[i].type = Trail
                                    /\ Catalog[i].feat = f
                                    /\ ReachesScore(i, user)
                                    /\ Catalog[i].unlock = "record" => recordHolder}
=============================================================================
