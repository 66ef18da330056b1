------------------------------- MODULE Menus -------------------------------
(***************************************************************************)
(* What a player chooses in the menus and how it is saved: the trail, icon *)
(* and pipe texture menus (trailMenuHandlers.js, iconMenuHandlers.js,      *)
(* pipeTextureMenuHandlers.js and their controllers), the options and key  *)
(* bindings (main.js, rebindControls.js), the shop's purchase dialog, and  *)
(* the refresh of the profile (sessionFlows.js) that puts back what the    *)
(* server has.                                                             *)
(*                                                                         *)
(* A choice is shown at once and then sent; each kind of choice has its    *)
(* own way of dealing with a failure, and most answers carry the whole     *)
(* account, as it was when the request was served.  Requests overlap, and  *)
(* their answers are lost and overtake each other.                         *)
(***************************************************************************)
EXTENDS Naturals, FiniteSets

CONSTANTS
  Selectable, \* what there is to choose from, for each kind
  Default,   \* the first of them
  Paid,      \* those that have to be bought, all of them icons
  Flows,     \* handlers that may be waiting for the server at the same time
  MaxKinds,  \* bound: the kinds of choices that one behaviour makes
  Handlers,  \* bound: the handlers that begin
  NoAccount, Nothing

Kinds == {"trail", "icon", "texture", "mode", "settings", "binds"}
Ids == UNION {Selectable[k] : k \in Kinds}
PlayerAccounts == [pick : [Kinds -> Ids], owned : SUBSET Paid]
IsPick(f) == f \in [Kinds -> Ids] /\ \A k \in Kinds : f[k] \in Selectable[k]
IsAccount(a) == a \in PlayerAccounts /\ IsPick(a.pick)

\* What has to be bought are icons, and no other kind of choice has an id of theirs.
ASSUME MenusAssumption ==
  /\ IsPick(Default) /\ Paid \subseteq Selectable["icon"] \ {Default["icon"]}
  /\ \A k \in Kinds \ {"icon"} : Paid \cap Selectable[k] = {}
  /\ NoAccount \notin PlayerAccounts
  /\ Nothing \notin Ids /\ MaxKinds \in Nat /\ Handlers \in Nat

VARIABLES
  account,   \* the player's account, at the server
  player,    \* net.user
  trails,    \* does the page have the trails (net.trails)
  shown,     \* currentTrailId, currentIconId, ..., skillSettings, binds
  saving,    \* trailSaveInFlight, iconSaveInFlight, pipeTextureSaveKey
  dialog,    \* pendingPurchase, and whether its button is disabled
  flow,      \* the handlers that wait
  kinds,     \* the kinds of choices made
  left,      \* how many handlers may begin
  watched,   \* history: one of the things that are saved, and whether its last save or
  agreed     \* refresh went through, nothing having gone wrong since

bounds == <<kinds, watched>>
menuVars == <<account, player, trails, shown, saving, dialog, flow, bounds, left, agreed>>

Aspects == Kinds \cup {"owned"}
Whats == Kinds \cup {"none", "refresh", "reauth", "purchase"}
\* An answer is unauthorized, refused (not unlocked, or too many requests), or fails in
\* another way: it may have been lost after the server had done what it was asked to.
Failures == {"unauthorized", "refused", "failed"}
Statuses == {"none", "ok", "stranger"} \cup Failures

\* stage: is it signing in, saving, or recovering after a refusal; body: what it sends;
\* before: what was shown; behind: the answers that were served earlier and are still on
\* their way; met: has another handler been waiting at the same time.
Quiet == [at |-> "idle", what |-> "none", stage |-> "save", id |-> Nothing, body |-> <<>>,
          key |-> Nothing, before |-> Nothing, status |-> "none", user |-> NoAccount, behind |-> {}, met |-> "no"]

Keys == Ids \cup {Nothing} \cup (Selectable["texture"] \X Selectable["mode"])

MenusTypeOK ==
  /\ IsAccount(account) /\ (player = NoAccount \/ IsAccount(player)) /\ trails \in {"no", "yes"}
  /\ IsPick(shown)
  /\ DOMAIN saving = {"trail", "icon", "texture"}
  /\ \A k \in DOMAIN saving : saving[k] \in Keys
  /\ dialog \in [item : Paid \cup {Nothing}, disabled : {"no", "yes"}]
  /\ kinds \subseteq Kinds /\ left \in 0..Handlers /\ watched \in Aspects /\ agreed \in {"no", "yes"}
  /\ \A p \in Flows :
       /\ flow[p].at \in {"idle", "sent", "served"} /\ flow[p].what \in Whats
       /\ flow[p].stage \in {"login", "save", "recover"}
       /\ {flow[p].id, flow[p].before} \subseteq Ids \cup {Nothing}
       /\ flow[p].key \in Keys /\ flow[p].status \in Statuses
       /\ \A k \in DOMAIN flow[p].body : k \in Kinds /\ flow[p].body[k] \in Selectable[k]
       /\ flow[p].user = NoAccount \/ IsAccount(flow[p].user)
       /\ flow[p].behind \subseteq Flows /\ flow[p].met \in {"no", "yes"}

NoSaves == [k \in {"trail", "icon", "texture"} |-> Nothing]

\* The page has shown what its cookies held and asks for the profile next.
MenusInit ==
  /\ account = [pick |-> Default, owned |-> {}]
  /\ player = NoAccount /\ trails = "no"
  /\ kinds \in {K \in SUBSET Kinds : Cardinality(K) <= MaxKinds}
  /\ \E f \in [kinds -> Ids \ Paid] :
       /\ \A k \in kinds : f[k] \in Selectable[k]
       /\ shown = [k \in Kinds |-> IF k \in kinds THEN f[k] ELSE Default[k]]
  /\ saving = NoSaves /\ dialog = [item |-> Nothing, disabled |-> "no"]
  /\ flow = [p \in Flows |-> Quiet] /\ left = Handlers
  /\ watched \in kinds \cup {"owned"} /\ agreed = "no"
-----------------------------------------------------------------------------
(* What is unlocked, and what is shown for it. *)

Unlocked(k, user, known) ==
  IF k = "trail" /\ known = "no" THEN {}
  ELSE (Selectable[k] \ Paid) \cup (IF user = NoAccount THEN {} ELSE Selectable[k] \cap user.owned)

\* normalizeTrailSelection: a choice that is not the first one stays, the account's comes next.
TrailFor(id, user, known) ==
  LET open == Unlocked("trail", user, known)
  IN  IF id \in open /\ id # Default["trail"] THEN id
      ELSE IF user # NoAccount /\ (user # NoAccount => user.pick["trail"] \in open)
      THEN user.pick["trail"] ELSE Default["trail"]

\* normalizeIconSelection
IconFor(id, user) ==
  LET open == Unlocked("icon", user, "yes")
  IN  IF id \in open THEN id
      ELSE IF user # NoAccount /\ (user # NoAccount => user.pick["icon"] \in open)
      THEN user.pick["icon"] ELSE Default["icon"]

\* applyPipeTextureSelection
TextureFor(id, user) == IF id \in Unlocked("texture", user, "yes") THEN id ELSE Default["texture"]

\* refreshTrailMenu, applyIconSelection (which refreshes the trail menu) and
\* refreshPipeTextureMenu.
WithTrail(s, id, user, known) == [s EXCEPT !["trail"] = TrailFor(id, user, known)]
WithIcon(s, id, user, known) ==
  WithTrail([s EXCEPT !["icon"] = IconFor(id, user)], s["trail"], user, known)
WithTexture(s, id, user) == [s EXCEPT !["texture"] = TextureFor(id, user)]

\* syncIconCatalog of an answer that brings the icons.
Synced(s, user, known) == WithIcon(s, s["icon"], user, known)
-----------------------------------------------------------------------------
(* Handlers that begin. *)

Busy == {p \in Flows : flow[p].at # "idle"}

Begin(p, f) ==
  /\ left > 0 /\ left' = left - 1
  /\ flow' = [q \in Flows |->
    IF q = p THEN [f EXCEPT !.met = IF Busy = {} THEN "no" ELSE "yes"]
    ELSE IF q \in Busy THEN [flow[q] EXCEPT !.met = "yes"] ELSE flow[q]]

Body(k, id, s) ==
  IF k \in {"texture", "mode"} THEN [j \in {"texture", "mode"} |-> IF j = "texture" /\ k = "texture"
                                                                   THEN id ELSE s[j]]
  ELSE [j \in {k} |-> id]

Request(k, id, key, before, s, stage) ==
  [Quiet EXCEPT !.at = "sent", !.what = k, !.stage = stage, !.id = id, !.key = key,
                !.before = before, !.body = IF stage = "login" THEN <<>> ELSE Body(k, id, s)]

\* The save that a repeated click is compared with.
Menu(k) == IF k = "mode" THEN "texture" ELSE k
Key(k, id) ==
  CASE k = "texture" -> <<id, shown["mode"]>> [] k = "mode" -> <<shown["texture"], id>> [] OTHER -> id

Saving(q) == IF q.stage = "save" THEN [saving EXCEPT ![Menu(q.what)] = q.key] ELSE saving

\* handleOptionsClick of the trail and icon menus: the choice is shown and, for a player
\* who is signed in, part of net.user at once.
ClickTrailOrIcon(p, k, id) ==
  /\ flow[p].at = "idle" /\ k \in {"trail", "icon"} /\ saving[k] # id
  /\ id \in Unlocked(k, player, trails)
  /\ LET user == IF player = NoAccount THEN NoAccount ELSE [player EXCEPT !.pick[k] = id]
         s == IF k = "trail" THEN WithTrail([shown EXCEPT !["trail"] = id], id, user, trails)
              ELSE WithIcon(shown, id, user, trails)
         stage == IF player = NoAccount THEN "login" ELSE "save"
         q == Request(k, id, id, shown[k], s, stage)
     IN  /\ player' = user /\ shown' = s
         /\ Begin(p, q) /\ saving' = Saving(q)
  /\ UNCHANGED <<bounds, account, trails, dialog, agreed>>

\* The texture menu: a click on what is shown already saves nothing.
ClickTexture(p, k, id) ==
  /\ flow[p].at = "idle" /\ k \in {"texture", "mode"} /\ id \in Unlocked(k, player, trails)
  /\ id # shown[k] /\ saving["texture"] # Key(k, id)
  /\ shown' = [shown EXCEPT ![k] = id]
  /\ LET stage == IF player = NoAccount THEN "login" ELSE "save"
         q == Request(k, id, Key(k, id), shown[k], shown', stage)
     IN  Begin(p, q) /\ saving' = Saving(q)
  /\ UNCHANGED <<bounds, account, player, trails, dialog, agreed>>

\* updateSkillSettings and finish of the rebind controller: a guest's stay in a cookie.
Adjust(p, k, value) ==
  /\ flow[p].at = "idle" /\ k \in {"settings", "binds"} /\ value \in Selectable[k]
  /\ k = "settings" => value # shown[k]
  /\ shown' = [shown EXCEPT ![k] = value]
  /\ IF player = NoAccount
     THEN UNCHANGED <<flow, left>> /\ agreed' = IF watched = k THEN "no" ELSE agreed
     ELSE Begin(p, Request(k, value, value, shown[k], shown', "save")) /\ UNCHANGED agreed
  /\ UNCHANGED <<bounds, account, player, trails, saving, dialog>>

\* refreshProfileAndHighscores, and the sign-in that setUserHint starts by itself.
Refresh(p) ==
  /\ flow[p].at = "idle"
  /\ Begin(p, [Quiet EXCEPT !.at = "sent", !.what = "refresh", !.stage = "recover"])
  /\ UNCHANGED <<bounds, account, player, trails, shown, saving, dialog, agreed>>

Reauthenticate(p) ==
  /\ flow[p].at = "idle" /\ player = NoAccount
  /\ \A q \in Flows : flow[q].what # "reauth"
  /\ Begin(p, [Quiet EXCEPT !.at = "sent", !.what = "reauth", !.stage = "login"])
  /\ UNCHANGED <<bounds, account, player, trails, shown, saving, dialog, agreed>>

\* openPurchaseModal, for what is not unlocked; closePurchaseModal.
OpenPurchaseModal(item) ==
  /\ dialog.item = Nothing /\ item \in Paid \ Unlocked("icon", player, trails)
  /\ dialog' = [item |-> item, disabled |-> IF player = NoAccount THEN "yes" ELSE "no"]
  /\ UNCHANGED <<bounds, account, player, trails, shown, saving, flow, left, agreed>>

ClosePurchaseModal ==
  /\ dialog.item # Nothing
  /\ dialog' = [dialog EXCEPT !.item = Nothing]
  /\ UNCHANGED <<bounds, account, player, trails, shown, saving, flow, left, agreed>>

ConfirmPendingPurchase(p) ==
  /\ flow[p].at = "idle" /\ dialog.item # Nothing /\ dialog.disabled = "no" /\ player # NoAccount
  /\ dialog' = [dialog EXCEPT !.disabled = "yes"]
  /\ Begin(p, [Quiet EXCEPT !.at = "sent", !.what = "purchase", !.id = dialog.item])
  /\ UNCHANGED <<bounds, account, player, trails, shown, saving, agreed>>
-----------------------------------------------------------------------------
(* The server, as the page sees it. *)

Locked(q) ==
  /\ q.stage = "save"
  /\ IF q.what = "purchase" THEN q.id \in account.owned
     ELSE \E k \in DOMAIN q.body : q.body[k] \in Paid \ account.owned

Serve(p, status, stores) ==
  LET q == flow[p]
      after == IF q.what = "purchase" THEN [account EXCEPT !.owned = @ \cup {q.id}]
               ELSE [account EXCEPT !.pick = [k \in Kinds |-> IF k \in DOMAIN q.body THEN q.body[k]
                                                              ELSE @[k]]]
  IN  /\ q.at = "sent"
      /\ status = "stranger" => q.stage = "recover"
      /\ stores = "yes" => status \in {"ok", "failed"} /\ q.stage = "save" /\ ~Locked(q)
      /\ status = "ok" /\ q.stage = "save" => stores = "yes"
      /\ account' = IF stores = "yes" THEN after ELSE account
      /\ flow' = [flow EXCEPT ![p] = [q EXCEPT
           !.at = "served", !.status = status, !.user = IF status = "ok" THEN account' ELSE NoAccount,
           !.behind = {r \in Flows : flow[r].at = "served"}]]
      /\ UNCHANGED <<bounds, left, player, trails, shown, saving, dialog, agreed>>
-----------------------------------------------------------------------------
(* Answers. *)

\* p's handler goes on or is done.  The others no longer have its answer before theirs;
\* those it has overtaken are behind themselves from now on.
Goes(p, f) ==
  /\ left' = left
  /\ flow' = [q \in Flows |->
    IF q = p THEN f
    ELSE [flow[q] EXCEPT !.behind = (@ \ {p}) \cup ({q} \cap flow[p].behind)]]

\* The finally of the menus.
Done(q) ==
  IF Menu(q.what) \in DOMAIN saving /\ q.stage # "login"
  THEN [saving EXCEPT ![Menu(q.what)] = IF @ = q.key THEN Nothing ELSE @] ELSE saving

\* Do the page and the server agree after an answer that leaves these in agreement and
\* those in doubt?  Answers out of turn leave everything in doubt.
AgreedAfter(q, these, those) ==
  IF q.behind # {} \/ watched \in those THEN "no" ELSE IF watched \in these THEN "yes" ELSE agreed
Doubted(q, those) == AgreedAfter(q, {}, those)

\* The player of the answer, and what is shown for it.
Saved(q) ==
  LET u == q.user
  IN  CASE q.what = "trail" ->
             WithIcon(WithTrail(Synced(shown, u, "yes"), u.pick["trail"], u, "yes"),
                      u.pick["icon"], u, "yes")
        [] q.what = "icon" -> WithIcon(Synced(shown, u, "yes"), u.pick["icon"], u, "yes")
        [] q.what = "texture" ->
             WithTexture([shown EXCEPT !["mode"] = u.pick["mode"]], u.pick["texture"], u)
        [] q.what = "mode" -> [shown EXCEPT !["mode"] = u.pick["mode"]]
        [] q.what = "purchase" ->
             WithTexture(Synced(shown, u, "yes"), shown["texture"], u)
        [] OTHER -> shown

\* handleTrailSaveResponse and its like, when the save is answered with the account.
SaveAnswered(p) ==
  LET q == flow[p]
  IN  /\ q.at = "served" /\ q.stage = "save" /\ q.status = "ok"
      /\ player' = q.user
      /\ trails' = IF q.what \in {"trail", "icon", "purchase"} THEN "yes" ELSE trails
      /\ shown' = Saved(q)
      /\ saving' = Done(q)
      /\ dialog' = IF q.what = "purchase" THEN [dialog EXCEPT !.item = Nothing] ELSE dialog
      /\ agreed' = AgreedAfter(q,
           CASE q.what = "trail" -> {"owned", "trail", "icon"}
             [] q.what = "texture" -> {"owned", "texture", "mode"}
             [] q.what = "purchase" -> {"owned"}
             [] OTHER -> {"owned", q.what},
           \* The answer to a save that met another one may be the earlier of the two.
           IF q.met = "no" THEN {}
           ELSE IF q.what = "mode" THEN {"texture"} ELSE {q.what} \cap {"settings", "binds"})
      /\ Goes(p, Quiet)
      /\ UNCHANGED <<bounds, account>>

\* Which failures put back what was shown before.
Reverts(q) ==
  \/ q.what \in {"texture", "mode", "binds"}
  \/ q.what = "icon" /\ q.status \in {"unauthorized", "refused"}

\* Mutant: a texture that could not be saved stays.
PutBackHalf(q, s, u) ==
  CASE ~Reverts(q) \/ q.what = "texture" -> s
    [] Reverts(q) /\ q.what = "icon" -> WithIcon(s, q.before, u, trails')
    [] OTHER -> [s EXCEPT ![q.what] = q.before]

\* s is what is shown, u the player, when a handler deals with a failure.
PutBack(q, s, u) ==
  CASE ~Reverts(q) -> s
    [] Reverts(q) /\ q.what = "icon" -> WithIcon(s, q.before, u, trails')
    [] Reverts(q) /\ q.what = "texture" -> [s EXCEPT !["texture"] = q.before]
    [] OTHER -> [s EXCEPT ![q.what] = q.before]

\* A failure is taken back alone and completely, or the menu may differ from the server.
Doubts(q) ==
  IF q.what = "purchase" THEN {"owned"}
  ELSE IF q.met = "yes" \/ ~Reverts(q) \/ q.status = "failed" THEN {q.what} \cup (DOMAIN q.body)
  ELSE {}

SaveFailed(p) ==
  LET q == flow[p]
  IN  /\ q.at = "served" /\ q.stage = "save" /\ q.status # "ok"
      /\ ~(q.status = "unauthorized" /\ q.what \in {"trail", "icon", "texture", "mode"})
      /\ UNCHANGED <<bounds, account, player, trails>>
      /\ shown' = PutBack(q, shown, player)
      /\ saving' = Done(q)
      /\ dialog' = IF q.what = "purchase" THEN [dialog EXCEPT !.disabled = "no"] ELSE dialog
      /\ agreed' = Doubted(q, Doubts(q))
      /\ Goes(p, Quiet)

\* recoverSession, when a save of the three menus is refused.
RecoverSession(p) ==
  LET q == flow[p]
  IN  /\ q.at = "served" /\ q.stage = "save" /\ q.status = "unauthorized"
      /\ q.what \in {"trail", "icon", "texture", "mode"}
      /\ Goes(p, [q EXCEPT !.at = "sent", !.stage = "recover", !.behind = {}])
      /\ agreed' = Doubted(q, {})
      /\ UNCHANGED <<bounds, account, player, trails, shown, saving, dialog>>

\* What refreshProfileAndHighscores shows.
Refreshed(s, u, known) ==
  LET t == WithTrail(Synced(s, u, known), s["trail"], u, known)
  IN  IF u = NoAccount THEN WithTexture(WithIcon(t, t["icon"], u, known), t["texture"], u)
      ELSE LET x == WithTexture(WithIcon(t, u.pick["icon"], u, known), u.pick["texture"], u)
           IN  [x EXCEPT !["mode"] = u.pick["mode"],
                         !["settings"] = IF known = "yes" THEN u.pick["settings"] ELSE @,
                         !["binds"] = IF known = "yes" THEN u.pick["binds"] ELSE @]

\* Its answer; a save that was refused is dealt with after it.
SyncAnswered(p) ==
  LET q == flow[p]
      good == q.status \in {"ok", "stranger"}
      u == CASE q.status = "ok" -> q.user
             [] q.status = "stranger" -> NoAccount
             [] OTHER -> IF q.what = "refresh" THEN NoAccount ELSE player
      known == IF good THEN "yes" ELSE "no"
      s == Refreshed(shown, u, known)
      failed == [q EXCEPT !.status = "unauthorized"]
  IN  /\ q.at = "served" /\ q.stage = "recover"
      /\ player' = u
      /\ trails' = known
      /\ shown' = IF q.what = "refresh" THEN s ELSE PutBack(failed, s, u)
      /\ saving' = Done(q)
      /\ agreed' = IF q.status = "ok"
                   THEN IF q.what # "refresh" THEN Doubted(q, {q.what})
                        ELSE AgreedAfter(q, Aspects \ {"trail"},
                               IF q.met = "yes" THEN {"settings", "binds"} ELSE {})
                   ELSE Doubted(q, Aspects)
      /\ Goes(p, Quiet)
      /\ UNCHANGED <<bounds, account, dialog>>

\* ensureLoggedInForSave: the choice is sent, if it is unlocked still.
LoginAnswered(p) ==
  LET q == flow[p]
      s == Synced(shown, q.user, "yes")
      r == [Request(q.what, q.id, q.key, q.before, s, "save") EXCEPT !.met = q.met]
      sends == q.what # "reauth" /\ (q.what = "icon" => q.id \in Unlocked("icon", q.user, "yes"))
  IN  /\ q.at = "served" /\ q.stage = "login"
      /\ IF q.status = "ok"
         THEN /\ player' = q.user /\ trails' = "yes"
              /\ shown' = IF q.what = "reauth" \/ sends THEN s
                          ELSE WithIcon(s, q.before, q.user, "yes")
              /\ saving' = IF sends THEN Saving(r) ELSE saving
              /\ agreed' = AgreedAfter(q, {"owned"}, {})
              /\ Goes(p, IF sends THEN r ELSE Quiet)
         ELSE /\ UNCHANGED <<player, trails, shown, saving>>
              /\ agreed' = Doubted(q, {q.what} \cap Kinds)
              /\ Goes(p, Quiet)
      /\ UNCHANGED <<bounds, account, dialog>>

MenusNext ==
  \/ \E p \in Flows, k \in kinds, id \in Ids :
       ClickTrailOrIcon(p, k, id) \/ ClickTexture(p, k, id) \/ Adjust(p, k, id)
  \/ \E p \in Flows :
       \/ Refresh(p) \/ Reauthenticate(p) \/ ConfirmPendingPurchase(p)
       \/ SaveAnswered(p) \/ SaveFailed(p) \/ RecoverSession(p)
       \/ SyncAnswered(p) \/ LoginAnswered(p)
  \/ \E p \in Flows, status \in Statuses \ {"none"}, stores \in {"no", "yes"} :
       Serve(p, status, stores)
  \/ \E item \in Paid : OpenPurchaseModal(item)
  \/ ClosePurchaseModal

MenusSpec == MenusInit /\ [][MenusNext]_menuVars
-----------------------------------------------------------------------------
\* Once no handler waits, every menu whose last save or refresh went through shows what
\* the server has stored, and goes on doing so through whatever other choices are made,
\* fail, are refused and taken back: as long as answers come in the order they were given.
QuietMenusShowWhatIsStored ==
  Busy = {} /\ player # NoAccount /\ agreed = "yes" =>
    IF watched = "owned" THEN player.owned = account.owned ELSE shown[watched] = account.pick[watched]
=============================================================================
