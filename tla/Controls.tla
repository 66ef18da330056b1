------------------------------ MODULE Controls ------------------------------
(***************************************************************************)
(* Codes, mouse buttons and what they are bound to: the input layer        *)
(* (public/js/input.js), the bindings of the skills and their swaps        *)
(* (keybinds.js), the rebinding of one of them (rebindControls.js) and the *)
(* server's own check of a set of bindings (server.cjs).                   *)
(*                                                                         *)
(* Page and server each normalize what they are given, by rules that       *)
(* differ.  An action whose binding is refused gets its default, whatever  *)
(* else that is bound to.                                                  *)
(***************************************************************************)
EXTENDS Naturals, Sequences

CONSTANTS
  ActionList,    \* ACTIONS: the skills, in the order in which bindings are looked up
  DefaultBinds,  \* DEFAULT_KEYBINDS
  Codes,         \* of the keyboard, Escape among them
  Buttons,       \* of the mouse
  ServersOnly,   \* inputs the server takes and the page refuses: the fourth button on
  Loadable,      \* what a cookie or an account may hold; Missing where it has nothing
  Saves,         \* calls of apiSetKeybinds that may be under way
  MaxEvents,     \* bound: loads, sign-outs, rebinds and presses
  Missing, NoAction

Bindable == {ActionList[i] : i \in DOMAIN ActionList}
Inputs == Codes \cup Buttons

ASSUME ControlsAssumption ==
  /\ "Escape" \in Codes /\ ServersOnly \subseteq Buttons /\ Missing \notin Inputs
  /\ ActionList \in Seq(Bindable) /\ NoAction \notin Bindable
  /\ DefaultBinds \in [Bindable -> Inputs \ ServersOnly]
  /\ Loadable \subseteq [Bindable -> Inputs \cup {Missing}]
  /\ MaxEvents \in Nat

VARIABLES
  binds,      \* the page's
  cookie,     \* those of a guest
  stored,     \* those of the account
  user,       \* is somebody signed in (net.user)
  listening,  \* rebindActive
  save,       \* the calls under way
  keys,       \* those the input layer takes for held
  acted,      \* the action that was last handed on (onAction)
  down,       \* the keys that are held
  unseen,     \* history: since the run began, released where the page's UI had the focus
  whole,      \* history: has every set that was loaded been unambiguous
  events      \* events that are left

controlVars ==
  <<binds, cookie, stored, user, listening, save, keys, acted, down, unseen, whole, events>>

Sets == [Bindable -> Inputs]
NoSave == [at |-> "idle", before |-> DefaultBinds, body |-> DefaultBinds,
           reverts |-> "no", ok |-> "no"]

ControlsTypeOK ==
  /\ binds \in Sets /\ {cookie, stored} \subseteq [Bindable -> Inputs \cup {Missing}]
  /\ user \in {"guest", "player"} /\ listening \in Bindable \cup {NoAction}
  /\ save \in [Saves -> [at : {"idle", "sent", "served"}, before : Sets, body : Sets,
                         reverts : {"no", "yes"}, ok : {"no", "yes"}]]
  /\ {keys, down, unseen} \subseteq SUBSET Codes /\ acted \in Bindable \cup {NoAction}
  /\ whole \in {"no", "yes"} /\ events \in 0..MaxEvents
-----------------------------------------------------------------------------
\* The first of some actions, as the code goes through them.
FirstOf(S) ==
  IF S = {} THEN NoAction
  ELSE ActionList[CHOOSE i \in DOMAIN ActionList :
                    ActionList[i] \in S /\ \A j \in 1..(i - 1) : ActionList[j] \notin S]

BoundTo(i) == {a \in Bindable : binds[a] = i}

\* mergeBinds and mergeKeybinds, with what normalizeBind takes.
Merged(incoming, taken) ==
  [a \in Bindable |-> IF incoming[a] \in taken THEN incoming[a] ELSE DefaultBinds[a]]
ForPage(incoming) == Merged(incoming, Inputs \ ServersOnly)
FromServer(incoming) == ForPage(Merged(incoming, Inputs))

Unambiguous(b) == \A x, y \in Bindable : b[x] = b[y] => x = y

ValidateKeybindsPayload(b) == b \in Sets /\ Unambiguous(b)

\* Mutant: the action that loses its input is left with it.
RebindWithoutSwap(a, i) == IF i \in ServersOnly THEN binds ELSE [binds EXCEPT ![a] = i]

\* applyRebindWithSwap: the first other action that has the input gets the old one.
RebindWithSwap(a, i) ==
  LET other == FirstOf(BoundTo(i) \ {a})
  IN  IF i \in ServersOnly THEN binds
      ELSE [x \in Bindable |-> IF x = a THEN i ELSE IF x = other THEN binds[a] ELSE binds[x]]

SendBinds(s, before, body, reverts) ==
  /\ save[s].at = "idle"
  /\ save' = [save EXCEPT ![s] = [at |-> "sent", before |-> before, body |-> body,
                                   reverts |-> reverts, ok |-> "no"]]

Spend == events > 0 /\ events' = events - 1
-----------------------------------------------------------------------------
ControlsInit ==
  /\ cookie \in Loadable /\ stored \in Loadable
  /\ binds = ForPage(cookie) /\ whole = IF Unambiguous(binds) THEN "yes" ELSE "no"
  /\ user = "guest" /\ listening = NoAction /\ save = [s \in Saves |-> NoSave]
  /\ keys = {} /\ acted = NoAction /\ down = {} /\ unseen = {}
  /\ events = MaxEvents

Loads(b) ==
  /\ Spend
  /\ binds' = b /\ whole' = IF Unambiguous(b) THEN whole ELSE "no"

\* refreshProfileAndHighscores
RefreshBinds ==
  /\ Loads(FromServer(stored)) /\ user' = "player"
  /\ UNCHANGED <<cookie, stored, listening, save, keys, acted, down, unseen>>

\* ... that finds nobody signed in leaves the bindings as they are.
RefreshSignsOut ==
  /\ user = "player" /\ Spend /\ user' = "guest"
  /\ UNCHANGED <<binds, cookie, stored, listening, save, keys, acted, down, unseen, whole>>

\* registerUser sends what it was given back.
RegisterUser(s) ==
  /\ Loads(FromServer(stored)) /\ user' = "player"
  /\ SendBinds(s, binds, FromServer(stored), "no")
  /\ UNCHANGED <<cookie, stored, listening, keys, acted, down, unseen>>

\* The page is loaded anew; calls under way may still be served.
ReloadPage ==
  /\ Loads(ForPage(cookie)) /\ user' = "guest" /\ listening' = NoAction
  /\ keys' = {} /\ unseen' = {} /\ acted' = NoAction
  /\ save' = [s \in Saves |-> IF save[s].at = "sent" THEN [save[s] EXCEPT !.reverts = "no"]
                              ELSE NoSave]
  /\ UNCHANGED <<cookie, stored, down>>

\* startGame and startTutorial, as far as the controls go.
BeginPlay ==
  /\ listening' = NoAction /\ keys' = {} /\ unseen' = {}
  /\ UNCHANGED <<binds, cookie, stored, user, save, acted, down, whole, events>>

\* toMenu, as far as the controls go.
BackToMenu ==
  /\ listening # NoAction /\ listening' = NoAction
  /\ UNCHANGED <<binds, cookie, stored, user, save, keys, acted, down, unseen, whole, events>>

BeginRebind(a) ==
  /\ listening = NoAction /\ Spend
  /\ listening' = a
  /\ UNCHANGED <<binds, cookie, stored, user, save, keys, acted, down, unseen, whole>>

\* finish: what was pressed is bound, kept and sent.
Finish(i) ==
  LET new == RebindWithSwap(listening, i)
  IN  /\ listening' = NoAction /\ binds' = new
      /\ IF user = "guest" THEN cookie' = new /\ UNCHANGED save
         ELSE UNCHANGED cookie /\ \E s \in Saves : SendBinds(s, binds, new, "yes")

Cancel == listening' = NoAction /\ UNCHANGED <<binds, cookie, save>>

\* A key is pressed, or repeats while it is held.
GoesDown(k, repeats) ==
  /\ (k \in down) = repeats
  /\ IF repeats THEN UNCHANGED events ELSE Spend
  /\ down' = down \cup {k}

\* onKeyDownCapture: while a binding is awaited, no other listener gets the key.
CaptureKey(k, repeats) ==
  /\ listening # NoAction /\ GoesDown(k, repeats)
  /\ IF k = "Escape" THEN Cancel ELSE Finish(k)
  /\ UNCHANGED <<stored, user, keys, acted, unseen, whole>>

\* keydown: keys of the UI are not the game's, and a repeated key acts once.
KeyDown(k, repeats, ui) ==
  /\ listening = NoAction /\ GoesDown(k, repeats)
  /\ keys' = IF ui THEN keys ELSE keys \cup {k}
  /\ acted' = IF ui \/ repeats \/ BoundTo(k) = {} THEN acted ELSE FirstOf(BoundTo(k))
  /\ unseen' = IF ui THEN unseen ELSE unseen \ {k}
  /\ UNCHANGED <<binds, cookie, stored, user, listening, save, whole>>

\* keyup: neither is a release while the UI has the focus.
KeyUp(k, ui) ==
  /\ k \in down /\ down' = down \ {k}
  /\ keys' = IF ui THEN keys ELSE keys \ {k}
  /\ unseen' = IF ui THEN unseen \cup {k} ELSE unseen \ {k}
  /\ UNCHANGED <<binds, cookie, stored, user, listening, save, acted, whole, events>>

\* onPointerDownCapture
CaptureButton(b) ==
  /\ listening # NoAction /\ Spend /\ Finish(b)
  /\ UNCHANGED <<stored, user, keys, acted, down, unseen, whole>>

\* pointerdown, on the game.
PointerDown(b) ==
  /\ listening = NoAction /\ Spend
  /\ acted' = IF BoundTo(b) = {} THEN acted ELSE FirstOf(BoundTo(b))
  /\ UNCHANGED <<binds, cookie, stored, user, listening, save, keys, down, unseen, whole>>

\* POST /api/binds and setKeybinds.
ServeBinds(s) ==
  /\ save[s].at = "sent"
  /\ LET valid == ValidateKeybindsPayload(save[s].body)
     IN  /\ save' = [save EXCEPT ![s].at = "served", ![s].ok = IF valid THEN "yes" ELSE "no"]
         /\ stored' = IF valid THEN save[s].body ELSE stored
  /\ UNCHANGED <<binds, cookie, user, listening, keys, acted, down, unseen, whole, events>>

\* The rest of finish: a save that was refused, or whose answer is lost, is put back.
SaveEnds(s, lost) ==
  /\ save[s].at \in {"served"} \cup (IF lost THEN {"sent"} ELSE {})
  /\ binds' = IF save[s].reverts = "yes" /\ (lost \/ save[s].ok = "no")
              THEN save[s].before ELSE binds
  /\ save' = [save EXCEPT ![s] = NoSave]
  /\ UNCHANGED <<cookie, stored, user, listening, keys, acted, down, unseen, whole, events>>

ControlsNext ==
  \/ RefreshBinds \/ RefreshSignsOut \/ ReloadPage \/ BeginPlay \/ BackToMenu
  \/ \E s \in Saves : RegisterUser(s) \/ ServeBinds(s) \/ \E lost \in BOOLEAN : SaveEnds(s, lost)
  \/ \E a \in Bindable : BeginRebind(a)
  \/ \E k \in Codes, repeats \in BOOLEAN :
       CaptureKey(k, repeats) \/ \E ui \in BOOLEAN : KeyDown(k, repeats, ui)
  \/ \E k \in Codes, ui \in BOOLEAN : KeyUp(k, ui)
  \/ \E b \in Buttons : CaptureButton(b) \/ PointerDown(b)

ControlsSpec == ControlsInit /\ [][ControlsNext]_controlVars
-----------------------------------------------------------------------------
(* Properties. *)

\* As long as what was loaded was unambiguous, each input has one action: no swap,
\* refusal or late answer gives two actions the same input.
InputsHaveOneAction == whole = "yes" => Unambiguous(binds)

\* ... and the server, which checks by rules of its own, accepts all the page sends.
SavesAreAccepted ==
  whole = "yes" =>
    \A s \in Saves : save[s].at = "sent" => ValidateKeybindsPayload(save[s].body)

\* In a run, a key is taken for held only if it is, or if it was released, in that run,
\* where the input layer does not listen.
HeldKeysAreDown == keys \subseteq down \cup unseen

\* The bindings stay usable through swaps, refusals and late answers, and the keys of
\* the menu are not those of a run.
ControlsStayUsable == InputsHaveOneAction /\ SavesAreAccepted /\ HeldKeysAreDown
=============================================================================
