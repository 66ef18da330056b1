------------------------------- MODULE Forms -------------------------------
(***************************************************************************)
(* The operator's forms over what the server stores: the editors of trails *)
(* (traileditor/), icons (icon/) and achievements (achievementeditor/),    *)
(* and the server-config and menu tools of bigflappin/admin.js, with the   *)
(* handlers and normalizers behind them.  (The server keeps achievements   *)
(* as a part of its configuration; ConfigStore has how an edit of a part   *)
(* meets one of the rest.)                                                 *)
(*                                                                         *)
(* A page shows a card for everything the server serves, the operator      *)
(* types into it, and a save collects every card, typed into or not, and   *)
(* replaces all that is held.  A form does not show all of an entry, and   *)
(* what it collects, and what the server makes of that, need not be what   *)
(* was shown.  Pages know nothing of each other.                           *)
(***************************************************************************)
EXTENDS Naturals, FiniteSets

CONSTANTS
  Pages,
  Tools,            \* the tools that may be open
  NewSlot,          \* the card of an entry that is being added
  Nothing, NoId,
  Undefined, Null,  \* of a score: left out (an empty field), and null
  BuiltIns,         \* the built-in entries of each document
  Opening,          \* what may be held of it at first; Nothing if it never was saved
  Typed,            \* cards as an operator may leave them
  MaxEdits, MaxSaves   \* bounds on each page

Forms == {"trails", "icons", "achievements"}
AllTools == Forms \cup {"menus", "whole"}

\* The menu tool and the editor of the whole configuration share a document.
DocumentOf(t) == IF t \in Forms THEN t ELSE "config"
Docs == {"trails", "icons", "achievements", "config"}

\* A built-in entry and another one; of the configuration, menus and the rest.
EntryIds == {"b", "c"}
CardSlots == EntryIds \cup {NewSlot}

\* Purchases are left out: what they cost is kept as the minimal score is.
UnlockTypes == {"free", "score", "achievement", "record"}
Unlocks == [type : UnlockTypes, id : {NoId, "feat"}, min : {Undefined, Null, 0, 1}]
Free == [type |-> "free", id |-> NoId, min |-> Undefined]

\* A style that is not acceptable can only be typed.  What a form has no field
\* for is extra.
Bad == 2
Entries == [style : {0, 1}, extra : {0, 1}, unlock : Unlocks \cup {Nothing}]
Lists == [EntryIds -> Entries \cup {Nothing}]

Cards == [id : EntryIds \cup {NoId}, style : {0, 1, Bad}, unlock : Unlocks]
Blank == [id |-> NoId, style |-> 0, unlock |-> Free]

\* Trails and icons have unlocks; of these, achievements have an id.
HaveUnlocks == {"trails", "icons"}
HasItsId(u) == u.id = IF u.type = "achievement" THEN "feat" ELSE NoId
Locks(e) == e # Nothing /\ e.unlock # Nothing

ASSUME FormsAssumption ==
  /\ Tools \subseteq AllTools
  /\ NewSlot \notin EntryIds /\ NoId \notin EntryIds \cup {"feat"}
  /\ Nothing \notin Entries \cup Cards \cup Unlocks \cup Lists
  /\ BuiltIns \in [Docs -> Lists]
  /\ \A d \in Docs : Opening[d] \subseteq Lists \cup {Nothing}
  /\ \A d \in Docs, i \in EntryIds :
       Locks(BuiltIns[d][i]) => d \in HaveUnlocks /\ HasItsId(BuiltIns[d][i].unlock)
  /\ \A d \in Docs \ HaveUnlocks : \A list \in Opening[d] \ {Nothing}, i \in EntryIds :
       ~Locks(list[i])
  /\ Typed \subseteq Cards
  /\ MaxEdits \in Nat /\ MaxSaves \in Nat

VARIABLES
  held,     \* what is stored of each document
  tool,     \* the tool each page has open
  cards,    \* its cards; Nothing before the first answer
  shown,    \* the list it was rendered from
  coming,   \* an answer on its way to it, or Nothing
  touched,  \* the cards typed into, added or removed since it was rendered
  reread,   \* the menu tool has asked for the configuration to save into
  sent,     \* the saves on their way
  edits, saves

formVars == <<held, tool, cards, shown, coming, touched, reread, sent, edits, saves>>
-----------------------------------------------------------------------------
\* normalizeUnlock of unlockables.cjs, and that of playerIcons.cjs, which keeps
\* a score of scores only.
NormalizeUnlock(u) ==
  LET min == IF u.min \in {Undefined, Null} THEN Null ELSE u.min
  IN  CASE u.type = "score" -> [u EXCEPT !.id = NoId, !.min = IF min = Null THEN 0 ELSE min]
        [] u.type = "achievement" /\ u.id # NoId -> [u EXCEPT !.min = min]
        [] u.type = "record" ->
             [u EXCEPT !.id = NoId, !.min = IF min = Null THEN Undefined ELSE min]
        [] OTHER -> Free

NormalizeIconUnlock(u) ==
  IF u.type = "score" THEN NormalizeUnlock(u) ELSE [NormalizeUnlock(u) EXCEPT !.min = Undefined]

\* The overrides are prepared for it with Number(), and Number(null) is 0.
NormalizeTrailUnlock(u) == NormalizeUnlock([u EXCEPT !.min = IF @ = Null THEN 0 ELSE @])

\* What the server makes of a list, when it is saved and again when it is read.
Normalize(d, list) ==
  [i \in EntryIds |->
     IF list[i] = Nothing \/ list[i].unlock = Nothing \/ d \notin HaveUnlocks
     THEN list[i]
     ELSE [list[i] EXCEPT !.unlock = IF d = "icons" THEN NormalizeIconUnlock(@)
                                                    ELSE NormalizeTrailUnlock(@)]]

\* A trail without an unlock of its own has the one built in.
Unlocked(i, e) ==
  IF e = Nothing \/ e.unlock # Nothing THEN e
  ELSE [e EXCEPT !.unlock =
          IF BuiltIns["trails"][i] = Nothing THEN Free ELSE BuiltIns["trails"][i].unlock]

\* Stored trails and icons are laid over those built in; achievements replace them.
AsServed(d) ==
  IF held[d] = Nothing THEN BuiltIns[d]
  ELSE LET list == Normalize(d, held[d])
       IN  CASE d = "trails" -> [i \in EntryIds |-> Unlocked(i, IF list[i] = Nothing THEN BuiltIns[d][i]
                                                                           ELSE list[i])]
             [] d = "icons" -> [i \in EntryIds |-> IF list[i] = Nothing THEN BuiltIns[d][i] ELSE list[i]]
             [] OTHER -> list

\* createTrailCard, createIconCard, createAchievementCard: null is an empty field.
CardOf(i, e) ==
  IF e = Nothing THEN Nothing
  ELSE [id |-> i, style |-> e.style,
        unlock |-> IF e.unlock = Nothing THEN Free
                   ELSE [e.unlock EXCEPT !.min = IF @ = Null THEN Undefined ELSE @]]

Shows(t, i) == t # "menus" \/ i = "b"

\* The cards of a list; an achievement that was added is in the list, blank.
Rendered(t, list) ==
  [s \in CardSlots |-> CASE s \in EntryIds /\ Shows(t, s) -> CardOf(s, list[s])
                     [] s = NewSlot /\ s \in DOMAIN list -> Blank
                     [] OTHER -> Nothing]

\* The fields of the unlock that a form reads, by its type.
CollectUnlock(t, u) ==
  CASE t = "trails" ->
         [u EXCEPT !.id = IF u.type = "achievement" THEN @ ELSE NoId,
                   !.min = IF u.type \in {"achievement", "score"} THEN @ ELSE Undefined]
    [] t = "icons" ->
         [u EXCEPT !.id = IF u.type = "achievement" THEN @ ELSE NoId,
                   !.min = IF u.type # "score" THEN Undefined
                           ELSE IF @ = Undefined THEN 0 ELSE @]
    [] OTHER -> Nothing

\* What makes no sense of a trail, half a range or a palette of no colours, its
\* page leaves out (parseRange, parseColor).
CollectEntry(t, card) ==
  [style |-> IF card.style = Bad THEN 0 ELSE card.style, extra |-> 0,
   unlock |-> CollectUnlock(t, card.unlock)]

Claims(form, i) == {s \in CardSlots : form[s] # Nothing /\ form[s].id = i}

\* The last of the cards with the same id: a new trail's card comes first.
LastCard(S) ==
  IF S = {NewSlot} THEN NewSlot ELSE IF "c" \in S THEN "c" ELSE "b"

Collect(t, form) ==
  [i \in EntryIds |-> IF Claims(form, i) = {} THEN Nothing
                 ELSE CollectEntry(t, form[LastCard(Claims(form, i))])]

\* validateIconCard: the page sends no icon without an id or with a bad style.
ValidCards(form) ==
  \A s \in CardSlots : form[s] # Nothing => form[s].id # NoId /\ form[s].style # Bad

\* Catalogs are refused as a whole: of trails for one whose style is bad, which
\* their page does not send, of icons and achievements for one bad card too.
Acceptable(t, form) ==
  /\ t = "trails" => \A i \in EntryIds :
       LET e == Collect(t, form)[i] IN e # Nothing => e.style # Bad
  /\ t \in {"icons", "achievements"} =>
       ValidCards(form) /\ \A i \in EntryIds : Cardinality(Claims(form, i)) <= 1
-----------------------------------------------------------------------------
FormsInit ==
  /\ held \in {f \in [Docs -> UNION {Opening[d] : d \in Docs}] :
                   \A d \in Docs : f[d] \in Opening[d]}
  /\ tool \in [Pages -> Tools]
  /\ cards = [p \in Pages |-> Nothing]
  /\ shown = [p \in Pages |-> Nothing]
  /\ coming = [p \in Pages |-> Nothing]
  /\ touched = [p \in Pages |-> {}]
  /\ reread = [p \in Pages |-> Nothing]
  /\ sent = {}
  /\ edits = [p \in Pages |-> 0]
  /\ saves = [p \in Pages |-> 0]

\* The server answers a page that loads or reloads.
AnswerPage(p) ==
  /\ coming[p] = Nothing
  /\ coming' = [coming EXCEPT ![p] = AsServed(DocumentOf(tool[p]))]
  /\ UNCHANGED <<held, tool, cards, shown, touched, reread, sent, edits, saves>>

Show(p, list) ==
  /\ cards' = [cards EXCEPT ![p] = Rendered(tool[p], list)]
  /\ shown' = [shown EXCEPT ![p] = list]
  /\ touched' = [touched EXCEPT ![p] = {}]
  /\ UNCHANGED <<held, tool, reread, sent, edits, saves>>

\* The answer is rendered, over whatever was typed since it was asked for.
LoadConfig(p) ==
  /\ coming[p] # Nothing
  /\ Show(p, coming[p])
  /\ coming' = [coming EXCEPT ![p] = Nothing]

\* The navigation button of the achievements renders the definitions again that
\* were loaded, not those that were saved since.
RenderAgain(p) ==
  /\ tool[p] = "achievements" /\ cards[p] # Nothing
  /\ Show(p, shown[p])
  /\ UNCHANGED coming

EditCard(p, s, card) ==
  /\ edits[p] < MaxEdits
  /\ cards' = [cards EXCEPT ![p] = [@ EXCEPT ![s] = card]]
  /\ touched' = [touched EXCEPT ![p] = @ \cup {s}]
  /\ edits' = [edits EXCEPT ![p] = @ + 1]
  /\ UNCHANGED <<held, tool, coming, reread, sent, saves>>

AddCard(p) ==
  /\ tool[p] \in Forms /\ cards[p] # Nothing
  /\ cards[p][NewSlot] = Nothing
  /\ EditCard(p, NewSlot, Blank)
  /\ shown' = IF tool[p] # "achievements" THEN shown
             ELSE [shown EXCEPT ![p] = [s \in CardSlots |-> IF s = NewSlot THEN Nothing ELSE @[s]]]

IsDefault(t, s) == s # NewSlot /\ BuiltIns[DocumentOf(t)][s] # Nothing

\* A built-in trail's id cannot be edited; only trails and icons have unlocks.
Type(p, s, card) ==
  LET t == tool[p]
  IN  /\ cards[p] # Nothing
      /\ cards[p][s] # Nothing /\ cards[p][s] # card
      /\ t \notin {"icons", "achievements"} /\ (t # "trails" \/ IsDefault(t, s)) => card.id = s
      /\ t \notin HaveUnlocks => card.unlock = Free
      /\ t \notin Forms => card.style # Bad
      /\ EditCard(p, s, card)
      /\ UNCHANGED shown

\* Built-in trails and icons cannot be removed.
Remove(p, s) ==
  /\ cards[p] # Nothing /\ cards[p][s] # Nothing
  /\ tool[p] = "achievements" \/ (tool[p] = "trails" /\ ~IsDefault(tool[p], s))
  /\ EditCard(p, s, Nothing)
  /\ UNCHANGED shown

Send(p, form, list, ours) ==
  /\ sent' = sent \cup {[tool |-> tool[p], form |-> form, shown |-> list, ours |-> ours]}
  /\ UNCHANGED <<held, tool, cards, shown, coming, touched, edits>>

\* The ids whose card was touched, or that a touched card has.
Ours(p) ==
  (touched[p] \ {NewSlot}) \cup {cards[p][s].id : s \in {s \in touched[p] : cards[p][s] # Nothing}}

\* The Save button of the forms and of the configuration's editor.
SaveForm(p) ==
  /\ tool[p] # "menus" /\ cards[p] # Nothing
  /\ saves[p] < MaxSaves
  /\ tool[p] = "icons" => ValidCards(cards[p])
  /\ Send(p, cards[p], [i \in EntryIds |-> shown[p][i]], Ours(p))
  /\ saves' = [saves EXCEPT ![p] = @ + 1]
  /\ UNCHANGED reread

\* That of the menu tool asks for the configuration first; it is there before
\* there are menus.
AskAgain(p) ==
  /\ tool[p] = "menus" /\ reread[p] = Nothing
  /\ saves[p] < MaxSaves
  /\ reread' = [reread EXCEPT ![p] = AsServed("config")]
  /\ saves' = [saves EXCEPT ![p] = @ + 1]
  /\ UNCHANGED <<held, tool, cards, shown, coming, touched, sent, edits>>

\* Mutant: what was loaded with the menus is saved with them.
SaveMenusWithLoaded(p) ==
  /\ reread[p] # Nothing
  /\ cards[p] # Nothing
  /\ Send(p, [cards[p] EXCEPT !["c"] = CardOf("c", shown[p]["c"])],
          [reread[p] EXCEPT !["b"] = shown[p]["b"]], touched[p])
  /\ reread' = [reread EXCEPT ![p] = Nothing]
  /\ UNCHANGED saves

\* It lays its menus over that; where it has none yet, the server has defaults.
SaveMenus(p) ==
  /\ reread[p] # Nothing
  /\ IF cards[p] = Nothing
     THEN Send(p, Rendered("whole", [reread[p] EXCEPT !["b"] = BuiltIns["config"]["b"]]),
               reread[p], {"b"})
     ELSE Send(p, [cards[p] EXCEPT !["c"] = CardOf("c", reread[p]["c"])],
               [reread[p] EXCEPT !["b"] = shown[p]["b"]], touched[p])
  /\ reread' = [reread EXCEPT ![p] = Nothing]
  /\ UNCHANGED saves

\* The PUT handlers.
PutForm(q) ==
  LET d == DocumentOf(q.tool)
  IN  /\ held' = IF Acceptable(q.tool, q.form)
                   THEN [held EXCEPT ![d] = Normalize(d, Collect(q.tool, q.form))]
                   ELSE held
      /\ sent' = sent \ {q}
      /\ UNCHANGED <<tool, cards, shown, coming, touched, reread, edits, saves>>

\* A save fails or does not arrive: the page says so and keeps its cards.
Lose(q) ==
  /\ sent' = sent \ {q}
  /\ UNCHANGED <<held, tool, cards, shown, coming, touched, reread, edits, saves>>

FormsNext ==
  \/ \E p \in Pages : AnswerPage(p) \/ LoadConfig(p) \/ RenderAgain(p) \/ AddCard(p)
                      \/ SaveForm(p) \/ AskAgain(p) \/ SaveMenus(p)
  \/ \E p \in Pages, s \in CardSlots : Remove(p, s) \/ \E card \in Typed : Type(p, s, card)
  \/ \E q \in sent : PutForm(q) \/ Lose(q)

FormsSpec == FormsInit /\ [][FormsNext]_formVars
-----------------------------------------------------------------------------
\* What a card tells of an entry.
Shown(e) ==
  IF e = Nothing THEN Nothing
  ELSE LET card == CardOf("b", e) IN <<card.style, card.unlock.type, card.unlock.id>>

\* An entry the operator did not touch is served, after a save from a page, as
\* that page had it when it was rendered: a form collects all its cards, but
\* collecting, normalizing and reading again change no entry's looks or kind of
\* unlock.  (The menu tool had all but the menus when it asked again.)
UntouchedStaysAsSeen ==
  [][\A q \in sent : q \notin sent' /\ held' # held =>
       \A i \in EntryIds \ q.ours : Shown(AsServed(DocumentOf(q.tool))'[i]) = Shown(q.shown[i])]_formVars
=============================================================================
