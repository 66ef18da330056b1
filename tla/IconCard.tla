------------------------------ MODULE IconCard ------------------------------
(***************************************************************************)
(* The card of one icon in the icon editor (icon/modules/editor.js): the   *)
(* rows of its effects and animations, presets, and the icon as JSON.      *)
(*                                                                         *)
(* A card keeps no icon beside its fields; a save and a preset read it     *)
(* back from them.  A field says where it belongs by a path that holds the *)
(* index its row had when it was last indexed, and reading takes from each *)
(* row only the fields with the index at which the row stands.             *)
(***************************************************************************)
EXTENDS Naturals, Sequences

CONSTANTS
  Icons0,    \* the icons a card may be made for
  Presets,   \* what a preset says of looks, texture, effects and animations
  Texts,     \* what may be typed as JSON: icons, or NotJSON
  NotJSON,
  Unsaid,    \* of a preset: it says nothing of this part
  MaxRows,   \* bound: rows of each list when one is added
  MaxChanges \* bound: what is done to a card

RowLists == {"effects", "animations"}

\* Two of the effects, four of the animations, and five of the targets: one
\* allows two animations, one allows one, one all of them, and one is no target.
TypeOptions(list) ==
  IF list = "effects" THEN {"outline", "vignette"}
  ELSE {"pulseUniform", "colorShift", "patternRotate", "slowSpin"}

Targets == {"", "palette.fill", "pattern.rotationDeg", "pattern.alpha", "nowhere"}

\* Parameters and looks: 0 is the default, Wrong what a field may hold but no
\* icon should have (parameters that are no JSON, a color that is none).
Wrong == 2
Looks == {0, 1, Wrong}
RowEntries == [type : UNION {TypeOptions(list) : list \in RowLists},
               target : Targets, params : {0, 1}]

\* A style as it is stored.  Only those of version 2 have effects.
IsStyle(s) ==
  /\ DOMAIN s = {"v2", "look", "texture", "effects", "animations"}
  /\ s.v2 \in {"no", "yes"} /\ s.look \in Looks /\ s.texture \in {0, 1}
  /\ \A list \in RowLists : s[list] \in Seq(RowEntries)

ASSUME IconCardAssumption ==
  /\ \A icon \in Icons0 : IsStyle(icon.style)
  /\ \A given \in Texts \ {NotJSON} : IsStyle(given.style)
  /\ \A preset \in Presets, list \in RowLists :
       preset[list] # Unsaid => preset[list] \in Seq(RowEntries)
  /\ MaxRows \in [RowLists -> Nat]
  /\ MaxChanges \in Nat

VARIABLES
  iconId,   \* is there something in the id field?
  look,     \* the fields of palette, stroke, shadow and pattern
  rows,     \* the rows of each list
  text,     \* the JSON field
  changes

cardVars == <<iconId, look, rows, text, changes>>
-----------------------------------------------------------------------------
DefaultStyle == [v2 |-> "yes", look |-> 0, texture |-> 0, effects |-> <<>>, animations |-> <<>>]

\* resolveIconStyleV2: of a style of the first version only the looks are taken.
ResolveStyle(s) == IF s.v2 = "yes" THEN s ELSE [DefaultStyle EXCEPT !.look = s.look]

\* validateIconStyleV2.
ValidStyle(s) ==
  s.look # Wrong /\ \A i \in DOMAIN s.animations : s.animations[i].target # "nowhere"

\* deepMerge: of lists, all or nothing is replaced.
Merge(s, patch) ==
  [s EXCEPT !.look = IF patch.look = Unsaid THEN @ ELSE patch.look,
            !.texture = IF patch.texture = Unsaid THEN @ ELSE patch.texture,
            !.effects = IF patch.effects = Unsaid THEN @ ELSE patch.effects,
            !.animations = IF patch.animations = Unsaid THEN @ ELSE patch.animations]

\* The animations that make sense for a target; none are said of most targets.
Guidance(target) ==
  CASE target = "pattern.rotationDeg" -> <<"patternRotate", "slowSpin">>
    [] target = "palette.fill" -> <<"colorShift">>
    [] OTHER -> <<>>

GuidedTypes(target) == {Guidance(target)[i] : i \in DOMAIN Guidance(target)}

\* updateAnimationGuidance: the other types are disabled, and one that is
\* disabled is not left selected.
Guided(row) ==
  LET types == GuidedTypes(row.target)
  IN  IF types = {} THEN [row EXCEPT !.enabled = TypeOptions("animations")]
      ELSE [row EXCEPT !.enabled = types,
                       !.type = IF @ \in types THEN @ ELSE Guidance(row.target)[1]]

\* createEffectRow and createAnimationRow.
Row(list, e, index) ==
  LET row == [tag |-> index, type |-> e.type, target |-> e.target, params |-> e.params,
              enabled |-> TypeOptions(list)]
  IN  IF list = "effects" THEN row ELSE Guided(row)

RowsOf(list, entries) == [i \in DOMAIN entries |-> Row(list, entries[i], i)]

NewEntry(list) ==
  [type |-> IF list = "effects" THEN "outline" ELSE "pulseUniform", target |-> "", params |-> 0]

\* A row is taken out of the page, and the rows below it move up.
Without(list, i) == [j \in 1..(Len(list) - 1) |-> IF j < i THEN list[j] ELSE list[j + 1]]

\* reindexRows.
Reindexed(list) == [i \in DOMAIN list |-> [list[i] EXCEPT !.tag = i]]

\* readIconDefinition takes nothing from the fields of another index, and
\* parameters only if they are JSON.  What there is no field for is the default.
ReadRow(list, row, index) ==
  IF row.tag # index
  THEN [type |-> IF list = "effects" THEN "outline" ELSE "none", target |-> "", params |-> 0]
  ELSE [type |-> row.type, target |-> row.target,
        params |-> IF row.params = Wrong THEN 0 ELSE row.params]

ReadRows(list) == [i \in DOMAIN rows[list] |-> ReadRow(list, rows[list][i], i)]

ReadStyle ==
  [DefaultStyle EXCEPT !.look = look,
                  !.effects = ReadRows("effects"), !.animations = ReadRows("animations")]

\* applyStyleToCard: the fields are filled and the rows made anew.
ApplyStyle(s) ==
  /\ look' = s.look
  /\ rows' = [list \in RowLists |-> RowsOf(list, s[list])]
-----------------------------------------------------------------------------
\* createIconCard: the JSON is the icon as it was then, and is not kept up.
CardInit ==
  \E icon \in Icons0 :
    LET s == ResolveStyle(icon.style)
    IN  /\ iconId = icon.id
        /\ look = s.look
        /\ rows = [list \in RowLists |-> RowsOf(list, s[list])]
        /\ text = [id |-> icon.id, style |-> s]
  /\ changes = 0

TypeField(given, l) ==
  /\ <<given, l>> # <<iconId, look>>
  /\ iconId' = given /\ look' = l
  /\ UNCHANGED <<rows, text>>

SetRows(list, new) ==
  /\ rows' = [rows EXCEPT ![list] = new]
  /\ UNCHANGED <<iconId, look, text>>

AddRow(list) ==
  /\ Len(rows[list]) < MaxRows[list]
  /\ SetRows(list, Reindexed(Append(rows[list], Row(list, NewEntry(list), Len(rows[list]) + 1))))

\* Mutant: the rows below a removed one keep their indexes.
RemoveRowOnly(list, i) == SetRows(list, Without(rows[list], i))

RemoveRow(list, i) == SetRows(list, Reindexed(Without(rows[list], i)))

MoveRow(list, i, j) ==
  /\ j \in DOMAIN rows[list] /\ (j = i + 1 \/ i = j + 1)
  /\ SetRows(list, Reindexed([rows[list] EXCEPT ![i] = rows[list][j], ![j] = rows[list][i]]))

\* A disabled option cannot be chosen.
ChooseType(list, i, type) ==
  /\ type \in rows[list][i].enabled
  /\ SetRows(list, [rows[list] EXCEPT ![i].type = type])

TypeParams(list, i, params) == SetRows(list, [rows[list] EXCEPT ![i].params = params])

TypeTarget(i, target) ==
  SetRows("animations", [rows["animations"] EXCEPT ![i] = Guided([@ EXCEPT !.target = target])])

TypeText(t) ==
  /\ text' = t
  /\ UNCHANGED <<iconId, look, rows>>

\* Mutant: a preset is laid over the style the card was made with.
ApplyPresetToFirst(preset) ==
  /\ iconId = "given" /\ text # NotJSON
  /\ ApplyStyle(Merge(text.style, preset))
  /\ UNCHANGED <<iconId, text>>

\* applyPresetToCard lays a preset over what it reads; an icon without an id is
\* not read.  There is no field for the texture.
ApplyPreset(preset) ==
  /\ iconId = "given"
  /\ ApplyStyle(Merge(ReadStyle, preset))
  /\ UNCHANGED <<iconId, text>>

\* The button Apply JSON: errors are shown and change nothing.
ApplyJson ==
  /\ text # NotJSON
  /\ LET s == ResolveStyle(text.style)
     IN  ValidStyle(s) /\ ApplyStyle(s)
  /\ iconId' = text.id
  /\ UNCHANGED text

Change ==
  \/ \E given \in {"given", "missing"}, l \in Looks : TypeField(given, l)
  \/ \E list \in RowLists : AddRow(list)
  \/ \E list \in RowLists : \E i \in DOMAIN rows[list] :
       \/ RemoveRow(list, i)
       \/ \E j \in {i - 1, i + 1} : MoveRow(list, i, j)
       \/ \E type \in TypeOptions(list) : ChooseType(list, i, type)
       \/ \E params \in {0, 1, Wrong} : TypeParams(list, i, params)
  \/ \E i \in DOMAIN rows["animations"], target \in Targets : TypeTarget(i, target)
  \/ \E t \in Texts : TypeText(t)
  \/ \E preset \in Presets : ApplyPreset(preset)
  \/ ApplyJson

CardNext == changes < MaxChanges /\ Change /\ changes' = changes + 1

CardSpec == CardInit /\ [][CardNext]_cardVars
-----------------------------------------------------------------------------
\* What a row shows.
ShownRow(row) ==
  [type |-> row.type, target |-> row.target, params |-> IF row.params = Wrong THEN 0 ELSE row.params]

\* However rows were added, removed, moved and replaced, reading a card gives
\* what its rows show, in their order, and an animation shown for a target is
\* one that makes sense for it.
CardReadsAsShown ==
  /\ \A list \in RowLists : \A i \in DOMAIN rows[list] :
       ReadStyle[list][i] = ShownRow(rows[list][i])
  /\ \A i \in DOMAIN rows["animations"] :
       LET row == rows["animations"][i]
       IN  Guidance(row.target) # <<>> => row.type \in GuidedTypes(row.target)

\* A preset that is applied changes what it says and leaves the rest as the
\* operator had it.
PresetsKeepTheRest ==
  [][\A preset \in Presets : ApplyPreset(preset) =>
       /\ preset.look = Unsaid => look' = look
       /\ \A list \in RowLists : preset[list] = Unsaid =>
            /\ Len(rows'[list]) = Len(rows[list])
            /\ \A i \in DOMAIN rows[list] : ShownRow(rows'[list][i]) = ShownRow(rows[list][i])]_cardVars
=============================================================================
