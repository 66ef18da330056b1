------------------------------- MODULE Themes -------------------------------
(***************************************************************************)
(* The theme editor (public/js/themes.js): presets, the values of a custom *)
(* theme, two modes that draw one at random whenever the page is loaded,   *)
(* and export and import as a text.                                        *)
(*                                                                         *)
(* A tab keeps its own state and stores all of it at each change, over     *)
(* what another tab has stored.  Only the names of presets are recognized  *)
(* when it is loaded: a custom theme comes back under the default's name.  *)
(***************************************************************************)
EXTENDS Naturals

CONSTANTS
  Tabs,
  Fields, Colors, Toggles,  \* THEME_FIELDS, by type; the others are ranges
  Library,      \* buildThemeLibrary: the values of each preset
  DefaultTheme, \* defaultThemeId
  DefaultValues, \* THEME_DEFAULT_VALUES
  Palettes,     \* PALETTE_PRESETS: colors of some fields
  Found,        \* what may be stored when the first tab is opened
  Texts,        \* payloads that may be pasted; Garbled is none
  MaxChanges,   \* bound
  Custom, BadValue, NothingStored, Garbled

Presets == DOMAIN Library

\* A field has one of two values; a range may be asked for one beyond its largest.
Beyond == 2
Values == [Fields -> {0, 1}]
Given == [Fields -> {0, 1, Beyond, BadValue}]

Names == Presets \cup {Custom}
Modes == {"none", "chaos", "smart"}
Stored == [active : Names, last : Names, values : Given, mode : Modes, made : Names]

\* What a theme is said to be made by is what made it: a preset, to its last value, under
\* its own name.
IsItsPreset(s) == s.made \in Presets => s.values = Library[s.made] /\ s.active = s.made

ASSUME ThemesAssumption ==
  /\ Colors \cup Toggles \subseteq Fields /\ Library \in [Presets -> Values]
  /\ DefaultTheme \in Presets /\ DefaultValues \in Values /\ Custom \notin Presets /\ MaxChanges \in Nat
  /\ \A p \in Palettes : DOMAIN p \subseteq Colors
  /\ Texts \subseteq Given \cup {Garbled}
  /\ \A s \in Found \ {NothingStored} : s \in Stored /\ IsItsPreset(s)

VARIABLES
  tab,     \* the editor of each tab
  storage, \* localStorage
  shared,  \* the text that was exported last
  kept,    \* history: the theme that was last applied and stored, and by what it was made
  changes  \* how often a theme was changed

themeVars == <<tab, storage, shared, kept, changes>>

Closed == [open |-> "no", active |-> DefaultTheme, last |-> DefaultTheme,
           values |-> Library[DefaultTheme], mode |-> "none", made |-> DefaultTheme]

ThemesTypeOK ==
  /\ tab \in [Tabs -> [open : {"no", "yes"}, active : Names, last : Names, values : Values,
                       mode : Modes, made : Names]]
  /\ storage \in Stored \cup {NothingStored} /\ shared \in Values \cup {Garbled}
  /\ kept \in [values : Given, made : Names] /\ changes \in 0..MaxChanges
-----------------------------------------------------------------------------
\* normalizeThemeValues
NormalizeThemeValues(given) ==
  [f \in Fields |->
    IF given[f] \in {0, 1} THEN given[f]
    ELSE IF given[f] = Beyond /\ f \notin Colors \cup Toggles THEN 1 ELSE DefaultValues[f]]

Record(s) == [active |-> s.active, last |-> s.last, values |-> s.values, mode |-> s.mode,
              made |-> s.made]
Keeps(s) == storage' = Record(s) /\ kept' = [values |-> s.values, made |-> s.made]

\* Mutant: only a change of the name is stored.
SaveIfRenamed(s) ==
  IF storage # NothingStored /\ (storage # NothingStored => storage.active = s.active)
  THEN UNCHANGED storage /\ kept' = [values |-> s.values, made |-> s.made]
  ELSE Keeps(s)

\* saveThemeState, which may fail without a word.
SaveThemeState(s) == Keeps(s) \/ UNCHANGED <<storage, kept>>

\* applyTheme, which also puts the values into the page's style and the editor's fields.
WithTheme(s, given, active, made) ==
  [s EXCEPT !.open = "yes", !.active = active, !.values = NormalizeThemeValues(given),
            !.made = made, !.last = IF active = Custom THEN @ ELSE active]

ApplyTheme(t, s, given, active, made) ==
  /\ tab' = [tab EXCEPT ![t] = WithTheme(s, given, active, made)]
  /\ SaveThemeState(WithTheme(s, given, active, made))

Change(t) == tab[t].open = "yes" /\ changes < MaxChanges /\ changes' = changes + 1
-----------------------------------------------------------------------------
ThemesInit ==
  /\ storage \in Found /\ tab = [t \in Tabs |-> Closed] /\ shared = Garbled
  /\ kept = [values |-> IF storage = NothingStored THEN Library[DefaultTheme] ELSE storage.values,
             made |-> IF storage = NothingStored THEN DefaultTheme ELSE storage.made]
  /\ changes = 0

\* initThemeEditor, of a tab that is opened (or loaded anew).
Open(t) ==
  LET known == storage # NothingStored /\ (storage # NothingStored => storage.active \in Presets)
      active == IF known THEN storage.active ELSE DefaultTheme
      s == IF storage = NothingStored THEN [Closed EXCEPT !.active = active, !.last = active]
           ELSE [Closed EXCEPT !.active = active, !.last = storage.last,
                               !.values = NormalizeThemeValues(storage.values),
                               !.mode = storage.mode, !.made = storage.made]
  IN  /\ tab[t].open = "no" /\ UNCHANGED <<shared, changes>>
      /\ IF s.mode = "none" THEN ApplyTheme(t, s, s.values, s.active, s.made)
         ELSE \E values \in Values : ApplyTheme(t, s, values, Custom, Custom)

Close(t) ==
  /\ tab[t].open = "yes" /\ tab' = [tab EXCEPT ![t] = Closed]
  /\ UNCHANGED <<storage, shared, kept, changes>>

\* The select of presets.
Choose(t, name) ==
  /\ name # tab[t].active /\ Change(t) /\ UNCHANGED shared
  /\ IF name = Custom THEN ApplyTheme(t, tab[t], tab[t].values, Custom, Custom)
     ELSE ApplyTheme(t, tab[t], Library[name], name, name)

\* A field of the editor.
TypeIn(t, f, v) ==
  /\ Change(t) /\ UNCHANGED shared
  /\ ApplyTheme(t, tab[t], [tab[t].values EXCEPT ![f] = v], Custom, Custom)

\* themeRandomizeBtn draws all colors, themeRandomAccentBtn some of them, and a palette
\* has some of its own.
Recolor(t, colors) ==
  /\ Change(t) /\ UNCHANGED shared
  /\ LET given == [f \in Fields |-> IF f \in DOMAIN colors THEN colors[f] ELSE tab[t].values[f]]
     IN  ApplyTheme(t, tab[t], given, Custom, Custom)

\* themeResetBtn: back to the preset, or to the last one.
Reset(t) ==
  LET asked == IF tab[t].active = Custom THEN tab[t].last ELSE tab[t].active
      preset == IF asked \in Presets THEN asked ELSE DefaultTheme
  IN  /\ Change(t) /\ UNCHANGED shared
      /\ ApplyTheme(t, tab[t], Library[preset], preset, preset)

\* enableMode: one mode ends the other one, and begins with a new theme.  It is stored
\* before the theme is, and the second of the two may fail alone.
EnableMode(t, mode) ==
  LET s == [tab[t] EXCEPT !.mode = mode]
  IN  /\ Change(t) /\ UNCHANGED shared
      /\ tab[t].mode # mode
      /\ \E values \in Values :
           \/ ApplyTheme(t, s, values, Custom, Custom)
           \/ Keeps(s) /\ tab' = [tab EXCEPT ![t] = WithTheme(s, values, Custom, Custom)]

DisableMode(t) ==
  /\ tab[t].mode # "none" /\ Change(t) /\ UNCHANGED shared
  /\ tab' = [tab EXCEPT ![t].mode = "none"]
  /\ SaveThemeState([tab[t] EXCEPT !.mode = "none"])

\* exportThemeString
Export(t) ==
  /\ tab[t].open = "yes" /\ shared' = tab[t].values
  /\ UNCHANGED <<tab, storage, kept, changes>>

\* importThemeString: what is no payload changes nothing, a part of one is completed.
Import(t, text) ==
  /\ text # Garbled /\ Change(t) /\ UNCHANGED shared
  /\ ApplyTheme(t, tab[t], text, Custom, Custom)

ThemesNext ==
  \E t \in Tabs :
    \/ Open(t) \/ Close(t) \/ Reset(t) \/ DisableMode(t) \/ Export(t)
    \/ \E name \in Names : Choose(t, name)
    \/ \E f \in Fields, v \in {0, 1} : TypeIn(t, f, v)
    \/ \E colors \in [Colors -> {0, 1}] \cup Palettes : Recolor(t, colors)
    \/ \E mode \in Modes \ {"none"} : EnableMode(t, mode)
    \/ \E text \in Texts \cup {shared} : Import(t, text)

ThemesSpec == ThemesInit /\ [][ThemesNext]_themeVars
-----------------------------------------------------------------------------
(* Properties. *)

\* A theme that was made by choosing a preset is that preset to the last value, through
\* other tabs, exports and loads.  Unless a mode draws a new one, a tab that is opened
\* shows the theme that was stored last, by whatever tab.  A custom theme has the name of
\* a preset only since it was loaded.
ThemesAreKept ==
  [][\A t \in Tabs :
       LET before == tab[t]
           now == tab'[t]
       IN  now.open = "yes" =>
             /\ IsItsPreset(now)
             /\ before.open = "no" /\ storage # NothingStored /\ now.mode = "none" =>
                  now.values = NormalizeThemeValues(kept.values) /\ now.made = kept.made
             /\ now.made = Custom /\ now.active # Custom =>
                  before.open = "no" \/ (before.made = Custom /\ before.active = now.active)]_themeVars
=============================================================================
