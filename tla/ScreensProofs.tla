---------------------------- MODULE ScreensProofs ----------------------------
(***************************************************************************)
(* What holds of the page around a run, for any sizes: of its themes, its  *)
(* controls, its tutorial, its achievements, the headless engine and the   *)
(* menus.  Each has its inductive invariant, what it needs, and its        *)
(* theorem.                                                                *)
(***************************************************************************)
EXTENDS Themes, Controls, Tutorial, Achievements, Engine, Menus, WellFoundedInduction, TLAPS

\* A set of numbers has a least one: what stands here for induction.
LEMMA LeastOf ==
  ASSUME NEW S, S \subseteq Nat, S # {}
  PROVE  \E i \in S : \A j \in S : i <= j
<1>. DEFINE less == {p \in Nat \X Nat : p[1] < p[2]}
<1>1. less = OpToRel(<, Nat)
  BY DEF OpToRel
<1>. HIDE DEF less
<1>2. IsWellFoundedOn(less, Nat)
  BY <1>1, NatLessThanWellFounded
<1>3. \E i \in S : \A j \in S : <<j, i>> \notin less
  BY <1>2, WFMin
<1>4. \A i, j \in Nat : <<j, i>> \notin less => i <= j
  BY DEF less
<1>. QED
  BY <1>3, <1>4

-----------------------------------------------------------------------------
(* Themes.  What is stored is what was kept last; and what is stored, and     *)
(* what each tab has, is what its maker says.                                 *)

Editors == [open : {"no", "yes"}, active : Names, last : Names, values : Values,
            mode : Modes, made : Names]

ThemesInv ==
  /\ ThemesTypeOK
  /\ \A t \in Tabs : IsItsPreset(tab[t])
  /\ storage # NothingStored =>
       IsItsPreset(storage) /\ kept = [values |-> storage.values, made |-> storage.made]

\* Normalizing gives a complete theme, and changes none.
LEMMA NormalizingSettles ==
  /\ \A given : NormalizeThemeValues(given) \in Values
  /\ \A values \in Values : NormalizeThemeValues(values) = values
  BY ThemesAssumption DEF NormalizeThemeValues, Values

LEMMA StoringIsSafe ==
  ASSUME ThemesInv, NEW s \in Editors, IsItsPreset(s), SaveThemeState(s) \/ Keeps(s)
  PROVE  /\ storage' \in Stored \cup {NothingStored} /\ kept' \in [values : Given, made : Names]
         /\ storage' # NothingStored =>
              IsItsPreset(storage') /\ kept' = [values |-> storage'.values, made |-> storage'.made]
<1>1. CASE Keeps(s)
  <2>1. Record(s) \in Stored /\ IsItsPreset(Record(s))
    BY DEF Editors, Stored, Record, IsItsPreset, Values, Given
  <2>2. [values |-> s.values, made |-> s.made] \in [values : Given, made : Names]
    BY DEF Editors, Values, Given
  <2>. QED
    BY <1>1, <2>1, <2>2 DEF Keeps, Record
<1>2. CASE UNCHANGED <<storage, kept>>
  BY <1>2 DEF ThemesInv, ThemesTypeOK
<1>. QED
  BY <1>1, <1>2 DEF SaveThemeState

\* A theme that is applied as a preset has to be that preset.
LEMMA ApplyingIsSafe ==
  ASSUME ThemesInv, NEW t \in Tabs, NEW s \in Editors, NEW given, NEW active \in Names,
         NEW made \in Names, shared' \in Values \cup {Garbled}, changes' \in 0..MaxChanges,
         made \in Presets => NormalizeThemeValues(given) = Library[made] /\ active = made,
         ApplyTheme(t, s, given, active, made)
  PROVE  /\ ThemesInv' /\ tab'[t] = WithTheme(s, given, active, made)
         /\ \A u \in Tabs \ {t} : tab'[u] = tab[u]
<1>. DEFINE new == WithTheme(s, given, active, made)
<1>1. new \in Editors /\ IsItsPreset(new)
  BY NormalizingSettles DEF WithTheme, Editors, IsItsPreset
<1>2. tab' = [tab EXCEPT ![t] = new] /\ SaveThemeState(new)
  BY DEF ApplyTheme
<1>. HIDE DEF new
<1>3. /\ storage' \in Stored \cup {NothingStored} /\ kept' \in [values : Given, made : Names]
      /\ storage' # NothingStored =>
           IsItsPreset(storage') /\ kept' = [values |-> storage'.values, made |-> storage'.made]
  BY <1>1, <1>2, StoringIsSafe
<1>4. tab' \in [Tabs -> Editors] /\ \A u \in Tabs : IsItsPreset(tab'[u])
  BY <1>1, <1>2 DEF ThemesInv, ThemesTypeOK, Editors
<1>5. ThemesInv'
  BY <1>3, <1>4 DEF ThemesInv, ThemesTypeOK, Editors, IsItsPreset
<1>6. tab'[t] = new /\ \A u \in Tabs \ {t} : tab'[u] = tab[u]
  BY <1>2 DEF ThemesInv, ThemesTypeOK
<1>. QED
  BY <1>5, <1>6 DEF new

LEMMA ThemesInvInit == ThemesInit => ThemesInv
  BY ThemesAssumption
  DEF ThemesInit, ThemesInv, ThemesTypeOK, Closed, IsItsPreset, Names, Modes, Stored, Values, Given

\* What the property says of one tab.
KeptInTab(t) ==
  LET before == tab[t]
      now == tab'[t]
  IN  now.open = "yes" =>
        /\ IsItsPreset(now)
        /\ before.open = "no" /\ storage # NothingStored /\ now.mode = "none" =>
             now.values = NormalizeThemeValues(kept.values) /\ now.made = kept.made
        /\ now.made = Custom /\ now.active # Custom =>
             before.open = "no" \/ (before.made = Custom /\ before.active = now.active)

\* Where no other tab changes and this one was open before, its name and maker tell.
LEMMA NamesTell ==
  ASSUME ThemesInv, ThemesInv', NEW t \in Tabs, tab[t].open = "yes",
         \A u \in Tabs \ {t} : tab'[u] = tab[u],
         tab'[t].made = Custom /\ tab'[t].active # Custom =>
           tab[t].made = Custom /\ tab[t].active = tab'[t].active
  PROVE  \A u \in Tabs : KeptInTab(u)
  BY DEF ThemesInv, KeptInTab, IsItsPreset

\* A theme that the editor applies to an open tab.
LEMMA EditingIsSafe ==
  ASSUME ThemesInv, NEW t \in Tabs, NEW s \in Editors, NEW given, NEW active \in Names,
         tab[t].open = "yes", UNCHANGED shared, changes' \in 0..MaxChanges,
         active = Custom \/ (active \in Presets /\ given = Library[active]),
         ApplyTheme(t, s, given, active, active)
  PROVE  ThemesInv' /\ \A u \in Tabs : KeptInTab(u)
<1>1. active \in Presets => NormalizeThemeValues(given) = Library[active]
  BY NormalizingSettles, ThemesAssumption
<1>2. shared' \in Values \cup {Garbled}
  BY DEF ThemesInv, ThemesTypeOK
<1>3. /\ ThemesInv' /\ tab'[t] = WithTheme(s, given, active, active)
      /\ \A u \in Tabs \ {t} : tab'[u] = tab[u]
  BY <1>1, <1>2, ApplyingIsSafe
<1>4. tab'[t].active = active
  BY <1>3 DEF WithTheme, ThemesInv, ThemesTypeOK, Editors
<1>5. tab'[t].made = active
  BY <1>3 DEF WithTheme, ThemesInv, ThemesTypeOK, Editors
<1>. QED
  BY <1>3, <1>4, <1>5, NamesTell

LEMMA ThemesInvStep ==
  ThemesInv /\ [ThemesNext]_themeVars => ThemesInv' /\ [\A t \in Tabs : KeptInTab(t)]_themeVars
<1>. SUFFICES ASSUME ThemesInv, [ThemesNext]_themeVars
              PROVE  ThemesInv' /\ [\A t \in Tabs : KeptInTab(t)]_themeVars
  OBVIOUS
<1>. DEFINE Goal == ThemesInv' /\ \A u \in Tabs : KeptInTab(u)
<1>. USE ThemesAssumption
<1>0. \A t \in Tabs : tab[t] \in Editors /\ Closed \in Editors
  BY DEF ThemesInv, ThemesTypeOK, Editors, Closed, Names, Modes
<1>1. ASSUME NEW t \in Tabs, Open(t) PROVE Goal
  <2>. DEFINE known == storage # NothingStored
                          /\ (storage # NothingStored => storage.active \in Presets)
              active == IF known THEN storage.active ELSE DefaultTheme
  <2>0. PICK s : s = IF storage = NothingStored
                     THEN [Closed EXCEPT !.active = active, !.last = active]
                     ELSE [Closed EXCEPT !.active = active, !.last = storage.last,
                                         !.values = NormalizeThemeValues(storage.values),
                                         !.mode = storage.mode, !.made = storage.made]
    OBVIOUS
  <2>1. /\ tab[t].open = "no" /\ UNCHANGED <<shared, changes>>
        /\ IF s.mode = "none" THEN ApplyTheme(t, s, s.values, s.active, s.made)
           ELSE \E values \in Values : ApplyTheme(t, s, values, Custom, Custom)
    BY <1>1, <2>0 DEF Open
  <2>2. s \in Editors
    BY <2>0, NormalizingSettles DEF ThemesInv, ThemesTypeOK, Closed, Editors, Stored, Names, Modes
  <2>3. s.made \in Presets => s.values = Library[s.made] /\ s.active = s.made
    BY <2>0, NormalizingSettles DEF ThemesInv, ThemesTypeOK, Closed, Stored, IsItsPreset
  <2>4. storage # NothingStored =>
          s.values = NormalizeThemeValues(kept.values) /\ s.made = kept.made
    BY <2>2, <2>0 DEF ThemesInv, ThemesTypeOK, Closed, Stored
  <2>. HIDE DEF known, active
  <2>5. CASE s.mode = "none"
    <3>1. s.values \in Values /\ s.active \in Names /\ s.made \in Names
      BY <2>2 DEF Editors
    <3>2. /\ ThemesInv' /\ tab'[t] = WithTheme(s, s.values, s.active, s.made)
          /\ \A u \in Tabs \ {t} : tab'[u] = tab[u]
      BY <2>1, <2>2, <2>3, <2>5, <3>1, NormalizingSettles, ApplyingIsSafe
      DEF ThemesInv, ThemesTypeOK
    <3>3. tab'[t].values = s.values /\ tab'[t].made = s.made
      BY <2>2, <3>1, <3>2, NormalizingSettles DEF WithTheme, Editors, ThemesInv, ThemesTypeOK
    <3>. QED
      BY <2>1, <2>4, <3>2, <3>3 DEF KeptInTab, ThemesInv, ThemesTypeOK, IsItsPreset
  <2>6. ASSUME NEW values \in Values, s.mode # "none", ApplyTheme(t, s, values, Custom, Custom)
        PROVE  Goal
    <3>1. /\ ThemesInv' /\ tab'[t] = WithTheme(s, values, Custom, Custom)
          /\ \A u \in Tabs \ {t} : tab'[u] = tab[u]
      <4>1. shared' \in Values \cup {Garbled} /\ changes' \in 0..MaxChanges
        BY <2>1 DEF ThemesInv, ThemesTypeOK
      <4>2. Custom \in Names /\ Custom \notin Presets
        BY DEF Names
      <4>. QED
        BY <2>2, <2>6, <4>1, <4>2, ApplyingIsSafe
    <3>2. tab'[t].mode = s.mode
      BY <2>2, <3>1 DEF WithTheme, Editors, ThemesInv, ThemesTypeOK
    <3>. QED
      BY <2>1, <2>6, <3>1, <3>2 DEF KeptInTab, ThemesInv, ThemesTypeOK, IsItsPreset
  <2>. QED
    BY <2>1, <2>5, <2>6
<1>2. ASSUME NEW t \in Tabs, Close(t) PROVE Goal
  BY <1>2, NormalizingSettles DEF Close, Closed, ThemesInv, ThemesTypeOK, KeptInTab, IsItsPreset, Names, Modes
<1>3. ASSUME NEW t \in Tabs, Reset(t) PROVE Goal
  <2>1. PICK preset \in Presets : ApplyTheme(t, tab[t], Library[preset], preset, preset)
    BY <1>3 DEF Reset
  <2>. QED
    BY <1>0, <1>3, <2>1, EditingIsSafe DEF Reset, Change, Names, ThemesInv, ThemesTypeOK
<1>4. ASSUME NEW t \in Tabs, DisableMode(t) PROVE Goal
  <2>. DEFINE s == [tab[t] EXCEPT !.mode = "none"]
  <2>1. s \in Editors /\ IsItsPreset(s) /\ s.active = tab[t].active /\ s.made = tab[t].made
    BY <1>0 DEF Editors, Modes, IsItsPreset, ThemesInv
  <2>2. tab' = [tab EXCEPT ![t] = s] /\ SaveThemeState(s)
    BY <1>4 DEF DisableMode
  <2>. HIDE DEF s
  <2>3. tab' \in [Tabs -> Editors] /\ \A u \in Tabs : IsItsPreset(tab'[u])
    BY <2>1, <2>2 DEF ThemesInv, ThemesTypeOK, Editors
  <2>4. ThemesInv'
    BY <1>4, <2>1, <2>2, <2>3, StoringIsSafe
    DEF ThemesInv, ThemesTypeOK, Editors, IsItsPreset, DisableMode, Change
  <2>. QED
    BY <1>4, <2>1, <2>2, <2>4, NamesTell DEF DisableMode, Change, ThemesInv, ThemesTypeOK
<1>5. ASSUME NEW t \in Tabs, Export(t) PROVE Goal
  <2>1. ThemesInv'
    BY <1>5 DEF Export, ThemesInv, ThemesTypeOK, IsItsPreset
  <2>. QED
    BY <1>5, <2>1 DEF Export, KeptInTab, ThemesInv, IsItsPreset
<1>6. ASSUME NEW t \in Tabs, NEW name \in Names, Choose(t, name) PROVE Goal
  <2>1. CASE name = Custom
    BY <1>0, <1>6, <2>1, EditingIsSafe DEF Choose, Change, Names, ThemesInv, ThemesTypeOK
  <2>2. CASE name # Custom
    BY <1>0, <1>6, <2>2, EditingIsSafe DEF Choose, Change, Names, ThemesInv, ThemesTypeOK
  <2>. QED
    BY <2>1, <2>2
<1>7. ASSUME NEW t \in Tabs, NEW f \in Fields, NEW v \in {0, 1}, TypeIn(t, f, v) PROVE Goal
  BY <1>0, <1>7, EditingIsSafe DEF TypeIn, Change, Names, ThemesInv, ThemesTypeOK
<1>8. ASSUME NEW t \in Tabs, NEW colors, Recolor(t, colors) PROVE Goal
  BY <1>0, <1>8, EditingIsSafe DEF Recolor, Change, Names, ThemesInv, ThemesTypeOK
<1>9. ASSUME NEW t \in Tabs, NEW mode \in Modes, EnableMode(t, mode) PROVE Goal
  <2>. DEFINE s == [tab[t] EXCEPT !.mode = mode]
  <2>1. s \in Editors /\ IsItsPreset(s)
    BY <1>0 DEF Editors, IsItsPreset, ThemesInv
  <2>2. tab[t].open = "yes" /\ UNCHANGED shared /\ changes' \in 0..MaxChanges
    BY <1>9 DEF EnableMode, Change, ThemesInv, ThemesTypeOK
  <2>3. PICK values \in Values :
          \/ ApplyTheme(t, s, values, Custom, Custom)
          \/ Keeps(s) /\ tab' = [tab EXCEPT ![t] = WithTheme(s, values, Custom, Custom)]
    BY <1>9 DEF EnableMode
  <2>. HIDE DEF s
  <2>4. CASE ApplyTheme(t, s, values, Custom, Custom)
    BY <2>1, <2>2, <2>4, EditingIsSafe DEF Names
  <2>5. CASE Keeps(s) /\ tab' = [tab EXCEPT ![t] = WithTheme(s, values, Custom, Custom)]
    <3>. DEFINE new == WithTheme(s, values, Custom, Custom)
    <3>1. new \in Editors /\ IsItsPreset(new) /\ new.active = Custom
      BY <2>1, NormalizingSettles DEF WithTheme, Editors, IsItsPreset, Names
    <3>2. tab' = [tab EXCEPT ![t] = new]
      BY <2>5
    <3>. HIDE DEF new
    <3>3. tab' \in [Tabs -> Editors] /\ \A u \in Tabs : IsItsPreset(tab'[u])
      BY <3>1, <3>2 DEF ThemesInv, ThemesTypeOK, Editors
    <3>4. ThemesInv'
      BY <2>1, <2>2, <2>5, <3>3, StoringIsSafe DEF ThemesInv, ThemesTypeOK, Editors, IsItsPreset
    <3>. QED
      BY <2>2, <3>1, <3>2, <3>4, NamesTell DEF ThemesInv, ThemesTypeOK
  <2>. QED
    BY <2>3, <2>4, <2>5
<1>10. ASSUME NEW t \in Tabs, NEW text, Import(t, text) PROVE Goal
  BY <1>0, <1>10, EditingIsSafe DEF Import, Change, Names, ThemesInv, ThemesTypeOK
<1>11. CASE UNCHANGED themeVars
  BY <1>11 DEF themeVars, ThemesInv, ThemesTypeOK, IsItsPreset
<1>. QED
  BY <1>1, <1>2, <1>3, <1>4, <1>5, <1>6, <1>7, <1>8, <1>9, <1>10, <1>11 DEF ThemesNext

\* A preset stays that preset, and what a tab is opened with is what was stored last, for
\* any number of tabs, fields, presets and changes (themes.js: saveThemeState, applyTheme,
\* initThemeEditor).
THEOREM ThemesKept == ThemesSpec => ThemesAreKept
<1>1. ThemesInv /\ [ThemesNext]_themeVars => ThemesInv'
  BY ThemesInvStep
<1>2. ThemesInv /\ [ThemesNext]_themeVars => [\A t \in Tabs : KeptInTab(t)]_themeVars
  BY ThemesInvStep
<1>3. ThemesSpec => [][\A t \in Tabs : KeptInTab(t)]_themeVars
  BY ThemesInvInit, <1>1, <1>2, PTL DEF ThemesSpec
<1>. QED
  BY <1>3 DEF ThemesAreKept, KeptInTab
-----------------------------------------------------------------------------
(* Controls.  As long as all that was loaded was unambiguous, so is what a    *)
(* save was sent with, and what it may put back.                              *)

KeepsApart(s) ==
  save[s].at # "idle" => Unambiguous(save[s].before) /\ Unambiguous(save[s].body)

ControlsInv ==
  /\ ControlsTypeOK /\ HeldKeysAreDown
  /\ whole = "yes" => Unambiguous(binds) /\ \A s \in Saves : KeepsApart(s)

SaveRecords == [at : {"idle", "sent", "served"}, before : Sets, body : Sets,
                reverts : {"no", "yes"}, ok : {"no", "yes"}]

\* The lookup finds one of the actions, if there are any.
LEMMA FirstOfIsOne ==
  ASSUME NEW S, S \subseteq Bindable, S # {}
  PROVE  FirstOf(S) \in S
<1>. DEFINE places == {i \in DOMAIN ActionList : ActionList[i] \in S}
<1>1. DOMAIN ActionList = 1..Len(ActionList) /\ Len(ActionList) \in Nat
  BY ControlsAssumption
<1>2. places \subseteq Nat /\ places # {}
  BY <1>1 DEF Bindable
<1>3. PICK i \in places : \A j \in places : i <= j
  <2>. HIDE DEF places
  <2>. QED
    BY <1>2, LeastOf
<1>4. \A j \in 1..(i - 1) : ActionList[j] \notin S
  BY <1>1, <1>3
<1>. QED
  BY <1>3, <1>4 DEF FirstOf

\* What a press hands on is nothing new, or one of the actions.
LEMMA PressingActs ==
  ASSUME NEW i, BoundTo(i) # {}
  PROVE  FirstOf(BoundTo(i)) \in Bindable
  BY FirstOfIsOne DEF BoundTo

LEMMA MergingGivesSets ==
  \A b : ForPage(b) \in Sets /\ FromServer(b) \in Sets
  BY ControlsAssumption DEF ForPage, FromServer, Merged, Sets, Inputs

\* A swap binds what is asked for, and keeps apart what was apart.
LEMMA SwappingKeepsApart ==
  ASSUME ControlsTypeOK, NEW a \in Bindable, NEW i \in Inputs
  PROVE  /\ RebindWithSwap(a, i) \in Sets
         /\ Unambiguous(binds) => Unambiguous(RebindWithSwap(a, i))
<1>. DEFINE other == FirstOf(BoundTo(i) \ {a})
<1>. USE DEF ControlsTypeOK, Sets
<1>1. RebindWithSwap(a, i) \in Sets
  BY DEF RebindWithSwap
<1>2. CASE BoundTo(i) \ {a} = {}
  <2>1. other \notin Bindable
    BY <1>2, ControlsAssumption DEF FirstOf
  <2>2. \A x \in Bindable \ {a} : binds[x] # i
    BY <1>2 DEF BoundTo
  <2>. QED
    BY <1>1, <2>1, <2>2 DEF RebindWithSwap, Unambiguous
<1>3. CASE BoundTo(i) \ {a} # {}
  <2>1. BoundTo(i) \ {a} \subseteq Bindable
    BY DEF BoundTo
  <2>2. other \in BoundTo(i) \ {a}
    BY <1>3, <2>1, FirstOfIsOne
  <2>3. other \in Bindable /\ other # a /\ binds[other] = i
    BY <2>2 DEF BoundTo
  <2>. QED
    BY <1>1, <2>3 DEF RebindWithSwap, Unambiguous
<1>. QED
  BY <1>1, <1>2, <1>3

\* What was captured is bound, kept and sent.
LEMMA FinishingIsSafe ==
  ASSUME ControlsInv, listening # NoAction, NEW i \in Inputs, Finish(i) \/ Cancel
  PROVE  /\ listening' = NoAction /\ binds' \in Sets
         /\ cookie' \in [Bindable -> Inputs \cup {Missing}] /\ save' \in [Saves -> SaveRecords]
         /\ whole = "yes" => Unambiguous(binds') /\ \A s \in Saves : KeepsApart(s)'
<1>. USE DEF ControlsInv, ControlsTypeOK
<1>1. CASE Cancel
  BY <1>1 DEF Cancel, KeepsApart, SaveRecords
<1>2. CASE Finish(i)
  <2>. PICK new : new = RebindWithSwap(listening, i)
    OBVIOUS
  <2>1. new \in Sets /\ (Unambiguous(binds) => Unambiguous(new))
    BY SwappingKeepsApart
  <2>2. CASE save' = save
    BY <1>2, <2>1, <2>2 DEF Finish, KeepsApart, Sets, SaveRecords
  <2>3. ASSUME NEW s \in Saves, SendBinds(s, binds, new, "yes")
        PROVE  /\ save' \in [Saves -> SaveRecords]
               /\ whole = "yes" => \A r \in Saves : KeepsApart(r)'
    BY <2>1, <2>3 DEF SendBinds, KeepsApart, SaveRecords
  <2>. QED
    BY <1>2, <2>1, <2>2, <2>3 DEF Finish, Sets
<1>. QED
  BY <1>1, <1>2

LEMMA ControlsInvInit == ControlsInit => ControlsInv
  BY ControlsAssumption, MergingGivesSets
  DEF ControlsInit, ControlsInv, ControlsTypeOK, HeldKeysAreDown, KeepsApart, NoSave, Sets, Inputs

LEMMA ControlsInvStep == ControlsInv /\ [ControlsNext]_controlVars => ControlsInv'
<1>. SUFFICES ASSUME ControlsInv, [ControlsNext]_controlVars PROVE ControlsInv'
  OBVIOUS
<1>. USE ControlsAssumption
     DEF ControlsInv, ControlsTypeOK, HeldKeysAreDown, KeepsApart
<1>1. CASE RefreshBinds
  BY <1>1, MergingGivesSets DEF RefreshBinds, Loads, Spend
<1>2. CASE RefreshSignsOut
  BY <1>2 DEF RefreshSignsOut, Spend
<1>3. CASE ReloadPage
  <2>1. \A s \in Saves : save'[s] = NoSave \/ save'[s] = [save[s] EXCEPT !.reverts = "no"]
    BY <1>3 DEF ReloadPage
  <2>2. save' \in [Saves -> SaveRecords] /\ \A s \in Saves : KeepsApart(s) => KeepsApart(s)'
    <3>1. NoSave \in SaveRecords /\ NoSave.at = "idle"
      BY DEF NoSave, SaveRecords, Sets, Inputs
    <3>. QED
      BY <1>3, <2>1, <3>1 DEF ReloadPage, SaveRecords
  <2>. QED
    BY <1>3, <2>2, MergingGivesSets DEF ReloadPage, Loads, Spend, SaveRecords
<1>4. CASE BeginPlay
  BY <1>4 DEF BeginPlay
<1>5. CASE BackToMenu
  BY <1>5 DEF BackToMenu
<1>6. ASSUME NEW s \in Saves, RegisterUser(s) PROVE ControlsInv'
  BY <1>6, MergingGivesSets DEF RegisterUser, Loads, SendBinds, Spend
<1>7. ASSUME NEW s \in Saves, ServeBinds(s) PROVE ControlsInv'
  <2>1. save' \in [Saves -> SaveRecords] /\ \A r \in Saves : KeepsApart(r) => KeepsApart(r)'
    <3>1. PICK ok \in {"no", "yes"} : save' = [save EXCEPT ![s].at = "served", ![s].ok = ok]
      BY <1>7 DEF ServeBinds
    <3>2. PICK r : r = [save[s] EXCEPT !.at = "served", !.ok = ok]
      OBVIOUS
    <3>3. save' = [save EXCEPT ![s] = r]
      BY <3>1, <3>2
    <3>4. r \in SaveRecords /\ r.before = save[s].before /\ r.body = save[s].body
      BY <3>2 DEF SaveRecords
    <3>5. save[s].at # "idle" /\ save \in [Saves -> SaveRecords]
      BY <1>7 DEF ServeBinds, SaveRecords
    <3>. HIDE DEF ControlsInv, ControlsTypeOK, HeldKeysAreDown
    <3>. QED
      BY <3>3, <3>4, <3>5
  <2>2. stored' \in [Bindable -> Inputs \cup {Missing}]
    BY <1>7 DEF ServeBinds, Sets
  <2>. QED
    BY <1>7, <2>1, <2>2 DEF ServeBinds, SaveRecords
<1>8. ASSUME NEW s \in Saves, NEW lost \in BOOLEAN, SaveEnds(s, lost) PROVE ControlsInv'
  <2>1. NoSave \in SaveRecords /\ NoSave.at = "idle"
    BY DEF NoSave, SaveRecords, Sets, Inputs
  <2>2. save' \in [Saves -> SaveRecords] /\ \A r \in Saves : KeepsApart(r) => KeepsApart(r)'
    BY <1>8, <2>1 DEF SaveEnds, SaveRecords
  <2>3. binds' = binds \/ (binds' = save[s].before /\ save[s].at # "idle")
    BY <1>8 DEF SaveEnds
  <2>. QED
    BY <1>8, <2>2, <2>3 DEF SaveEnds, SaveRecords
<1>9. ASSUME NEW a \in Bindable, BeginRebind(a) PROVE ControlsInv'
  BY <1>9 DEF BeginRebind, Spend
<1>10. ASSUME NEW k \in Codes, NEW repeats \in BOOLEAN, CaptureKey(k, repeats) PROVE ControlsInv'
  <2>1. listening # NoAction /\ k \in Inputs /\ (Finish(k) \/ Cancel)
    BY <1>10 DEF CaptureKey, Inputs
  <2>. QED
    BY <1>10, <2>1, FinishingIsSafe DEF CaptureKey, GoesDown, Spend, SaveRecords
<1>11. ASSUME NEW k \in Codes, NEW repeats \in BOOLEAN, NEW ui \in BOOLEAN, KeyDown(k, repeats, ui)
       PROVE  ControlsInv'
  BY <1>11, PressingActs DEF KeyDown, GoesDown, Spend
<1>12. ASSUME NEW k \in Codes, NEW ui \in BOOLEAN, KeyUp(k, ui) PROVE ControlsInv'
  BY <1>12 DEF KeyUp
<1>13. ASSUME NEW b \in Buttons, CaptureButton(b) PROVE ControlsInv'
  <2>1. listening # NoAction /\ b \in Inputs /\ Finish(b)
    BY <1>13 DEF CaptureButton, Inputs
  <2>. QED
    BY <1>13, <2>1, FinishingIsSafe DEF CaptureButton, Spend, SaveRecords
<1>14. ASSUME NEW b \in Buttons, PointerDown(b) PROVE ControlsInv'
  BY <1>14, PressingActs DEF PointerDown, Spend
<1>15. CASE UNCHANGED controlVars
  BY <1>15 DEF controlVars
<1>. QED
  BY <1>1, <1>2, <1>3, <1>4, <1>5, <1>6, <1>7, <1>8, <1>9, <1>10, <1>11, <1>12, <1>13, <1>14,
     <1>15
  DEF ControlsNext

\* No swap, refusal, lost or late answer gives two actions one input, or sends what the
\* server refuses, and what a key did in the menu is not taken for held in a run: for any
\* actions, inputs and sets that may be loaded, and any number of saves (rebindControls.js:
\* applyRebindWithSwap, finish; input.js; server.cjs: validateKeybindsPayload).
THEOREM StaysUsable == ControlsSpec => []ControlsStayUsable
<1>1. ControlsInv => ControlsStayUsable
  BY DEF ControlsInv, ControlsTypeOK, ControlsStayUsable, InputsHaveOneAction, SavesAreAccepted,
         ValidateKeybindsPayload, KeepsApart
<1>. QED
  BY ControlsInvInit, ControlsInvStep, <1>1, PTL DEF ControlsSpec
-----------------------------------------------------------------------------
(* The tutorial.  While it is under way it holds what has to be put back, and *)
(* the speed is changed only where it is held; and a lesson has its scene to  *)
(* come, or what comes of it.                                                 *)

Settings == {"own", "taught", "on", "off"}

Scenes == [goal : {"none", "coming", "passed", "swept"}, stage : {0, 1}, won : BOOLEAN,
           again : BOOLEAN, used : BOOLEAN, safe : BOOLEAN, combo : Nat, lit : BOOLEAN]

HeldBack ==
  /\ cfgBackup = Own
  /\ tasteBackup = chosen \/ late
  /\ speedBackup = "own" \/ (speedBackup = NoBackup /\ tuning["speed"] = "own")

Restored == tuning = Own /\ speedBackup = NoBackup /\ (taste = chosen \/ late)

Learnable ==
  \/ Lesson = "practice" \/ scene.goal \in {"swept", "coming"}
  \/ intro \in {"playing", "done"} \/ scene.won \/ scene.again

TutorialInv ==
  /\ step \in 1..7 /\ scene \in Scenes /\ tuning \in [Parts -> Settings]
  /\ coached \in BOOLEAN /\ late \in BOOLEAN
  /\ IF coached THEN HeldBack /\ Learnable ELSE Restored
  /\ phase = "rest" => intro # "done"

LEMMA LessonsAre ==
  /\ DOMAIN Steps = 1..7
  /\ \A i \in 1..7 : Steps[i] = "practice" <=> i = 7
  BY DEF Steps

LEMMA OpeningsAre ==
  ASSUME NEW lesson
  PROVE  /\ Opening(lesson) \in Scenes
         /\ \/ lesson \in {"skill_phase", "skill_teleport", "practice"}
            \/ Opening(lesson).goal = "coming"
  BY DEF Opening, Blank, Scenes

\* A step that begins, by whichever way, holds back what is to be put back.
LEMMA EnteringIsSafe ==
  ASSUME NEW c \in [Parts -> Settings], NEW i \in 1..7, EnterStep(i, c), cfgBackup' = Own,
         speedBackup = "own" \/ (speedBackup = NoBackup /\ c["speed"] = "own")
  PROVE  /\ step' = i /\ scene' \in Scenes /\ tuning' \in [Parts -> Settings]
         /\ speedBackup' = "own" \/ (speedBackup' = NoBackup /\ tuning'["speed"] = "own")
         /\ Learnable' /\ intro' # "done"
<1>. DEFINE lesson == Steps[i]
            slowed == Slowed(c)
            boosted == Boosted(slowed, lesson)
<1>1. /\ step' = i /\ scene' = Opening(lesson) /\ tuning' = Scored(boosted, lesson)
      /\ intro' = IF lesson \in {"skill_phase", "skill_teleport"} THEN "playing" ELSE "none"
      /\ speedBackup' = IF lesson = "move" THEN slowed["speed"] ELSE NoBackup
  BY DEF EnterStep
<1>2. slowed \in [Parts -> Settings] /\ slowed["speed"] = "own"
  BY TutorialAssumption DEF Slowed, Parts, Settings
<1>. HIDE DEF slowed
<1>3. /\ boosted \in [Parts -> Settings]
      /\ lesson # "move" => boosted["speed"] = "own"
  BY <1>2 DEF Boosted, Parts, Settings
<1>. HIDE DEF boosted, lesson
<1>4. /\ Scored(boosted, lesson) \in [Parts -> Settings]
      /\ Scored(boosted, lesson)["speed"] = boosted["speed"]
  <2>1. \A p \in Parts : cfgBackup'[p] \in Settings
    BY DEF Own, Settings
  <2>2. CASE lesson = "perfect"
    BY <1>3, <2>2 DEF Scored, Parts, Settings
  <2>3. CASE lesson = "practice"
    BY <1>3, <2>1, <2>3 DEF Scored, Parts, Settings
  <2>4. CASE lesson \notin {"perfect", "practice"}
    BY <1>3, <2>4 DEF Scored, Parts, Settings
  <2>. QED
    BY <2>2, <2>3, <2>4
<1>5. speedBackup' = "own" \/ (speedBackup' = NoBackup /\ tuning'["speed"] = "own")
  BY <1>1, <1>2, <1>3, <1>4
<1>6. Learnable'
  <2>1. Lesson' = lesson
    BY <1>1 DEF Lesson, lesson
  <2>2. \/ lesson \in {"skill_phase", "skill_teleport", "practice"}
        \/ scene'.goal = "coming"
    BY <1>1, OpeningsAre
  <2>. QED
    BY <1>1, <2>1, <2>2 DEF Learnable
<1>. QED
  BY <1>1, <1>4, <1>5, <1>6, OpeningsAre

LEMMA TutorialInvInit == TutorialInit => TutorialInv
<1>. SUFFICES ASSUME TutorialInit PROVE TutorialInv
  OBVIOUS
<1>1. Own \in [Parts -> Settings] /\ Blank \in Scenes
  BY DEF Own, Parts, Settings, Blank, Scenes
<1>2. Restored
  BY DEF TutorialInit, Restored
<1>3. step \in 1..7 /\ scene \in Scenes /\ tuning \in [Parts -> Settings] /\ intro # "done"
  BY <1>1 DEF TutorialInit
<1>4. coached = FALSE /\ late = FALSE
  BY DEF TutorialInit
<1>. QED
  BY <1>2, <1>3, <1>4 DEF TutorialInv

\* A step that begins or begins again while the tutorial goes on.
LEMMA InStepIsSafe ==
  ASSUME TutorialInv, coached, coached', chosen' = chosen, late' = late,
         NEW i \in 1..7, InStep(i)
  PROVE  TutorialInv'
<1>1. /\ cfgBackup' = cfgBackup /\ tasteBackup' = tasteBackup /\ EnterStep(i, tuning)
      /\ cfgBackup = Own /\ tuning \in [Parts -> Settings]
      /\ speedBackup = "own" \/ (speedBackup = NoBackup /\ tuning["speed"] = "own")
  BY DEF InStep, TutorialInv, HeldBack
<1>2. /\ step' = i /\ scene' \in Scenes /\ tuning' \in [Parts -> Settings]
      /\ speedBackup' = "own" \/ (speedBackup' = NoBackup /\ tuning'["speed"] = "own")
      /\ Learnable' /\ intro' # "done"
  BY <1>1, EnteringIsSafe
<1>3. HeldBack'
  BY <1>1, <1>2 DEF HeldBack, TutorialInv
<1>. QED
  BY <1>2, <1>3 DEF TutorialInv

\* Where nothing is begun: what is held and put back stays.
LEMMA RemainIsSafe ==
  ASSUME TutorialInv, Remain, UNCHANGED <<coached, chosen, late>>, phase' = phase,
         scene' \in Scenes, coached => Learnable'
  PROVE  TutorialInv'
<1>1. /\ step' = step /\ intro' = intro /\ tuning' = tuning /\ cfgBackup' = cfgBackup
      /\ speedBackup' = speedBackup /\ taste' = taste /\ tasteBackup' = tasteBackup
  BY DEF Remain
<1>2. HeldBack' = HeldBack /\ Restored' = Restored
  BY <1>1 DEF HeldBack, Restored
<1>. QED
  BY <1>1, <1>2 DEF TutorialInv

\* The steps, in a tick.
LEMMA StepsLeaveLearnable ==
  ASSUME TutorialInv, coached, Remain, scene' \in Scenes,
         \/ scene' = scene
         \/ scene'.goal = "coming" \/ scene'.won
         \/ scene'.goal = scene.goal /\ (scene.won => scene'.won) /\ (scene.again => scene'.again)
         \/ scene'.again
         \/ scene'.goal = scene.goal /\ ~scene.won /\ ~scene.again
  PROVE  Learnable'
<1>1. step' = step /\ intro' = intro
  BY DEF Remain
<1>2. Learnable /\ Lesson' = Lesson
  BY <1>1 DEF TutorialInv, Lesson
<1>. QED
  BY <1>1, <1>2 DEF Learnable

LEMMA StepOrbsIsSafe ==
  ASSUME TutorialInv, Lesson # "practice", StepOrbs
  PROVE  Crash \/ StepDone \/ (Remain /\ scene' \in Scenes /\ scene'.goal = "coming")
<1>1. CASE Remain /\ \E combo \in {0, scene.combo} \cup ({scene.combo + 1} \cap 0..NeededCombo - 1) :
                       /\ combo > scene.combo => scene.goal = "coming"
                       /\ scene' = [scene EXCEPT !.combo = combo, !.goal = "coming"]
  <2>1. PICK combo : /\ combo \in {0, scene.combo} \cup ({scene.combo + 1} \cap 0..NeededCombo - 1)
                     /\ scene' = [scene EXCEPT !.combo = combo, !.goal = "coming"]
    BY <1>1
  <2>2. combo \in Nat
    BY <2>1, TutorialAssumption DEF TutorialInv, Scenes
  <2>. QED
    BY <1>1, <2>1, <2>2 DEF TutorialInv, Scenes
<1>. QED
  BY <1>1 DEF StepOrbs

LEMMA GatesAre ==
  ASSUME NEW s0 \in Scenes, NEW s \in AfterGate(s0)
  PROVE  /\ s \in Scenes /\ s.goal \in {s0.goal, "passed"}
         /\ s.won = s0.won /\ s.again = s0.again /\ s.stage = s0.stage
<1>. DEFINE faded == {[s0 EXCEPT !.lit = l] : l \in {FALSE, s0.lit}}
<1>1. ASSUME NEW f \in faded
      PROVE  /\ f \in Scenes /\ f.goal = s0.goal /\ f.won = s0.won /\ f.again = s0.again
             /\ f.stage = s0.stage
  <2>1. PICK l \in BOOLEAN : f = [s0 EXCEPT !.lit = l]
    BY DEF Scenes
  <2>. QED
    BY <2>1 DEF Scenes
<1>2. \/ s \in faded
      \/ \E f \in faded : s = [f EXCEPT !.goal = "passed"]
      \/ s = [s0 EXCEPT !.goal = "passed", !.lit = TRUE]
  BY DEF AfterGate
<1>. HIDE DEF faded
<1>3. ASSUME NEW f \in Scenes, s = [f EXCEPT !.goal = "passed"]
      PROVE  s \in Scenes /\ s.goal = "passed" /\ s.won = f.won /\ s.again = f.again
             /\ s.stage = f.stage
  BY <1>3 DEF Scenes
<1>4. CASE s \in faded
  BY <1>1, <1>4
<1>5. CASE \E f \in faded : s = [f EXCEPT !.goal = "passed"]
  <2>1. PICK f \in faded : s = [f EXCEPT !.goal = "passed"]
    BY <1>5
  <2>2. /\ f \in Scenes /\ f.goal = s0.goal /\ f.won = s0.won /\ f.again = s0.again
        /\ f.stage = s0.stage
    BY <1>1
  <2>. QED
    BY <1>3, <2>1, <2>2
<1>6. CASE s = [s0 EXCEPT !.goal = "passed", !.lit = TRUE]
  BY <1>6 DEF Scenes
<1>. QED
  BY <1>2, <1>4, <1>5, <1>6

LEMMA StepPerfectIsSafe ==
  ASSUME TutorialInv, coached, Lesson # "practice", StepPerfect
  PROVE  Crash \/ StepDone \/ (Remain /\ scene' \in Scenes /\ Learnable')
<1>. SUFFICES ASSUME ~Crash, ~StepDone PROVE Remain /\ scene' \in Scenes /\ Learnable'
  OBVIOUS
<1>1. PICK s \in AfterGate(scene) :
        \/ /\ s.stage = 0 /\ Remain
           /\ scene' = [s EXCEPT !.stage = 1, !.again = FALSE, !.goal = "coming"]
        \/ Remain /\ scene' = [s EXCEPT !.won = TRUE]
        \/ ~s.won /\ TryAgain(s)
  BY DEF StepPerfect
<1>2. /\ s \in Scenes /\ s.goal \in {scene.goal, "passed"}
      /\ s.won = scene.won /\ s.again = scene.again
  BY GatesAre DEF TutorialInv
<1>3. CASE Remain /\ scene' = [s EXCEPT !.stage = 1, !.again = FALSE, !.goal = "coming"]
  <2>1. scene' \in Scenes /\ scene'.goal = "coming"
    BY <1>2, <1>3 DEF Scenes
  <2>. QED
    BY <1>3, <2>1, StepsLeaveLearnable
<1>4. CASE Remain /\ scene' = [s EXCEPT !.won = TRUE]
  <2>1. scene' \in Scenes /\ scene'.won
    BY <1>2, <1>4 DEF Scenes
  <2>. QED
    BY <1>4, <2>1, StepsLeaveLearnable
<1>5. CASE ~s.won /\ TryAgain(s)
  <2>. DEFINE entered == s.again \/ s.goal = "passed"
  <2>1. PICK waits \in {FALSE, entered} :
          scene' = IF entered /\ ~waits THEN [s EXCEPT !.again = FALSE, !.goal = "coming"]
                   ELSE [s EXCEPT !.again = waits]
    BY <1>5 DEF TryAgain
  <2>2. Remain
    BY <1>5 DEF TryAgain
  <2>3. entered \in BOOLEAN /\ waits \in BOOLEAN
    BY <1>2 DEF Scenes
  <2>4. CASE entered /\ ~waits
    <3>1. scene' = [s EXCEPT !.again = FALSE, !.goal = "coming"]
      BY <2>1, <2>4
    <3>2. scene' \in Scenes /\ scene'.goal = "coming"
      BY <1>2, <3>1 DEF Scenes
    <3>. QED
      BY <2>2, <3>2, StepsLeaveLearnable
  <2>5. CASE entered /\ waits
    <3>1. scene' = [s EXCEPT !.again = waits]
      BY <2>1, <2>5
    <3>2. scene' \in Scenes /\ scene'.again = waits
      BY <1>2, <2>3, <3>1 DEF Scenes
    <3>. QED
      BY <2>2, <2>5, <3>2, StepsLeaveLearnable
  <2>6. CASE ~entered
    <3>1. scene' = [s EXCEPT !.again = waits]
      BY <2>1, <2>6
    <3>2. scene' \in Scenes /\ scene'.goal = s.goal
      BY <1>2, <2>3, <3>1 DEF Scenes
    <3>3. s.goal = scene.goal /\ ~scene.won /\ ~scene.again
      BY <1>2, <1>5, <2>6
    <3>. QED
      BY <2>2, <3>2, <3>3, StepsLeaveLearnable
  <2>. QED
    BY <2>4, <2>5, <2>6
<1>. QED
  BY <1>1, <1>3, <1>4, <1>5

LEMMA StepSkillPhaseIsSafe ==
  ASSUME TutorialInv, coached, Lesson # "practice", StepSkillPhase
  PROVE  Crash \/ StepDone \/ (Remain /\ scene' \in Scenes /\ Learnable')
<1>. SUFFICES ASSUME ~Crash, ~StepDone PROVE Remain /\ scene' \in Scenes /\ Learnable'
  OBVIOUS
<1>. DEFINE safe == scene.safe \/ "phase" \in Applied
<1>1. safe \in BOOLEAN /\ scene \in Scenes
  BY DEF TutorialInv, Scenes
<1>2. PICK goal \in {scene.goal} \cup {g \in {"passed"} : safe /\ scene.goal = "coming"},
           still \in {FALSE, safe} :
        scene' = [scene EXCEPT !.goal = goal, !.safe = still, !.used = @ \/ safe,
                               !.won = @ \/ (goal = "passed" /\ (scene.used \/ safe))]
  BY DEF StepSkillPhase
<1>3. Remain
  BY DEF StepSkillPhase
<1>. HIDE DEF safe
<1>4. /\ still \in BOOLEAN /\ (scene.used \/ safe) \in BOOLEAN
      /\ (scene.won \/ (goal = "passed" /\ (scene.used \/ safe))) \in BOOLEAN
      /\ goal \in {"none", "coming", "passed", "swept"}
  BY <1>1, <1>2 DEF Scenes
<1>5. /\ scene' \in Scenes /\ scene'.goal = goal /\ scene'.again = scene.again
      /\ scene'.won = (scene.won \/ (goal = "passed" /\ (scene.used \/ safe)))
  BY <1>1, <1>2, <1>4 DEF Scenes
<1>6. CASE goal = scene.goal
  BY <1>3, <1>5, <1>6, StepsLeaveLearnable
<1>7. CASE goal # scene.goal
  <2>1. goal = "passed" /\ safe
    BY <1>2, <1>7
  <2>2. scene'.won
    BY <1>5, <2>1
  <2>. QED
    BY <1>3, <1>5, <2>2, StepsLeaveLearnable
<1>. QED
  BY <1>6, <1>7

LEMMA StepSkillTeleportIsSafe ==
  ASSUME TutorialInv, coached, Lesson # "practice", StepSkillTeleport
  PROVE  Crash \/ StepDone \/ (Remain /\ scene' \in Scenes /\ Learnable')
<1>. SUFFICES ASSUME ~Crash, ~StepDone PROVE Remain /\ scene' \in Scenes /\ Learnable'
  OBVIOUS
<1>. DEFINE used == scene.used \/ "teleport" \in Applied
<1>1. used \in BOOLEAN /\ scene \in Scenes
  BY DEF TutorialInv, Scenes
<1>2. Remain /\ scene' = [scene EXCEPT !.used = used]
  BY DEF StepSkillTeleport
<1>. HIDE DEF used
<1>3. /\ scene' \in Scenes /\ scene'.goal = scene.goal /\ scene'.won = scene.won
      /\ scene'.again = scene.again
  BY <1>1, <1>2 DEF Scenes
<1>. QED
  BY <1>2, <1>3, StepsLeaveLearnable

LEMMA StepDashDestroyIsSafe ==
  ASSUME TutorialInv, coached, Lesson # "practice", StepDashDestroy
  PROVE  Crash \/ StepDone \/ (Remain /\ scene' \in Scenes /\ Learnable')
<1>1. scene \in Scenes
  BY DEF TutorialInv
<1>2. [scene EXCEPT !.goal = "passed", !.won = TRUE] \in Scenes
      /\ [scene EXCEPT !.goal = "passed", !.won = TRUE].won = TRUE
  BY <1>1 DEF Scenes
<1>3. CASE Remain /\ scene' = scene
  BY <1>1, <1>3, StepsLeaveLearnable
<1>4. CASE Remain /\ scene' = [scene EXCEPT !.goal = "passed", !.won = TRUE]
  BY <1>2, <1>4, StepsLeaveLearnable
<1>. QED
  BY <1>3, <1>4 DEF StepDashDestroy

LEMMA TickIsSafe == ASSUME TutorialInv, Tick PROVE TutorialInv'
<1>1. /\ coached' = coached /\ chosen' = chosen /\ late' = late /\ phase' = phase
      /\ step \in 1..7 /\ scene \in Scenes
  BY DEF Tick, TutorialInv
<1>2. CASE Remain /\ UNCHANGED scene
  <2>1. step' = step /\ intro' = intro
    BY <1>2 DEF Remain
  <2>2. Learnable' = Learnable
    BY <1>2, <2>1 DEF Learnable, Lesson
  <2>3. coached => Learnable'
    BY <2>2 DEF TutorialInv
  <2>4. scene' \in Scenes
    BY <1>1, <1>2
  <2>. QED
    BY <1>1, <1>2, <2>3, <2>4, RemainIsSafe
<1>3. CASE ~coached
  BY <1>2, <1>3 DEF Tick
<1>4. CASE coached /\ ~(Remain /\ UNCHANGED scene)
  <2>1. /\ \/ StepMove \/ StepOrbs \/ StepPerfect \/ StepSkillPhase \/ StepSkillTeleport
           \/ StepDashDestroy \/ Crash
        /\ Lesson = "practice" => Crash
    BY <1>4 DEF Tick
  <2>2. CASE Crash
    <3>1. InStep(step)
      BY <2>2 DEF Crash
    <3>. QED
      BY <1>1, <1>4, <3>1, InStepIsSafe
  <2>3. CASE Lesson # "practice" /\ StepDone
    <3>1. step + 1 \in 1..7
      BY <1>1, <2>3, LessonsAre DEF Lesson
    <3>2. InStep(step + 1)
      BY <2>3 DEF StepDone
    <3>. QED
      BY <1>1, <1>4, <3>1, <3>2, InStepIsSafe
  <2>4. CASE Remain /\ scene' \in Scenes /\ Learnable'
    BY <1>1, <2>4, RemainIsSafe
  <2>5. CASE Lesson # "practice" /\ StepOrbs
    <3>1. Remain /\ scene' \in Scenes /\ scene'.goal = "coming" => Learnable'
      BY <1>4, StepsLeaveLearnable
    <3>. QED
      BY <2>2, <2>3, <2>4, <2>5, <3>1, StepOrbsIsSafe
  <2>6. CASE Lesson # "practice" /\ StepMove
    BY <1>4, <2>2, <2>3, <2>6 DEF StepMove
  <2>. QED
    BY <1>4, <2>1, <2>2, <2>3, <2>4, <2>5, <2>6, StepPerfectIsSafe, StepSkillPhaseIsSafe,
       StepSkillTeleportIsSafe, StepDashDestroyIsSafe
<1>. QED
  BY <1>2, <1>3, <1>4

LEMMA StartingIsSafe == ASSUME TutorialInv, StartTutorial PROVE TutorialInv'
<1>1. coached' = TRUE /\ chosen' = chosen /\ late' = late /\ phase' = phase
  BY DEF StartTutorial
<1>2. CASE coached
  <2>1. Remain /\ scene' = scene
    BY <1>2 DEF StartTutorial
  <2>2. step' = step /\ intro' = intro
    BY <2>1 DEF Remain
  <2>3. Learnable' = Learnable
    BY <2>1, <2>2 DEF Learnable, Lesson
  <2>4. Learnable' /\ scene' \in Scenes /\ coached' = coached
    BY <1>1, <1>2, <2>1, <2>3 DEF TutorialInv
  <2>. QED
    BY <1>1, <2>1, <2>4, RemainIsSafe
<1>3. CASE ~coached
  <2>1. cfgBackup' = tuning /\ tasteBackup' = taste /\ EnterStep(1, Taught)
    BY <1>3 DEF StartTutorial
  <2>2. Restored /\ late \in BOOLEAN
    BY <1>3 DEF TutorialInv
  <2>3. Taught \in [Parts -> Settings] /\ Taught["speed"] = "own"
    BY DEF Taught, Own, Parts, Settings
  <2>4. cfgBackup' = Own /\ speedBackup = NoBackup /\ (tasteBackup' = chosen' \/ late')
    BY <1>1, <2>1, <2>2 DEF Restored
  <2>5. 1 \in 1..7
    OBVIOUS
  <2>6. /\ step' = 1 /\ scene' \in Scenes /\ tuning' \in [Parts -> Settings]
        /\ speedBackup' = "own" \/ (speedBackup' = NoBackup /\ tuning'["speed"] = "own")
        /\ Learnable' /\ intro' # "done"
    BY <2>1, <2>3, <2>4, <2>5, EnteringIsSafe
  <2>7. HeldBack'
    BY <2>4, <2>6 DEF HeldBack
  <2>8. step' \in 1..7 /\ late' \in BOOLEAN
    BY <1>1, <2>2, <2>5, <2>6
  <2>. QED
    BY <1>1, <2>6, <2>7, <2>8 DEF TutorialInv
<1>. QED
  BY <1>2, <1>3 DEF TutorialInv

LEMMA StoppingIsSafe == ASSUME TutorialInv, ToMenu PROVE TutorialInv'
<1>1. StopTutorial /\ chosen' = chosen /\ late' = late /\ phase' = phase
  BY DEF ToMenu
<1>2. CASE coached
  <2>1. /\ coached' = FALSE /\ intro' = "none" /\ scene' = Blank /\ taste' = tasteBackup
        /\ speedBackup' = NoBackup /\ step' = step
        /\ tuning' = [cfgBackup EXCEPT !["speed"] = Slowed(tuning)["speed"]]
    BY <1>1, <1>2 DEF StopTutorial
  <2>2. HeldBack /\ tuning \in [Parts -> Settings]
    BY <1>2 DEF TutorialInv
  <2>3. Slowed(tuning)["speed"] = "own"
    BY <2>2, TutorialAssumption DEF HeldBack, Slowed, Parts
  <2>4. tuning' = Own /\ Own \in [Parts -> Settings]
    BY <2>1, <2>2, <2>3 DEF HeldBack, Own, Parts, Settings
  <2>5. taste' = chosen' \/ late'
    BY <1>1, <2>1, <2>2 DEF HeldBack
  <2>6. Restored'
    BY <2>1, <2>4, <2>5 DEF Restored
  <2>7. Blank \in Scenes
    BY DEF Blank, Scenes
  <2>8. step' \in 1..7 /\ late' \in BOOLEAN
    BY <1>1, <2>1 DEF TutorialInv
  <2>. QED
    BY <2>1, <2>4, <2>6, <2>7, <2>8 DEF TutorialInv
<1>3. CASE ~coached
  <2>1. coached' = coached /\ scene' = scene /\ Remain
    BY <1>1, <1>3 DEF StopTutorial
  <2>2. scene' \in Scenes
    BY <2>1 DEF TutorialInv
  <2>. QED
    BY <1>1, <1>3, <2>1, <2>2, RemainIsSafe
<1>. QED
  BY <1>2, <1>3 DEF TutorialInv

\* Where the lesson and its scene stay as they are.
LEMMA SameLesson ==
  ASSUME TutorialInv, UNCHANGED <<step, intro, scene, coached>>
  PROVE  scene' \in Scenes /\ (coached => Learnable') /\ step' \in 1..7
<1>1. Learnable' = Learnable
  BY DEF Learnable, Lesson
<1>. QED
  BY <1>1 DEF TutorialInv

LEMMA PressingIsSafe ==
  ASSUME TutorialInv, (\E button \in Buttoned : Press(button)) \/ \E skill \in Skills : UseSkill(skill)
  PROVE  TutorialInv'
<1>1. /\ coached' = coached /\ chosen' = chosen /\ late' = late /\ phase' = phase
      /\ scene' = scene /\ Remain
  BY DEF Press, UseSkill
<1>2. step' = step /\ intro' = intro
  BY <1>1 DEF Remain
<1>3. scene' \in Scenes /\ (coached => Learnable')
  BY <1>1, <1>2, SameLesson
<1>. QED
  BY <1>1, <1>3, RemainIsSafe

\* A run that is started in the tutorial takes its scene away.
LEMMA SweepingIsSafe == ASSUME TutorialInv, StartGame PROVE TutorialInv'
<1>1. /\ coached' = coached /\ chosen' = chosen /\ late' = late /\ phase' = phase /\ Remain
      /\ scene' = IF coached THEN Swept(scene) ELSE scene
  BY DEF StartGame
<1>2. step' = step /\ intro' = intro
  BY <1>1 DEF Remain
<1>3. scene \in Scenes
  BY DEF TutorialInv
<1>4. CASE ~coached
  BY <1>1, <1>3, <1>4, RemainIsSafe
<1>5. CASE coached
  <2>. DEFINE goal == IF scene.goal = "coming" /\ Lesson \notin {"move", "skill_teleport"}
                      THEN "swept" ELSE scene.goal
  <2>1. scene' = [scene EXCEPT !.combo = 0, !.lit = FALSE, !.safe = FALSE, !.goal = goal]
    BY <1>1, <1>3, <1>5 DEF Swept
  <2>2. goal \in {"none", "coming", "passed", "swept"} /\ goal \in {scene.goal, "swept"}
    BY <1>3 DEF Scenes
  <2>. HIDE DEF goal
  <2>3. /\ scene' \in Scenes /\ scene'.goal = goal /\ scene'.won = scene.won
        /\ scene'.again = scene.again
    BY <1>3, <2>1, <2>2 DEF Scenes
  <2>4. Learnable /\ Lesson' = Lesson
    BY <1>2, <1>5 DEF TutorialInv, Lesson
  <2>5. Learnable'
    BY <1>2, <2>2, <2>3, <2>4 DEF Learnable
  <2>. QED
    BY <1>1, <2>3, <2>5, RemainIsSafe
<1>. QED
  BY <1>4, <1>5

\* The settings that come during the tutorial.
LEMMA ArrivingIsSafe == ASSUME TutorialInv, ProfileArrives PROVE TutorialInv'
<1>1. /\ taste' = chosen' /\ late' = coached /\ coached' = coached /\ phase' = phase
      /\ scene' = scene /\ step' = step /\ intro' = intro /\ tuning' = tuning
      /\ cfgBackup' = cfgBackup /\ speedBackup' = speedBackup /\ tasteBackup' = tasteBackup
  BY DEF ProfileArrives
<1>2. scene' \in Scenes /\ (coached => Learnable') /\ step' \in 1..7
  BY <1>1, SameLesson
<1>3. coached => HeldBack'
  BY <1>1 DEF TutorialInv, HeldBack
<1>4. ~coached => Restored'
  BY <1>1 DEF TutorialInv, Restored
<1>. QED
  BY <1>1, <1>2, <1>3, <1>4 DEF TutorialInv

LEMMA TurningIsSafe ==
  ASSUME TutorialInv, NEW to \in {step - 1, step + 1}, Turn(to)
  PROVE  TutorialInv'
<1>1. /\ coached /\ coached' = coached /\ chosen' = chosen /\ late' = late /\ InStep(to)
      /\ to \in 1..7
  BY LessonsAre DEF Turn
<1>. QED
  BY <1>1, InStepIsSafe

LEMMA FramesAreSafe == ASSUME TutorialInv, BeginFrame \/ EndFrame PROVE TutorialInv'
<1>1. /\ coached' = coached /\ late' = late /\ chosen' = chosen /\ step' = step
      /\ tuning' = tuning /\ cfgBackup' = cfgBackup /\ speedBackup' = speedBackup
      /\ taste' = taste /\ tasteBackup' = tasteBackup
  BY DEF BeginFrame, EndFrame
<1>2. HeldBack' = HeldBack /\ Restored' = Restored
  BY <1>1 DEF HeldBack, Restored
<1>3. scene \in Scenes /\ (coached => Learnable) /\ step' \in 1..7 /\ tuning' \in [Parts -> Settings]
  BY <1>1 DEF TutorialInv
<1>4. ASSUME scene' \in Scenes, coached => Learnable', phase' = "rest" => intro' # "done"
      PROVE  TutorialInv'
  BY <1>1, <1>2, <1>3, <1>4 DEF TutorialInv
<1>5. CASE BeginFrame
  <2>1. scene' = scene /\ phase' = "ticks"
    BY <1>5 DEF BeginFrame
  <2>2. coached => \/ intro = "none" /\ intro' = "none"
                   \/ intro' \in {"playing", "done"}
    BY <1>5 DEF BeginFrame
  <2>3. coached => Learnable'
    BY <1>1, <1>3, <2>1, <2>2 DEF Learnable, Lesson
  <2>. QED
    BY <1>3, <1>4, <2>1, <2>3
<1>6. CASE EndFrame
  <2>1. CASE intro = "done"
    <3>1. intro' = "none" /\ scene' = [scene EXCEPT !.goal = "coming"]
      BY <1>6, <2>1 DEF EndFrame
    <3>2. scene' \in Scenes /\ scene'.goal = "coming"
      BY <1>3, <3>1 DEF Scenes
    <3>3. Learnable'
      BY <3>2 DEF Learnable
    <3>. QED
      BY <1>4, <3>1, <3>2, <3>3
  <2>2. CASE intro # "done"
    <3>1. intro' = intro /\ scene' = scene
      BY <1>6, <2>2 DEF EndFrame
    <3>. QED
      BY <1>1, <1>4, <2>2, <3>1, SameLesson
  <2>. QED
    BY <2>1, <2>2
<1>. QED
  BY <1>5, <1>6

\* However the tutorial was left, the game is the player's again; and a lesson that has not
\* been learned can still be, for any number of orbs to collect, and any settings
\* (tutorial.js: stop, _enterStep, and its steps; main.js: startTutorial, toMenu).
THEOREM LetsGo == TutorialSpec => []TutorialLetsGo
<1>1. TutorialInv /\ [TutorialNext]_tutorialVars => TutorialInv'
  <2>. SUFFICES ASSUME TutorialInv, [TutorialNext]_tutorialVars PROVE TutorialInv'
    OBVIOUS
  <2>1. CASE UNCHANGED tutorialVars
    <3>1. /\ Remain /\ coached' = coached /\ chosen' = chosen /\ late' = late /\ phase' = phase
          /\ scene' = scene /\ step' = step /\ intro' = intro
      BY <2>1 DEF tutorialVars, Remain
    <3>. QED
      BY <3>1, SameLesson, RemainIsSafe
  <2>2. CASE TutorialNext
    BY <2>2, PressingIsSafe, StartingIsSafe, SweepingIsSafe, StoppingIsSafe, ArrivingIsSafe,
       TurningIsSafe, FramesAreSafe, TickIsSafe DEF TutorialNext
  <2>. QED
    BY <2>1, <2>2
<1>2. TutorialInv => TutorialLetsGo
  BY DEF TutorialInv, TutorialLetsGo, TutorialLeavesNothing, NeverStuck, Restored, Learnable
<1>. QED
  BY TutorialInvInit, <1>1, <1>2, PTL DEF TutorialSpec
-----------------------------------------------------------------------------
(* Achievements.  What the account holds is what its recorded runs sum up to, *)
(* the page holds no more than the account, and what it announced is due      *)
(* once its run is recorded.                                                  *)

IsRequirement(r) == DOMAIN r \subseteq RequirementKeys /\ \A k \in DOMAIN r : r[k] \in Nat
AreDefinitions(d) == \A id \in DOMAIN d : IsRequirement(d[id])
KnownStats == [Statistics -> Nat]
SentStats == {s \in [Statistics -> Nat \cup {Unknown}] : s["score"] \in Nat}
AccountTotals == [score : Nat, runs : Nat, best : Nat]

LEMMA KeysAre ==
  /\ \A k \in DOMAIN Upper : k \notin DOMAIN Lower
  /\ \A k \in DOMAIN Lower : Lower[k] \in Statistics
  /\ \A k \in DOMAIN Lifetime : Lifetime[k] \in Totals
  /\ \A k \in DOMAIN Upper : Upper[k] \in Statistics
  /\ "score" \in Statistics /\ "score" \in Bests /\ "score" \in Totals /\ "runs" \in Totals
  /\ "orbs" \in Statistics
  /\ Totals \subseteq Statistics \cup {"runs"} /\ "runs" \notin Statistics
  /\ Bests \subseteq Statistics
<1>1. Totals = {"score", "runs", "runTime", "orbs", "perfects", "pipes", "broken"} \cup SkillUses
  BY DEF Totals, Lifetime, SkillUses
<1>. QED
  BY <1>1 DEF Upper, Lower, Lifetime, Statistics, Bests, SkillUses

(* Sums over the runs: the recursive function exists, and there is one.  The least  *)
(* place at which it would fail shows both.                                         *)

Adds(f, x, n) == f = [i \in 0..n |-> IF i = 0 THEN 0 ELSE f[i - 1] + x[i]]

LEMMA SumsAreUnique ==
  ASSUME NEW x, NEW n \in Nat, NEW f, NEW g, Adds(f, x, n), Adds(g, x, n)
  PROVE  f = g
<1>. DEFINE S == {i \in 0..n : f[i] # g[i]}
<1>1. \A i \in 0..n : f[i] = (IF i = 0 THEN 0 ELSE f[i - 1] + x[i])
  BY DEF Adds
<1>2. \A i \in 0..n : g[i] = (IF i = 0 THEN 0 ELSE g[i - 1] + x[i])
  BY DEF Adds
<1>3. ASSUME S # {} PROVE FALSE
  <2>1. S \subseteq Nat
    OBVIOUS
  <2>2. PICK i \in S : \A j \in S : i <= j
    <3>. HIDE DEF S
    <3>. QED
      BY <1>3, <2>1, LeastOf
  <2>3. i # 0
    BY <1>1, <1>2
  <2>4. i - 1 \in 0..n /\ i - 1 \notin S
    BY <2>2, <2>3
  <2>5. f[i - 1] = g[i - 1]
    BY <2>4
  <2>. QED
    BY <1>1, <1>2, <2>3, <2>5
<1>4. \A i \in 0..n : f[i] = g[i]
  BY <1>3
<1>5. f = [i \in 0..n |-> f[i]] /\ g = [i \in 0..n |-> g[i]]
  BY DEF Adds
<1>. QED
  BY <1>4, <1>5

LEMMA SumsExist ==
  ASSUME NEW x, NEW n \in Nat
  PROVE  \E f : Adds(f, x, n)
<1>. DEFINE S == {m \in Nat : \A f : ~Adds(f, x, m)}
<1>1. ASSUME S # {} PROVE FALSE
  <2>1. S \subseteq Nat
    OBVIOUS
  <2>2. PICK m \in S : \A j \in S : m <= j
    <3>. HIDE DEF S
    <3>. QED
      BY <1>1, <2>1, LeastOf
  <2>3. CASE m = 0
    <3>1. Adds([i \in 0..0 |-> 0], x, 0)
      BY DEF Adds
    <3>. QED
      BY <2>3, <3>1
  <2>4. CASE m # 0
    <3>1. m - 1 \in Nat /\ m - 1 \notin S
      BY <2>2, <2>4
    <3>2. PICK f : Adds(f, x, m - 1)
      BY <3>1
    <3>. DEFINE g == [i \in 0..m |-> IF i = m THEN f[m - 1] + x[m] ELSE f[i]]
    <3>3. \A i \in 0..(m - 1) : f[i] = (IF i = 0 THEN 0 ELSE f[i - 1] + x[i])
      BY <3>2 DEF Adds
    <3>4. \A i \in 0..m : g[i] = (IF i = 0 THEN 0 ELSE g[i - 1] + x[i])
      BY <2>4, <3>1, <3>3
    <3>5. Adds(g, x, m)
      BY <3>4 DEF Adds
    <3>. QED
      BY <2>2, <3>5
  <2>. QED
    BY <2>3, <2>4
<1>. QED
  BY <1>1

LEMMA TallyIs ==
  ASSUME NEW runs, NEW k, NEW n \in Nat
  PROVE  \E f : Adds(f, [i \in 1..n |-> Counts(runs[i].stats, k)], n) /\ Tally(runs, k, n) = f[n]
<1>. DEFINE x == [i \in 1..n |-> Counts(runs[i].stats, k)]
            g == CHOOSE tally : tally = [i \in 0..n |->
                   IF i = 0 THEN 0 ELSE tally[i - 1] + Counts(runs[i].stats, k)]
<1>1. PICK f : Adds(f, x, n)
  BY SumsExist
<1>2. f = [i \in 0..n |-> IF i = 0 THEN 0 ELSE f[i - 1] + Counts(runs[i].stats, k)]
  <2>1. f = [i \in 0..n |-> IF i = 0 THEN 0 ELSE f[i - 1] + x[i]]
    <3>. HIDE DEF x
    <3>. QED
      BY <1>1 DEF Adds
  <2>2. \A i \in 0..n : i # 0 => x[i] = Counts(runs[i].stats, k)
    OBVIOUS
  <2>. HIDE DEF x
  <2>. QED
    BY <2>1, <2>2
<1>3. g = [i \in 0..n |-> IF i = 0 THEN 0 ELSE g[i - 1] + Counts(runs[i].stats, k)]
  BY <1>2
<1>. HIDE DEF g
<1>4. Adds(g, x, n)
  BY <1>3 DEF Adds
<1>5. Tally(runs, k, n) = g[n]
  BY DEF Tally, g
<1>. QED
  BY <1>4, <1>5

\* A sum is over the runs it is asked for, and a further run adds its own share.
LEMMA TallyOfNone ==
  ASSUME NEW runs, NEW k
  PROVE  Tally(runs, k, 0) = 0
<1>1. PICK f : Adds(f, [i \in 1..0 |-> Counts(runs[i].stats, k)], 0) /\ Tally(runs, k, 0) = f[0]
  BY TallyIs
<1>. QED
  BY <1>1 DEF Adds

LEMMA TallyOfSame ==
  ASSUME NEW runs, NEW others, NEW k, NEW n \in Nat, \A i \in 1..n : runs[i] = others[i]
  PROVE  Tally(runs, k, n) = Tally(others, k, n)
<1>. DEFINE x == [i \in 1..n |-> Counts(runs[i].stats, k)]
            y == [i \in 1..n |-> Counts(others[i].stats, k)]
<1>1. x = y
  OBVIOUS
<1>2. PICK f : Adds(f, x, n) /\ Tally(runs, k, n) = f[n]
  BY TallyIs
<1>3. PICK g : Adds(g, y, n) /\ Tally(others, k, n) = g[n]
  BY TallyIs
<1>. HIDE DEF x, y
<1>. QED
  BY <1>1, <1>2, <1>3, SumsAreUnique

LEMMA TallyOfMore ==
  ASSUME NEW runs, NEW k, NEW n \in Nat
  PROVE  Tally(runs, k, n + 1) = Tally(runs, k, n) + Counts(runs[n + 1].stats, k)
<1>. DEFINE x == [i \in 1..n |-> Counts(runs[i].stats, k)]
            y == [i \in 1..(n + 1) |-> Counts(runs[i].stats, k)]
<1>1. PICK f : Adds(f, x, n) /\ Tally(runs, k, n) = f[n]
  BY TallyIs
<1>2. PICK g : Adds(g, y, n + 1) /\ Tally(runs, k, n + 1) = g[n + 1]
  BY TallyIs
<1>. DEFINE h == [i \in 0..n |-> g[i]]
<1>3. \A i \in 0..(n + 1) : g[i] = (IF i = 0 THEN 0 ELSE g[i - 1] + y[i])
  <2>. HIDE DEF y
  <2>. QED
    BY <1>2 DEF Adds
<1>4. Adds(h, x, n)
  <2>1. \A i \in 1..n : x[i] = y[i]
    OBVIOUS
  <2>. HIDE DEF x, y
  <2>2. \A i \in 0..n : g[i] = (IF i = 0 THEN 0 ELSE h[i - 1] + x[i])
    BY <1>3, <2>1
  <2>. QED
    BY <2>2 DEF Adds
<1>5. h = f
  <2>. HIDE DEF h, x
  <2>. QED
    BY <1>1, <1>4, SumsAreUnique
<1>6. y[n + 1] = Counts(runs[n + 1].stats, k) /\ h[n] = g[n]
  OBVIOUS
<1>7. g[n + 1] = g[n] + y[n + 1]
  <2>. HIDE DEF y, h
  <2>. QED
    BY <1>3
<1>. HIDE DEF y, h
<1>. QED
  BY <1>1, <1>2, <1>5, <1>6, <1>7

(* Progress. *)

IsState(g) == (\A k \in Bests : g.best[k] \in Nat) /\ (\A k \in Totals : g.total[k] \in Nat)
NoMore(g, h) ==
  /\ g.unlocked \subseteq h.unlocked
  /\ \A k \in Totals : g.total[k] <= h.total[k]
  /\ g.best["score"] <= h.best["score"]
NoMoreCoins(a, b) == a.score <= b.score /\ a.runs <= b.runs /\ a.best <= b.best
NoMoreStats(s, t) == \A k \in Statistics : s[k] <= t[k]

LEMMA ClampingIs ==
  /\ \A m \in Nat : Clamped(m) \in Nat /\ Clamped(m) <= Cap /\ Clamped(m) <= m
                    /\ Clamped(Clamped(m)) = Clamped(m)
  /\ \A m, n \in Nat : m <= n => Clamped(m) <= Clamped(n)
  /\ \A m, n \in Nat : Clamped(Clamped(m) + Clamped(n)) = Clamped(m + n)
  /\ Clamped(0) = 0 /\ Clamped(1) = 1
<1>. Cap \in Nat \ {0}
  BY AchievementsAssumption
<1>1. \A m \in Nat : Clamped(m) \in Nat /\ Clamped(m) <= Cap /\ Clamped(m) <= m
                    /\ Clamped(Clamped(m)) = Clamped(m)
  BY DEF Clamped
<1>2. \A m, n \in Nat : m <= n => Clamped(m) <= Clamped(n)
  BY DEF Clamped
<1>3. \A m, n \in Nat : Clamped(Clamped(m) + Clamped(n)) = Clamped(m + n)
  BY DEF Clamped
<1>4. Clamped(0) = 0 /\ Clamped(1) = 1
  BY DEF Clamped
<1>. QED
  BY <1>1, <1>2, <1>3, <1>4

LEMMA AmountIs ==
  ASSUME NEW s \in SentStats, NEW k \in Statistics
  PROVE  /\ Amount(s, k) \in Nat /\ Amount(s, k) <= Cap
         /\ Counts(s, k) \in Nat /\ Amount(s, k) = Clamped(Counts(s, k))
         /\ s[k] # Unknown => s[k] \in Nat /\ Amount(s, k) = Clamped(s[k])
<1>1. "runs" \notin Statistics
  BY KeysAre
<1>2. s[k] \in Nat \cup {Unknown}
  BY DEF SentStats
<1>. QED
  BY <1>1, <1>2, ClampingIs DEF Amount, Counts

LEMMA KnownAreSent == \A s \in KnownStats : s \in SentStats /\ \A k \in Statistics : s[k] \in Nat /\ s[k] # Unknown
  BY AchievementsAssumption, KeysAre DEF KnownStats, SentStats

LEMMA ProgressIs ==
  ASSUME NEW g, NEW s, NEW a
  PROVE  /\ Progress(g, s, a).best["score"] =
              Larger(Amount(s, "score"), Larger(Clamped(a.best), g.best["score"]))
         /\ \A k \in Bests \ {"score"} : Progress(g, s, a).best[k] = Larger(g.best[k], Amount(s, k))
         /\ Progress(g, s, a).total["score"] = Clamped(Clamped(a.score) + Amount(s, "score"))
         /\ Progress(g, s, a).total["runs"] = Clamped(Clamped(a.runs) + 1)
         /\ \A k \in Totals \ {"score", "runs"} :
              Progress(g, s, a).total[k] = Clamped(g.total[k] + Amount(s, k))
  BY KeysAre DEF Progress

LEMMA ProgressIsState ==
  ASSUME NEW g, IsState(g), NEW s \in SentStats, NEW a \in AccountTotals
  PROVE  IsState(Progress(g, s, a))
<1>1. \A k \in Statistics : Amount(s, k) \in Nat
  BY AmountIs
<1>2. /\ Clamped(a.best) \in Nat /\ Clamped(a.score) \in Nat /\ Clamped(a.runs) \in Nat
      /\ \A m \in Nat : Clamped(m) \in Nat
  BY ClampingIs DEF AccountTotals
<1>3. \A k \in Bests \ {"score"} : Progress(g, s, a).best[k] \in Nat
  BY <1>1, ProgressIs, KeysAre DEF IsState, Larger
<1>4. Progress(g, s, a).best["score"] \in Nat
  <2>1. g.best["score"] \in Nat /\ Amount(s, "score") \in Nat
    BY <1>1, KeysAre DEF IsState
  <2>2. Larger(Amount(s, "score"), Larger(Clamped(a.best), g.best["score"])) \in Nat
    BY <1>2, <2>1 DEF Larger
  <2>. QED
    BY <2>2, ProgressIs
<1>5. ASSUME NEW k \in Totals \ {"score", "runs"} PROVE Progress(g, s, a).total[k] \in Nat
  <2>1. k \in Statistics /\ g.total[k] \in Nat
    BY KeysAre DEF IsState
  <2>2. g.total[k] + Amount(s, k) \in Nat
    BY <1>1, <2>1
  <2>. QED
    BY <1>2, <2>2, ProgressIs
<1>6. Progress(g, s, a).total["score"] \in Nat /\ Progress(g, s, a).total["runs"] \in Nat
  <2>1. Clamped(a.score) + Amount(s, "score") \in Nat /\ Clamped(a.runs) + 1 \in Nat
    BY <1>1, <1>2, KeysAre
  <2>. QED
    BY <1>2, <2>1, ProgressIs
<1>. QED
  BY <1>3, <1>4, <1>5, <1>6 DEF IsState

\* More of everything gives no less progress.
LEMMA ProgressGrows ==
  ASSUME NEW g, NEW h, IsState(g), IsState(h), NoMore(g, h),
         NEW s \in KnownStats, NEW t \in KnownStats, NoMoreStats(s, t),
         NEW a \in AccountTotals, NEW b \in AccountTotals, NoMoreCoins(a, b)
  PROVE  /\ Progress(g, s, a).best["score"] <= Progress(h, t, b).best["score"]
         /\ \A k \in Totals : Progress(g, s, a).total[k] <= Progress(h, t, b).total[k]
<1>1. s \in SentStats /\ t \in SentStats
  BY KnownAreSent
<1>2. \A k \in Statistics : Amount(s, k) \in Nat /\ Amount(t, k) \in Nat /\ Amount(s, k) <= Amount(t, k)
  <2>. TAKE k \in Statistics
  <2>1. s[k] \in Nat /\ t[k] \in Nat /\ s[k] <= t[k] /\ s[k] # Unknown /\ t[k] # Unknown
    BY KnownAreSent DEF NoMoreStats
  <2>2. Amount(s, k) = Clamped(s[k]) /\ Amount(t, k) = Clamped(t[k])
    BY <2>1 DEF Amount
  <2>. QED
    BY <2>1, <2>2, ClampingIs
<1>3. /\ Clamped(a.best) \in Nat /\ Clamped(b.best) \in Nat /\ Clamped(a.best) <= Clamped(b.best)
      /\ Clamped(a.score) \in Nat /\ Clamped(b.score) \in Nat /\ Clamped(a.score) <= Clamped(b.score)
      /\ Clamped(a.runs) \in Nat /\ Clamped(b.runs) \in Nat /\ Clamped(a.runs) <= Clamped(b.runs)
  BY ClampingIs DEF AccountTotals, NoMoreCoins
<1>4. g.best["score"] \in Nat /\ h.best["score"] \in Nat /\ g.best["score"] <= h.best["score"]
  BY KeysAre DEF IsState, NoMore
<1>5. Progress(g, s, a).best["score"] <= Progress(h, t, b).best["score"]
  BY <1>2, <1>3, <1>4, ProgressIs, KeysAre DEF Larger
<1>6. Progress(g, s, a).total["score"] <= Progress(h, t, b).total["score"]
  <2>1. PICK m \in Nat, n \in Nat :
          m = Clamped(a.score) + Amount(s, "score") /\ n = Clamped(b.score) + Amount(t, "score")
    BY <1>2, <1>3, KeysAre
  <2>2. m <= n
    BY <1>2, <1>3, <2>1, KeysAre
  <2>3. Clamped(m) <= Clamped(n)
    BY <2>1, <2>2, ClampingIs
  <2>. QED
    BY <2>1, <2>3, ProgressIs
<1>7. Progress(g, s, a).total["runs"] <= Progress(h, t, b).total["runs"]
  <2>1. PICK m \in Nat, n \in Nat : m = Clamped(a.runs) + 1 /\ n = Clamped(b.runs) + 1
    BY <1>3
  <2>2. Clamped(m) <= Clamped(n)
    BY <1>3, <2>1, ClampingIs
  <2>. QED
    BY <2>1, <2>2, ProgressIs
<1>8. ASSUME NEW k \in Totals \ {"score", "runs"}
      PROVE  Progress(g, s, a).total[k] <= Progress(h, t, b).total[k]
  <2>1. k \in Statistics /\ g.total[k] \in Nat /\ h.total[k] \in Nat /\ g.total[k] <= h.total[k]
    BY KeysAre DEF IsState, NoMore
  <2>2. g.total[k] + Amount(s, k) <= h.total[k] + Amount(t, k)
    BY <2>1, <1>2
  <2>3. Clamped(g.total[k] + Amount(s, k)) <= Clamped(h.total[k] + Amount(t, k))
    <3>1. PICK m \in Nat, n \in Nat : m = g.total[k] + Amount(s, k) /\ n = h.total[k] + Amount(t, k)
      BY <2>1, <1>2
    <3>2. Clamped(m) <= Clamped(n)
      BY <2>2, <3>1, ClampingIs
    <3>. QED
      BY <3>1, <3>2
  <2>. QED
    BY <2>3, ProgressIs
<1>. QED
  BY <1>5, <1>6, <1>7, <1>8

\* A part of a requirement by its kind.
LEMMA MetIs ==
  ASSUME NEW r, NEW k \in RequirementKeys, NEW s, NEW best, NEW total
  PROVE  /\ k \in DOMAIN Upper =>
              Met(r, k, s, best, total) = (s[Upper[k]] # Unknown /\ s[Upper[k]] <= r[k])
         /\ k \in DOMAIN Lower /\ DOMAIN r = {"minScore"} =>
              Met(r, k, s, best, total) = Reaches(best["score"], r[k])
         /\ k \in DOMAIN Lower /\ DOMAIN r # {"minScore"} =>
              Met(r, k, s, best, total) = Reaches(s[Lower[k]], r[k])
         /\ k \notin DOMAIN Upper /\ k \notin DOMAIN Lower =>
              k \in DOMAIN Lifetime /\ Met(r, k, s, best, total) = (total[Lifetime[k]] >= r[k])
<1>1. k \in DOMAIN Upper => k \notin DOMAIN Lower
  BY KeysAre
<1>2. k \notin DOMAIN Upper /\ k \notin DOMAIN Lower => k \in DOMAIN Lifetime
  BY DEF RequirementKeys
<1>3. CASE k \in DOMAIN Upper
  BY <1>1, <1>3 DEF Met
<1>4. CASE k \in DOMAIN Lower
  <2>1. k \notin DOMAIN Upper
    BY <1>1, <1>4
  <2>. QED
    BY <1>4, <2>1 DEF Met, Reaches
<1>5. CASE k \notin DOMAIN Upper /\ k \notin DOMAIN Lower
  BY <1>2, <1>5 DEF Met
<1>. QED
  BY <1>3, <1>4, <1>5

LEMMA MetGrows ==
  ASSUME NEW g, NEW h, IsState(g), IsState(h), NoMore(g, h),
         NEW s \in KnownStats, NEW t \in KnownStats, NoMoreStats(s, t),
         NEW a \in AccountTotals, NEW b \in AccountTotals, NoMoreCoins(a, b),
         NEW r, IsRequirement(r), NEW k \in DOMAIN r, k \notin DOMAIN Upper,
         Met(r, k, s, Progress(g, s, a).best, Progress(g, s, a).total)
  PROVE  Met(r, k, t, Progress(h, t, b).best, Progress(h, t, b).total)
<1>1. k \in RequirementKeys /\ r[k] \in Nat
  BY DEF IsRequirement
<1>2. IsState(Progress(g, s, a)) /\ IsState(Progress(h, t, b))
  BY ProgressIsState, KnownAreSent
<1>3. PICK p, q : p = Progress(g, s, a) /\ q = Progress(h, t, b)
  OBVIOUS
<1>4. /\ p.best["score"] \in Nat /\ q.best["score"] \in Nat /\ p.best["score"] <= q.best["score"]
      /\ \A j \in Totals : p.total[j] \in Nat /\ q.total[j] \in Nat /\ p.total[j] <= q.total[j]
  BY <1>2, <1>3, ProgressGrows, KeysAre DEF IsState
<1>5. Met(r, k, s, p.best, p.total)
  BY <1>3
<1>6. CASE k \in DOMAIN Lower /\ DOMAIN r = {"minScore"}
  <2>1. Reaches(p.best["score"], r[k])
    BY <1>1, <1>5, <1>6, MetIs
  <2>2. q.best["score"] # Unknown
    BY <1>4, AchievementsAssumption
  <2>3. Clamped(p.best["score"]) <= Clamped(q.best["score"])
        /\ Clamped(p.best["score"]) \in Nat /\ Clamped(q.best["score"]) \in Nat
    BY <1>4, ClampingIs
  <2>4. Reaches(q.best["score"], r[k])
    BY <1>1, <2>1, <2>2, <2>3 DEF Reaches
  <2>. QED
    BY <1>1, <1>3, <1>6, <2>4, MetIs
<1>7. CASE k \in DOMAIN Lower /\ DOMAIN r # {"minScore"}
  <2>1. Reaches(s[Lower[k]], r[k])
    BY <1>1, <1>5, <1>7, MetIs
  <2>2. s[Lower[k]] \in Nat /\ t[Lower[k]] \in Nat /\ s[Lower[k]] <= t[Lower[k]] /\ t[Lower[k]] # Unknown
    BY <1>7, KeysAre, KnownAreSent DEF NoMoreStats
  <2>3. Clamped(s[Lower[k]]) <= Clamped(t[Lower[k]])
        /\ Clamped(s[Lower[k]]) \in Nat /\ Clamped(t[Lower[k]]) \in Nat
    BY <2>2, ClampingIs
  <2>4. Reaches(t[Lower[k]], r[k])
    BY <1>1, <2>1, <2>2, <2>3 DEF Reaches
  <2>. QED
    BY <1>1, <1>3, <1>7, <2>4, MetIs
<1>8. CASE k \notin DOMAIN Lower
  <2>1. k \in DOMAIN Lifetime /\ Met(r, k, s, p.best, p.total) = (p.total[Lifetime[k]] >= r[k])
        /\ Met(r, k, t, q.best, q.total) = (q.total[Lifetime[k]] >= r[k])
    <3>1. k \in DOMAIN Lifetime
      BY <1>1, <1>8 DEF RequirementKeys
    <3>2. Met(r, k, s, p.best, p.total) = (p.total[Lifetime[k]] >= r[k])
      BY <1>8 DEF Met
    <3>3. Met(r, k, t, q.best, q.total) = (q.total[Lifetime[k]] >= r[k])
      BY <1>8 DEF Met
    <3>. QED
      BY <3>1, <3>2, <3>3
  <2>2. p.total[Lifetime[k]] >= r[k]
    BY <1>5, <2>1
  <2>3. q.total[Lifetime[k]] >= r[k]
    BY <1>1, <1>4, <2>1, <2>2, KeysAre
  <2>. QED
    BY <1>3, <2>1, <2>3
<1>. QED
  BY <1>6, <1>7, <1>8

LEMMA EvaluateIs ==
  ASSUME NEW g, NEW s, NEW a, NEW d
  PROVE  /\ Evaluate(g, s, a, d).best = Progress(g, s, a).best
         /\ Evaluate(g, s, a, d).total = Progress(g, s, a).total
         /\ Evaluate(g, s, a, d).unlocked = g.unlocked \cup
              {id \in DOMAIN d : \A k \in DOMAIN d[id] :
                 Met(d[id], k, s, Progress(g, s, a).best, Progress(g, s, a).total)}
  BY DEF Evaluate

(* The invariant. *)

ServerTypes ==
  /\ AreDefinitions(Definitions(served)) /\ record \in AccountTotals /\ IsState(earned)
  /\ \E S : history \in Seq(S)
  /\ \A n \in 1..Len(history) :
       history[n].stats \in SentStats /\ AreDefinitions(history[n].definitions)

Uploads == {"run", "stats", "announced", "status", "unlocked", "definitions", "state", "record"}

PageTypes ==
  /\ AreDefinitions(net.definitions) /\ IsState(net.state) /\ IsState(base)
  /\ totals \in AccountTotals /\ stats \in KnownStats
  /\ \A q \in sent :
       /\ DOMAIN q = Uploads /\ q = [f \in Uploads |-> q[f]]
       /\ q.status = "sent" => q.stats \in KnownStats
       /\ q.status = "recorded" => /\ q.stats \in SentStats /\ AreDefinitions(q.definitions)
                                   /\ IsState(q.state) /\ q.record \in AccountTotals

\* The account's progress is what its runs sum up to, as far as it is counted.
AccountInv ==
  /\ record.score = Tally(history, "score", Len(history))
  /\ record.runs = Tally(history, "runs", Len(history))
  /\ \A k \in Totals : earned.total[k] = Clamped(Tally(history, k, Len(history)))
                       /\ Tally(history, k, Len(history)) \in Nat
  /\ earned.best["score"] = Clamped(record.best)
  /\ \A n \in 1..Len(history) : history[n].stats["score"] <= record.best
  /\ record.best # 0 => \E n \in 1..Len(history) : history[n].stats["score"] = record.best

\* The page knows no more of the account than there is.
BehindInv ==
  /\ NoMore(net.state, earned) /\ NoMore(base, earned) /\ NoMoreCoins(totals, record)
  /\ \A q \in sent : q.status = "recorded" =>
       NoMore(q.state, earned) /\ NoMoreCoins(q.record, record) /\ q.unlocked \subseteq earned.unlocked

\* What was announced of a run is unlocked, or will be by that run.
Due(a, s, g, b) ==
  /\ IsRequirement(a.requirement)
  /\ DOMAIN a.requirement \cap DOMAIN Upper = {} =>
       \/ a.id \in g.unlocked
       \/ \A k \in DOMAIN a.requirement :
            Met(a.requirement, k, s, Progress(g, s, b).best, Progress(g, s, b).total)

AnnouncedInv ==
  /\ \A a \in announced : Due(a, stats, earned, record)
  /\ \A q \in sent : q.status = "sent" => \A a \in q.announced : Due(a, q.stats, earned, record)
  /\ AnnouncedIsUnlocked

AchievementsInv ==
  ServerTypes /\ PageTypes /\ AccountInv /\ UnlockedIsEarned /\ BehindInv /\ AnnouncedInv

LEMMA AchievementsInvInit == AchievementsInit => AchievementsInv
<1>. SUFFICES ASSUME AchievementsInit PROVE AchievementsInv
  OBVIOUS
<1>. USE DEF AchievementsInit
<1>1. IsState(Fresh) /\ Fresh.best["score"] = 0 /\ Fresh.unlocked = {} /\ \A k \in Totals : Fresh.total[k] = 0
  BY KeysAre DEF Fresh, IsState
<1>2. AreDefinitions(Catalog)
  BY AchievementsAssumption DEF AreDefinitions, IsRequirement
<1>3. history = <<>> /\ Len(history) = 0 /\ history \in Seq({})
  OBVIOUS
<1>4. NoStats \in KnownStats
  BY DEF NoStats, KnownStats
<1>5. record = [score |-> 0, runs |-> 0, best |-> 0] /\ record \in AccountTotals
  BY DEF AccountTotals
<1>6. \A k : Tally(history, k, Len(history)) = 0
  BY <1>3, TallyOfNone
<1>7. ServerTypes
  BY <1>1, <1>2, <1>3, <1>5 DEF ServerTypes, Definitions
<1>8. PageTypes
  BY <1>1, <1>2, <1>4, <1>5 DEF PageTypes
<1>9. AccountInv
  <2>1. earned = Fresh /\ record.score = 0 /\ record.runs = 0 /\ record.best = 0
    BY <1>5
  <2>2. Clamped(0) = 0
    BY ClampingIs
  <2>. QED
    BY <1>1, <1>3, <1>6, <2>1, <2>2 DEF AccountInv
<1>10. UnlockedIsEarned
  BY <1>1, <1>3 DEF UnlockedIsEarned
<1>11. BehindInv
  <2>1. NoMore(Fresh, Fresh) /\ NoMoreCoins(record, record)
    BY <1>1, <1>5 DEF NoMore, NoMoreCoins
  <2>. QED
    BY <2>1 DEF BehindInv
<1>12. AnnouncedInv
  BY DEF AnnouncedInv, AnnouncedIsUnlocked
<1>. QED
  BY <1>7, <1>8, <1>9, <1>10, <1>11, <1>12 DEF AchievementsInv

\* Nothing that was announced is due any less when the run goes on and the account grows.
LEMMA DueStays ==
  ASSUME NEW a, NEW s \in KnownStats, NEW t \in KnownStats, NoMoreStats(s, t),
         NEW g, NEW h, IsState(g), IsState(h), NoMore(g, h),
         NEW b \in AccountTotals, NEW c \in AccountTotals, NoMoreCoins(b, c), Due(a, s, g, b)
  PROVE  Due(a, t, h, c)
<1>1. IsRequirement(a.requirement)
  BY DEF Due
<1>2. PICK r : r = a.requirement
  OBVIOUS
<1>3. IsRequirement(r)
  BY <1>1, <1>2
<1>4. CASE a.id \in g.unlocked
  BY <1>1, <1>4 DEF Due, NoMore
<1>5. CASE DOMAIN r \cap DOMAIN Upper # {}
  BY <1>1, <1>2, <1>5 DEF Due
<1>6. CASE DOMAIN r \cap DOMAIN Upper = {} /\ a.id \notin g.unlocked
  <2>1. \A k \in DOMAIN r : Met(r, k, s, Progress(g, s, b).best, Progress(g, s, b).total)
    BY <1>2, <1>6 DEF Due
  <2>2. ASSUME NEW k \in DOMAIN r PROVE Met(r, k, t, Progress(h, t, c).best, Progress(h, t, c).total)
    BY <1>3, <1>6, <2>1, MetGrows
  <2>. QED
    BY <1>1, <1>2, <2>2 DEF Due
<1>. QED
  BY <1>4, <1>5, <1>6

LEMMA SameIsNoMore ==
  /\ \A g : IsState(g) => NoMore(g, g)
  /\ \A b \in AccountTotals : NoMoreCoins(b, b)
  /\ \A s \in KnownStats : NoMoreStats(s, s)
  BY KeysAre DEF IsState, NoMore, AccountTotals, NoMoreCoins, KnownStats, NoMoreStats

\* What does not touch the account or the runs that are being sent.
LEMMA AccountStays ==
  ASSUME AchievementsInv, UNCHANGED <<earned, record, history>>
  PROVE  AccountInv' /\ UnlockedIsEarned'
  BY DEF AchievementsInv, AccountInv, UnlockedIsEarned

LEMMA StartingARunIsSafe == ASSUME AchievementsInv, StartRun PROVE AchievementsInv'
<1>. USE DEF StartRun
<1>1. NoStats \in KnownStats
  BY DEF NoStats, KnownStats
<1>2. AccountInv' /\ UnlockedIsEarned'
  BY AccountStays
<1>3. ServerTypes'
  BY DEF AchievementsInv, ServerTypes
<1>4. PageTypes'
  BY <1>1 DEF AchievementsInv, PageTypes
<1>5. BehindInv'
  BY DEF AchievementsInv, BehindInv
<1>6. AnnouncedInv'
  BY DEF AchievementsInv, AnnouncedInv, AnnouncedIsUnlocked, Due
<1>. QED
  BY <1>2, <1>3, <1>4, <1>5, <1>6 DEF AchievementsInv

LEMMA PlayingIsSafe ==
  ASSUME AchievementsInv, NEW k \in Counted, NEW points \in 0..1, Happens(k, points)
  PROVE  AchievementsInv'
<1>. USE DEF Happens
<1>1. stats \in KnownStats /\ k \in Statistics /\ k # "score" /\ "score" \in Statistics
  BY AchievementsAssumption, KeysAre DEF AchievementsInv, PageTypes
<1>2. stats' \in KnownStats /\ NoMoreStats(stats, stats')
  BY <1>1 DEF KnownStats, NoMoreStats
<1>3. AccountInv' /\ UnlockedIsEarned'
  BY AccountStays
<1>4. ServerTypes'
  BY DEF AchievementsInv, ServerTypes
<1>5. PageTypes'
  BY <1>2 DEF AchievementsInv, PageTypes
<1>6. BehindInv'
  BY DEF AchievementsInv, BehindInv
<1>8. ASSUME NEW a \in announced PROVE Due(a, stats', earned, record)
  <2>1. PICK s, t : s = stats /\ t = stats'
    OBVIOUS
  <2>2. PICK g, b : g = earned /\ b = record
    OBVIOUS
  <2>3. s \in KnownStats /\ t \in KnownStats /\ NoMoreStats(s, t)
    BY <1>1, <1>2, <2>1
  <2>4. IsState(g) /\ NoMore(g, g) /\ b \in AccountTotals /\ NoMoreCoins(b, b)
    BY <2>2, SameIsNoMore DEF AchievementsInv, ServerTypes
  <2>5. Due(a, s, g, b)
    BY <2>1, <2>2 DEF AchievementsInv, AnnouncedInv
  <2>6. Due(a, t, g, b)
    BY <2>3, <2>4, <2>5, DueStays
  <2>. QED
    BY <2>1, <2>2, <2>6
<1>9. AnnouncedInv'
  BY <1>8 DEF AchievementsInv, AnnouncedInv, AnnouncedIsUnlocked
<1>. QED
  BY <1>3, <1>4, <1>5, <1>6, <1>9 DEF AchievementsInv

LEMMA CheckingIsSafe == ASSUME AchievementsInv, CheckRun PROVE AchievementsInv'
<1>. USE DEF CheckRun
<1>1. AccountInv' /\ UnlockedIsEarned'
  BY AccountStays
<1>2. ServerTypes' /\ PageTypes' /\ BehindInv'
  BY DEF AchievementsInv, ServerTypes, PageTypes, BehindInv
<1>3. ASSUME NEW a \in announced', a \notin announced PROVE Due(a, stats, earned, record)
  <2>. DEFINE p == Progress(base, stats, totals)
  <2>1. PICK i \in DOMAIN net.definitions :
          /\ a = [id |-> i, requirement |-> net.definitions[i]]
          /\ i \in Evaluate(base, stats, totals, net.definitions).unlocked \ base.unlocked
    BY <1>3, EvaluateIs DEF EvaluateSoFar
  <2>2. PICK r : r = net.definitions[i] /\ IsRequirement(r)
    BY DEF AchievementsInv, PageTypes, AreDefinitions
  <2>3. \A k \in DOMAIN r : Met(r, k, stats, p.best, p.total)
    BY <2>1, <2>2, EvaluateIs
  <2>. HIDE DEF p
  <2>4. /\ IsState(base) /\ IsState(earned) /\ NoMore(base, earned) /\ stats \in KnownStats
        /\ NoMoreStats(stats, stats)
        /\ totals \in AccountTotals /\ record \in AccountTotals /\ NoMoreCoins(totals, record)
    BY SameIsNoMore DEF AchievementsInv, PageTypes, ServerTypes, BehindInv
  <2>5. ASSUME NEW k \in DOMAIN r, k \notin DOMAIN Upper
        PROVE  Met(r, k, stats, Progress(earned, stats, record).best, Progress(earned, stats, record).total)
    <3>1. PICK g, h, s, b, c : g = base /\ h = earned /\ s = stats /\ b = totals /\ c = record
      OBVIOUS
    <3>2. Met(r, k, s, Progress(g, s, b).best, Progress(g, s, b).total)
      BY <2>3, <3>1 DEF p
    <3>3. /\ IsState(g) /\ IsState(h) /\ NoMore(g, h) /\ s \in KnownStats /\ NoMoreStats(s, s)
          /\ b \in AccountTotals /\ c \in AccountTotals /\ NoMoreCoins(b, c)
      BY <2>4, <3>1
    <3>4. Met(r, k, s, Progress(h, s, c).best, Progress(h, s, c).total)
      BY <2>2, <2>5, <3>2, <3>3, MetGrows
    <3>. QED
      BY <3>1, <3>4
  <2>6. a.requirement = r
    BY <2>1, <2>2
  <2>. QED
    BY <2>2, <2>5, <2>6 DEF Due
<1>4. AnnouncedInv'
  <2>1. \A a \in announced' : Due(a, stats, earned, record)
    BY <1>3 DEF AchievementsInv, AnnouncedInv
  <2>. QED
    BY <2>1 DEF AchievementsInv, AnnouncedInv, AnnouncedIsUnlocked
<1>. QED
  BY <1>1, <1>2, <1>4 DEF AchievementsInv

LEMMA EndingARunIsSafe == ASSUME AchievementsInv, GameOver PROVE AchievementsInv'
<1>. USE DEF GameOver
<1>1. AccountInv' /\ UnlockedIsEarned'
  BY AccountStays
<1>. DEFINE o == [run |-> begun, stats |-> stats, announced |-> announced, status |-> "sent",
                  unlocked |-> {}, definitions |-> served, state |-> Fresh, record |-> record]
<1>2. PICK over : /\ sent' = sent \cup {over} /\ over.status = "sent" /\ over.stats = stats
                  /\ over.announced = announced
                  /\ DOMAIN over = Uploads /\ over = [f \in Uploads |-> over[f]]
  <2>1. sent' = sent \cup {o} /\ o.status = "sent" /\ o.stats = stats /\ o.announced = announced
        /\ DOMAIN o = Uploads /\ o = [f \in Uploads |-> o[f]]
    BY DEF Uploads
  <2>. HIDE DEF o
  <2>. QED
    BY <2>1
<1>3. ServerTypes'
  BY DEF AchievementsInv, ServerTypes
<1>4. PageTypes'
  BY <1>2 DEF AchievementsInv, PageTypes
<1>5. BehindInv'
  BY <1>2 DEF AchievementsInv, BehindInv
<1>6. AnnouncedInv'
  <2>1. (\A a \in announced : Due(a, stats, earned, record)) /\ AnnouncedIsUnlocked
        /\ \A q \in sent : q.status = "sent" => \A a \in q.announced : Due(a, q.stats, earned, record)
    BY DEF AchievementsInv, AnnouncedInv
  <2>2. ASSUME NEW q \in sent', q.status = "sent", NEW a \in q.announced
        PROVE  Due(a, q.stats, earned, record)
    BY <1>2, <2>1, <2>2
  <2>3. AnnouncedIsUnlocked'
    BY <1>2, <2>1 DEF AnnouncedIsUnlocked
  <2>. QED
    BY <2>1, <2>2, <2>3 DEF AnnouncedInv
<1>. QED
  BY <1>1, <1>3, <1>4, <1>5, <1>6 DEF AchievementsInv

LEMMA EditingDefinitionsIsSafe ==
  ASSUME AchievementsInv, NEW raw \in Edits, Edit(raw)
  PROVE  AchievementsInv'
<1>. USE DEF Edit
<1>1. AccountInv' /\ UnlockedIsEarned'
  BY AccountStays
<1>2. AreDefinitions(Definitions(served'))
  <2>1. AreDefinitions(Catalog)
    BY AchievementsAssumption DEF AreDefinitions, IsRequirement
  <2>2. CASE raw = None
    BY <2>1, <2>2 DEF Definitions
  <2>3. CASE raw # None /\ Valid(raw)
    <3>1. ASSUME NEW i \in DOMAIN raw PROVE IsRequirement(raw[i].requirement)
      BY <2>3, AchievementsAssumption DEF Valid, IsRequirement
    <3>2. ASSUME NEW id \in DOMAIN Normalized(raw) PROVE IsRequirement(Normalized(raw)[id])
      <4>1. \E i \in DOMAIN raw : raw[i].id = id
        BY DEF Normalized
      <4>2. PICK i \in DOMAIN raw : Normalized(raw)[id] = raw[i].requirement
        BY <4>1 DEF Normalized
      <4>. QED
        BY <3>1, <4>2
    <3>3. AreDefinitions(Normalized(raw))
      BY <3>2 DEF AreDefinitions
    <3>. QED
      BY <2>1, <2>3, <3>3 DEF Definitions
  <2>4. CASE raw # None /\ ~Valid(raw)
    BY <2>4 DEF AchievementsInv, ServerTypes
  <2>. QED
    BY <2>2, <2>3, <2>4
<1>3. ServerTypes'
  BY <1>2 DEF AchievementsInv, ServerTypes
<1>4. PageTypes' /\ BehindInv' /\ AnnouncedInv'
  BY DEF AchievementsInv, PageTypes, BehindInv, AnnouncedInv, AnnouncedIsUnlocked
<1>. QED
  BY <1>1, <1>3, <1>4 DEF AchievementsInv

\* What the server says of the account, however late, is no more than it has.
LEMMA ApplyingAnswersIsSafe ==
  ASSUME AchievementsInv, NEW d, AreDefinitions(d), NEW g, IsState(g), NoMore(g, earned),
         NEW b \in AccountTotals, NoMoreCoins(b, record), NEW u, u \subseteq earned.unlocked,
         Apply(d, g, b, u), sent' \subseteq sent,
         UNCHANGED <<served, earned, record, base, stats, history>>
  PROVE  AchievementsInv'
<1>1. AccountInv' /\ UnlockedIsEarned'
  BY AccountStays
<1>2. ServerTypes'
  BY DEF AchievementsInv, ServerTypes
<1>3. PICK known : known = Known(d, net.definitions)
  OBVIOUS
<1>4. AreDefinitions(known)
  BY <1>3 DEF AchievementsInv, PageTypes, Known
<1>5. net' = [definitions |-> known, state |-> g] /\ totals' = b
  BY <1>3 DEF Apply
<1>6. PageTypes'
  BY <1>4, <1>5 DEF AchievementsInv, PageTypes
<1>7. BehindInv'
  BY <1>5 DEF AchievementsInv, BehindInv
<1>8. ASSUME NEW a \in announced', a \notin announced PROVE Due(a, stats, earned, record)
  <2>1. PICK i \in u \cap DOMAIN known : a = [id |-> i, requirement |-> known[i]]
    BY <1>3, <1>8 DEF Apply
  <2>2. a.id \in earned.unlocked /\ IsRequirement(a.requirement)
    BY <1>4, <2>1 DEF AreDefinitions
  <2>. QED
    BY <2>2 DEF Due
<1>9. AnnouncedInv'
  <2>1. \A a \in announced' : Due(a, stats, earned, record)
    BY <1>8 DEF AchievementsInv, AnnouncedInv
  <2>. QED
    BY <2>1 DEF AchievementsInv, AnnouncedInv, AnnouncedIsUnlocked
<1>. QED
  BY <1>1, <1>2, <1>6, <1>7, <1>9 DEF AchievementsInv

LEMMA AnsweringIsSafe ==
  ASSUME AchievementsInv, NEW q \in sent, ScoreAnswered(q)
  PROVE  AchievementsInv'
<1>1. PICK d, g, b, u : d = q.definitions /\ g = q.state /\ b = q.record /\ u = q.unlocked
  OBVIOUS
<1>2. AreDefinitions(d) /\ IsState(g) /\ NoMore(g, earned) /\ b \in AccountTotals
      /\ NoMoreCoins(b, record) /\ u \subseteq earned.unlocked
  BY <1>1 DEF AchievementsInv, PageTypes, BehindInv, ScoreAnswered
<1>3. Apply(d, g, b, u) /\ sent' \subseteq sent /\ UNCHANGED <<served, earned, record, base, stats, history>>
  BY <1>1 DEF ScoreAnswered
<1>. QED
  BY <1>2, <1>3, ApplyingAnswersIsSafe

LEMMA FailingIsSafe ==
  ASSUME AchievementsInv, NEW q \in sent, NEW refreshes \in {"no", "yes"}, ScoreFailed(q, refreshes)
  PROVE  AchievementsInv'
<1>1. sent' \subseteq sent /\ UNCHANGED <<served, earned, record, base, stats, history>>
  BY DEF ScoreFailed
<1>2. CASE refreshes = "yes"
  <2>1. PICK d, g, b : d = Definitions(served) /\ g = earned /\ b = record
    OBVIOUS
  <2>2. AreDefinitions(d) /\ IsState(g) /\ NoMore(g, earned) /\ b \in AccountTotals /\ NoMoreCoins(b, record)
    BY <2>1, SameIsNoMore DEF AchievementsInv, ServerTypes
  <2>3. Apply(d, g, b, {})
    BY <1>2, <2>1 DEF ScoreFailed
  <2>. QED
    BY <1>1, <2>2, <2>3, ApplyingAnswersIsSafe
<1>3. CASE refreshes # "yes"
  <2>1. UNCHANGED <<net, totals, announced>>
    BY <1>3 DEF ScoreFailed
  <2>2. AccountInv' /\ UnlockedIsEarned'
    BY <1>1, AccountStays
  <2>3. ServerTypes' /\ PageTypes' /\ BehindInv'
    BY <1>1, <2>1 DEF AchievementsInv, ServerTypes, PageTypes, BehindInv
  <2>4. AnnouncedInv'
    BY <1>1, <2>1 DEF AchievementsInv, AnnouncedInv, AnnouncedIsUnlocked
  <2>. QED
    BY <2>2, <2>3, <2>4 DEF AchievementsInv
<1>. QED
  BY <1>2, <1>3

\* A run that is evaluated earns what the runs say it earns.
LEMMA EarnedIsMet ==
  ASSUME NEW runs, NEW n \in Nat \ {0}, \A i \in 1..n : runs[i].stats \in SentStats,
         NEW b \in Nat, \A i \in 1..n : runs[i].stats["score"] <= b,
         b # 0 => \E i \in 1..n : runs[i].stats["score"] = b,
         NEW best, best["score"] = Clamped(b),
         NEW total, \A k \in Totals : total[k] = Clamped(Tally(runs, k, n)),
         NEW id, NEW r, r = runs[n].definitions[id], IsRequirement(r)
  PROVE  EarnedBy(id, runs, n) <=> \A k \in DOMAIN r : Met(r, k, runs[n].stats, best, total)
<1>. DEFINE s == runs[n].stats
            Earned(k) ==
              CASE k \in DOMAIN Upper -> s[Upper[k]] # Unknown /\ s[Upper[k]] <= r[k]
                [] k \in DOMAIN Lower ->
                     IF DOMAIN r = {"minScore"}
                     THEN \E i \in 1..n : Reaches(runs[i].stats["score"], r[k])
                     ELSE Reaches(s[Lower[k]], r[k])
                [] OTHER -> Clamped(Tally(runs, Lifetime[k], n)) >= r[k]
<1>1. EarnedBy(id, runs, n) <=> \A k \in DOMAIN r : Earned(k)
  BY DEF EarnedBy
<1>2. ASSUME NEW k \in DOMAIN r PROVE Earned(k) <=> Met(r, k, s, best, total)
  <2>1. k \in RequirementKeys /\ r[k] \in Nat
    BY DEF IsRequirement
  <2>2. CASE k \in DOMAIN Upper
    <3>1. k \notin DOMAIN Lower
      BY <2>2, KeysAre
    <3>. QED
      BY <2>2, <3>1 DEF Met
  <2>3. CASE k \in DOMAIN Lower /\ DOMAIN r # {"minScore"}
    <3>1. k \notin DOMAIN Upper
      BY <2>3, KeysAre
    <3>. QED
      BY <2>3, <3>1 DEF Met, Reaches
  <2>4. CASE k \in DOMAIN Lower /\ DOMAIN r = {"minScore"}
    <3>1. k \notin DOMAIN Upper
      BY <2>4, KeysAre
    <3>2. Met(r, k, s, best, total) <=> Reaches(best["score"], r[k])
      BY <2>4, <3>1 DEF Met, Reaches
    <3>3. \A i \in 1..n : runs[i].stats["score"] \in Nat
      BY DEF SentStats
    <3>4. \A m \in Nat : Reaches(m, r[k]) <=> Clamped(m) >= r[k]
      BY AchievementsAssumption DEF Reaches
    <3>5. Reaches(best["score"], r[k]) <=> Clamped(b) >= r[k]
      BY <3>4, ClampingIs
    <3>6. (\E i \in 1..n : Reaches(runs[i].stats["score"], r[k])) <=> Clamped(b) >= r[k]
      <4>1. ASSUME NEW i \in 1..n, Reaches(runs[i].stats["score"], r[k]) PROVE Clamped(b) >= r[k]
        <5>1. PICK m \in Nat : m = runs[i].stats["score"]
          BY <3>3
        <5>2. Clamped(m) >= r[k] /\ Clamped(m) <= Clamped(b) /\ Clamped(m) \in Nat /\ Clamped(b) \in Nat
          BY <3>4, <4>1, <5>1, ClampingIs
        <5>. QED
          BY <2>1, <5>2
      <4>2. ASSUME Clamped(b) >= r[k] PROVE \E i \in 1..n : Reaches(runs[i].stats["score"], r[k])
        <5>1. PICK i \in 1..n : runs[i].stats["score"] = b
          <6>1. CASE b = 0
            <7>1. n \in 1..n /\ runs[n].stats["score"] = 0
              BY <3>3, <6>1
            <7>. QED
              BY <6>1, <7>1
          <6>. QED
            BY <6>1
        <5>. QED
          BY <3>4, <4>2, <5>1
      <4>. QED
        BY <4>1, <4>2
    <3>7. Earned(k) <=> \E i \in 1..n : Reaches(runs[i].stats["score"], r[k])
      BY <2>4, <3>1
    <3>. QED
      BY <3>2, <3>5, <3>6, <3>7
  <2>5. CASE k \notin DOMAIN Upper /\ k \notin DOMAIN Lower
    <3>1. Lifetime[k] \in Totals
      BY <2>1, <2>5, KeysAre DEF RequirementKeys
    <3>2. total[Lifetime[k]] = Clamped(Tally(runs, Lifetime[k], n))
      BY <3>1
    <3>. QED
      BY <2>5, <3>2 DEF Met
  <2>. QED
    BY <2>2, <2>3, <2>4, <2>5
<1>. HIDE DEF Earned
<1>. QED
  BY <1>1, <1>2

\* What a run earned stays earned: later runs are added after it.
LEMMA EarnedStays ==
  ASSUME NEW runs, NEW others, NEW m \in Nat, NEW n \in 1..m, \A i \in 1..m : runs[i] = others[i], NEW id
  PROVE  EarnedBy(id, runs, n) <=> EarnedBy(id, others, n)
<1>1. \A i \in 1..n : runs[i] = others[i]
  OBVIOUS
<1>2. \A k : Tally(runs, k, n) = Tally(others, k, n)
  BY <1>1, TallyOfSame
<1>3. runs[n] = others[n]
  OBVIOUS
<1>. QED
  BY <1>1, <1>2, <1>3 DEF EarnedBy

\* A run is recorded as it came, unless it is nonsense.
LEMMA RawIs ==
  ASSUME NEW s \in KnownStats, NEW raw \in Raw(s), RunIsValid(raw)
  PROVE  /\ raw \in SentStats /\ raw["score"] \in Nat
         /\ Unknown \notin {raw[k] : k \in Statistics} => raw = s
<1>1. "score" \in Statistics /\ "orbs" \in Statistics /\ s["score"] \in Nat
  BY KeysAre DEF KnownStats
<1>2. CASE raw = s
  BY <1>1, <1>2, KnownAreSent
<1>3. CASE raw = [k \in Statistics |-> IF k = "score" THEN s[k] ELSE Unknown]
  <2>1. raw["orbs"] = Unknown /\ raw["score"] \in Nat
    BY <1>1, <1>3
  <2>2. raw \in SentStats
    BY <1>1, <1>3 DEF SentStats
  <2>. QED
    BY <1>1, <2>1, <2>2
<1>4. CASE raw = [k \in Statistics |-> IF k = "score" THEN s[k] ELSE Bad]
  <2>1. "orbs" \in DOMAIN raw /\ raw["orbs"] = Bad
    BY <1>1, <1>4
  <2>. QED
    BY <2>1 DEF RunIsValid
<1>. QED
  BY <1>2, <1>3, <1>4 DEF Raw

LEMMA RefusingIsSafe ==
  ASSUME AchievementsInv, NEW q \in sent, NEW raw \in Raw(q.stats), SubmitScore(q, raw), ~RunIsValid(raw)
  PROVE  AchievementsInv'
<1>1. PICK p : p = [q EXCEPT !.status = "refused"]
  OBVIOUS
<1>. DOMAIN q = Uploads /\ q = [f \in Uploads |-> q[f]]
  BY DEF AchievementsInv, PageTypes
<1>2. sent' = (sent \ {q}) \cup {p} /\ UNCHANGED <<earned, record, history>>
      /\ UNCHANGED <<served, net, totals, stage, base, stats, announced>>
  BY <1>1 DEF SubmitScore
<1>3. AccountInv' /\ UnlockedIsEarned'
  BY <1>2, AccountStays
<1>4. p.status = "refused" /\ DOMAIN p = Uploads /\ p = [f \in Uploads |-> p[f]]
  BY <1>1 DEF Uploads
<1>5. ServerTypes'
  BY <1>2 DEF AchievementsInv, ServerTypes
<1>6. PageTypes'
  BY <1>2, <1>4 DEF AchievementsInv, PageTypes
<1>7. BehindInv'
  BY <1>2, <1>4 DEF AchievementsInv, BehindInv
<1>8. AnnouncedInv'
  BY <1>2, <1>4 DEF AchievementsInv, AnnouncedInv, AnnouncedIsUnlocked
<1>. QED
  BY <1>3, <1>5, <1>6, <1>7, <1>8 DEF AchievementsInv

LEMMA RecordingIsSafe ==
  ASSUME AchievementsInv, NEW q \in sent, NEW raw \in Raw(q.stats), SubmitScore(q, raw), RunIsValid(raw)
  PROVE  AchievementsInv'
<1>1. PICK d : d = Definitions(served)
  OBVIOUS
<1>2. q.status = "sent" /\ q.stats \in KnownStats
  BY DEF SubmitScore, AchievementsInv, PageTypes
<1>3. raw \in SentStats /\ raw["score"] \in Nat
      /\ (Unknown \notin {raw[k] : k \in Statistics} => raw = q.stats)
  BY <1>2, RawIs
<1>4. PICK after : after = Evaluate(earned, raw, record, d)
  OBVIOUS
<1>5. /\ earned' = after
      /\ record' = [score |-> record.score + raw["score"], runs |-> record.runs + 1,
                    best |-> Larger(record.best, raw["score"])]
      /\ history' = Append(history, [stats |-> raw, definitions |-> d])
      /\ UNCHANGED <<served, net, totals, stage, base, stats, announced>>
  BY <1>1, <1>4 DEF SubmitScore
<1>6. sent' = (sent \ {q}) \cup {[q EXCEPT !.stats = raw, !.status = "recorded",
                  !.unlocked = after.unlocked \ earned.unlocked,
                  !.definitions = d, !.state = after, !.record = record']}
  BY <1>1, <1>4 DEF SubmitScore
<1>7. PICK p : p = Progress(earned, raw, record)
  OBVIOUS
<1>8. /\ after.best = p.best /\ after.total = p.total
      /\ after.unlocked = earned.unlocked \cup
           {id \in DOMAIN d : \A k \in DOMAIN d[id] : Met(d[id], k, raw, p.best, p.total)}
  BY <1>4, <1>7, EvaluateIs
<1>9. AreDefinitions(d) /\ record \in AccountTotals /\ IsState(earned)
  BY <1>1 DEF AchievementsInv, ServerTypes
<1>10. IsState(p) /\ IsState(after)
  BY <1>3, <1>7, <1>8, <1>9, ProgressIsState DEF IsState
<1>11. PICK n \in Nat : n = Len(history) /\ Len(history') = n + 1 /\ \A i \in 1..n : history'[i] = history[i]
  BY <1>5 DEF AchievementsInv, ServerTypes
<1>12. history'[n + 1] = [stats |-> raw, definitions |-> d]
  BY <1>5, <1>11 DEF AchievementsInv, ServerTypes
<1>13. \A i \in 1..(n + 1) : i \in 1..n \/ i = n + 1
  OBVIOUS
<1>14. ServerTypes'
  <2>1. record' \in AccountTotals
    BY <1>3, <1>5, <1>9 DEF AccountTotals, Larger
  <2>2. \E S : history' \in Seq(S)
    <3>1. PICK S : history \in Seq(S)
      BY DEF AchievementsInv, ServerTypes
    <3>2. history' \in Seq(S \cup {[stats |-> raw, definitions |-> d]})
      BY <1>5, <3>1
    <3>. QED
      BY <3>2
  <2>3. \A i \in 1..Len(history') : history'[i].stats \in SentStats /\ AreDefinitions(history'[i].definitions)
    BY <1>3, <1>9, <1>11, <1>12, <1>13 DEF AchievementsInv, ServerTypes
  <2>. QED
    BY <1>1, <1>5, <1>9, <1>10, <2>1, <2>2, <2>3 DEF ServerTypes
<1>15. PICK old, new : old = history /\ new = history'
  OBVIOUS
<1>16. \A k : Tally(new, k, n + 1) = Tally(old, k, n) + Counts(raw, k)
  <2>. TAKE k
  <2>1. Tally(new, k, n + 1) = Tally(new, k, n) + Counts(new[n + 1].stats, k)
    BY TallyOfMore
  <2>2. Tally(new, k, n) = Tally(old, k, n)
    BY <1>11, <1>15, TallyOfSame
  <2>3. new[n + 1].stats = raw
    BY <1>12, <1>15
  <2>. QED
    BY <2>1, <2>2, <2>3
<1>17. /\ record.score = Tally(old, "score", n) /\ record.runs = Tally(old, "runs", n)
       /\ \A k \in Totals : earned.total[k] = Clamped(Tally(old, k, n)) /\ Tally(old, k, n) \in Nat
       /\ earned.best["score"] = Clamped(record.best)
       /\ \A i \in 1..n : old[i].stats["score"] <= record.best
       /\ record.best # 0 => \E i \in 1..n : old[i].stats["score"] = record.best
  BY <1>11, <1>15 DEF AchievementsInv, AccountInv
<1>18. \A k \in Statistics : Counts(raw, k) \in Nat /\ Amount(raw, k) = Clamped(Counts(raw, k))
  BY <1>3, AmountIs
<1>19. Counts(raw, "runs") = 1 /\ Counts(raw, "score") = raw["score"]
  BY <1>3, AchievementsAssumption DEF Counts
<1>20. \A k \in Totals : p.total[k] = Clamped(Tally(new, k, n + 1)) /\ Tally(new, k, n + 1) \in Nat
                         /\ earned.total[k] <= p.total[k]
  <2>1. \A x, y \in Nat : Clamped(Clamped(x) + Clamped(y)) = Clamped(x + y) /\ Clamped(x) <= Clamped(x + y)
    <3>. TAKE x, y \in Nat
    <3>1. x + y \in Nat /\ x <= x + y
      OBVIOUS
    <3>. QED
      BY <3>1, ClampingIs
  <2>2. Clamped(1) = 1
    BY ClampingIs
  <2>3. ASSUME NEW k \in Totals PROVE Tally(old, k, n) \in Nat /\ Counts(raw, k) \in Nat
    BY <1>17, <1>18, <1>19, KeysAre
  <2>4. ASSUME NEW k \in Totals PROVE p.total[k] = Clamped(Clamped(Tally(old, k, n)) + Clamped(Counts(raw, k)))
    <3>1. CASE k = "score"
      BY <1>7, <1>17, <1>18, <3>1, ProgressIs, KeysAre
    <3>2. CASE k = "runs"
      BY <1>7, <1>17, <1>19, <2>2, <3>2, ProgressIs
    <3>3. CASE k \in Totals \ {"score", "runs"}
      BY <1>7, <1>17, <1>18, <3>3, ProgressIs, KeysAre
    <3>. QED
      BY <3>1, <3>2, <3>3
  <2>. TAKE k \in Totals
  <2>5. PICK x \in Nat, y \in Nat : x = Tally(old, k, n) /\ y = Counts(raw, k)
    BY <2>3
  <2>6. Tally(new, k, n + 1) = x + y /\ p.total[k] = Clamped(Clamped(x) + Clamped(y)) /\ earned.total[k] = Clamped(x)
    BY <1>16, <1>17, <2>4, <2>5
  <2>7. p.total[k] = Clamped(x + y) /\ earned.total[k] <= p.total[k] /\ x + y \in Nat
    <3>1. Clamped(Clamped(x) + Clamped(y)) = Clamped(x + y) /\ Clamped(x) <= Clamped(x + y)
      BY <2>1
    <3>2. p.total[k] = Clamped(x + y)
      BY <2>6, <3>1
    <3>. QED
      BY <2>6, <3>1, <3>2
  <2>. QED
    BY <2>6, <2>7
<1>21. record'.score = Tally(new, "score", n + 1) /\ record'.runs = Tally(new, "runs", n + 1)
  BY <1>5, <1>16, <1>17, <1>19
<1>22. /\ p.best["score"] = Clamped(record'.best) /\ earned.best["score"] <= p.best["score"]
       /\ record'.best \in Nat /\ record.best <= record'.best /\ raw["score"] <= record'.best
  <2>1. PICK x \in Nat, y \in Nat : x = record.best /\ y = raw["score"]
    BY <1>3, <1>9 DEF AccountTotals
  <2>2. Amount(raw, "score") = Clamped(y)
    BY <1>18, <1>19, <2>1, KeysAre
  <2>3. p.best["score"] = Larger(Clamped(y), Larger(Clamped(x), Clamped(x)))
    BY <1>7, <1>17, <2>1, <2>2, ProgressIs
  <2>4. record'.best = Larger(x, y)
    BY <1>5, <2>1
  <2>5. Larger(Clamped(y), Larger(Clamped(x), Clamped(x))) = Clamped(Larger(x, y))
        /\ Clamped(x) <= Clamped(Larger(x, y)) /\ Larger(x, y) \in Nat /\ x <= Larger(x, y) /\ y <= Larger(x, y)
    BY AchievementsAssumption DEF Larger, Clamped
  <2>. QED
    BY <1>17, <2>1, <2>3, <2>4, <2>5
<1>23. \A i \in 1..(n + 1) : new[i].stats["score"] <= record'.best
  <2>1. \A i \in 1..n : old[i].stats["score"] \in Nat
    BY <1>11, <1>15 DEF AchievementsInv, ServerTypes, SentStats
  <2>2. \A i \in 1..n : new[i].stats["score"] <= record'.best
    BY <1>9, <1>11, <1>15, <1>17, <1>22, <2>1 DEF AccountTotals
  <2>3. new[n + 1].stats["score"] <= record'.best
    BY <1>12, <1>15, <1>22
  <2>. QED
    BY <1>13, <2>2, <2>3
<1>24. record'.best # 0 => \E i \in 1..(n + 1) : new[i].stats["score"] = record'.best
  <2>1. record'.best = record.best \/ record'.best = raw["score"]
    BY <1>5 DEF Larger
  <2>2. CASE record'.best = raw["score"]
    <3>1. new[n + 1].stats["score"] = record'.best /\ n + 1 \in 1..(n + 1)
      BY <1>12, <1>15, <2>2
    <3>. QED
      BY <3>1
  <2>3. CASE record'.best = record.best
    BY <1>11, <1>15, <1>17, <2>3
  <2>. QED
    BY <2>1, <2>2, <2>3
<1>25. AccountInv'
  BY <1>5, <1>8, <1>11, <1>15, <1>20, <1>21, <1>22, <1>23, <1>24 DEF AccountInv
<1>26. ASSUME NEW id \in DOMAIN d
       PROVE  EarnedBy(id, new, n + 1) <=> \A k \in DOMAIN d[id] : Met(d[id], k, raw, p.best, p.total)
  <2>1. new[n + 1].stats = raw /\ new[n + 1].definitions = d /\ n + 1 \in Nat \ {0}
    BY <1>12, <1>15
  <2>2. PICK r : r = d[id] /\ IsRequirement(r)
    BY <1>9 DEF AreDefinitions
  <2>3. \A i \in 1..(n + 1) : new[i].stats \in SentStats
    BY <1>11, <1>14, <1>15 DEF ServerTypes
  <2>4. PICK b \in Nat, m \in Nat \ {0} : b = record'.best /\ m = n + 1
    BY <1>22
  <2>5. PICK best, total : best = p.best /\ total = p.total
    OBVIOUS
  <2>6. EarnedBy(id, new, m) <=> \A k \in DOMAIN r : Met(r, k, new[m].stats, best, total)
    <3>1. \A i \in 1..m : new[i].stats \in SentStats /\ new[i].stats["score"] <= b
      BY <1>23, <2>3, <2>4
    <3>2. b # 0 => \E i \in 1..m : new[i].stats["score"] = b
      BY <1>24, <2>4
    <3>3. best["score"] = Clamped(b) /\ \A k \in Totals : total[k] = Clamped(Tally(new, k, m))
      BY <1>20, <1>22, <2>4, <2>5
    <3>4. r = new[m].definitions[id]
      BY <2>1, <2>2, <2>4
    <3>. QED
      BY <2>2, <3>1, <3>2, <3>3, <3>4, EarnedIsMet
  <2>. QED
    BY <2>1, <2>2, <2>4, <2>5, <2>6
<1>27. \A i \in 1..n : \A id : EarnedBy(id, new, i) <=> EarnedBy(id, old, i)
  BY <1>11, <1>15, EarnedStays
<1>28. DOMAIN old = 1..n /\ DOMAIN new = 1..(n + 1)
  BY <1>11, <1>14, <1>15 DEF AchievementsInv, ServerTypes
<1>29. UnlockedIsEarned'
  <2>1. ASSUME NEW id
        PROVE  id \in earned.unlocked <=>
                 \E i \in 1..n : id \in DOMAIN old[i].definitions /\ EarnedBy(id, old, i)
    BY <1>15, <1>28 DEF AchievementsInv, UnlockedIsEarned
  <2>2. ASSUME NEW id
        PROVE  id \in after.unlocked <=>
                 \E i \in 1..(n + 1) : id \in DOMAIN new[i].definitions /\ EarnedBy(id, new, i)
    <3>1. \A i \in 1..n : new[i].definitions = old[i].definitions
      BY <1>11, <1>15
    <3>2. new[n + 1].definitions = d /\ n + 1 \in 1..(n + 1) /\ \A i \in 1..n : i \in 1..(n + 1)
      BY <1>12, <1>15
    <3>3. id \in after.unlocked <=>
            \/ id \in earned.unlocked
            \/ id \in DOMAIN d /\ EarnedBy(id, new, n + 1)
      BY <1>8, <1>26
    <3>. QED
      BY <1>13, <1>27, <2>1, <3>1, <3>2, <3>3
  <2>3. after.unlocked = {id \in UNION {DOMAIN new[i].definitions : i \in DOMAIN new} :
                            \E i \in DOMAIN new : id \in DOMAIN new[i].definitions /\ EarnedBy(id, new, i)}
    BY <1>28, <2>2
  <2>. QED
    BY <1>5, <1>15, <2>3 DEF UnlockedIsEarned
<1>30. NoMore(earned, after) /\ NoMoreCoins(record, record')
  <2>1. NoMore(earned, after)
    BY <1>8, <1>20, <1>22 DEF NoMore
  <2>2. NoMoreCoins(record, record')
    BY <1>3, <1>5, <1>9, <1>22 DEF NoMoreCoins, AccountTotals
  <2>. QED
    BY <2>1, <2>2
<1>31. PICK c \in AccountTotals : c = record'
  BY <1>14 DEF ServerTypes
<1>32. PICK filed : /\ sent' = (sent \ {q}) \cup {filed} /\ filed.status = "recorded" /\ filed.stats = raw
                    /\ filed.unlocked = after.unlocked \ earned.unlocked /\ filed.definitions = d
                    /\ filed.state = after /\ filed.record = c /\ filed.announced = q.announced
                    /\ DOMAIN filed = Uploads /\ filed = [f \in Uploads |-> filed[f]]
  <2>. DEFINE o == [q EXCEPT !.stats = raw, !.status = "recorded",
                     !.unlocked = after.unlocked \ earned.unlocked,
                     !.definitions = d, !.state = after, !.record = c]
  <2>1. DOMAIN q = Uploads /\ q = [f \in Uploads |-> q[f]]
    BY DEF AchievementsInv, PageTypes
  <2>2. /\ o.status = "recorded" /\ o.stats = raw /\ o.definitions = d /\ o.state = after /\ o.record = c
        /\ o.unlocked = after.unlocked \ earned.unlocked /\ o.announced = q.announced
        /\ DOMAIN o = Uploads /\ o = [f \in Uploads |-> o[f]]
    BY <2>1 DEF Uploads
  <2>3. sent' = (sent \ {q}) \cup {o}
    BY <1>6, <1>31
  <2>. HIDE DEF o
  <2>. QED
    BY <2>2, <2>3
<1>33. PageTypes'
  <2>1. ASSUME NEW o \in sent' PROVE o = filed \/ o \in sent
    BY <1>32
  <2>. QED
    BY <1>3, <1>5, <1>9, <1>10, <1>32, <2>1 DEF AchievementsInv, PageTypes
<1>34. \A g : NoMore(g, earned) /\ IsState(g) => NoMore(g, after)
  BY <1>9, <1>10, <1>30, KeysAre DEF NoMore, IsState
<1>35. \A b \in AccountTotals : NoMoreCoins(b, record) => NoMoreCoins(b, c)
  BY <1>9, <1>30, <1>31 DEF NoMoreCoins, AccountTotals
<1>36. BehindInv'
  <2>1. NoMore(net.state, after) /\ NoMore(base, after) /\ NoMoreCoins(totals, c)
    BY <1>34, <1>35 DEF AchievementsInv, BehindInv, PageTypes
  <2>2. ASSUME NEW o \in sent, o.status = "recorded"
        PROVE  NoMore(o.state, after) /\ NoMoreCoins(o.record, c) /\ o.unlocked \subseteq after.unlocked
    <3>1. IsState(o.state) /\ o.record \in AccountTotals
      BY <2>2 DEF AchievementsInv, PageTypes
    <3>. QED
      BY <1>30, <1>34, <1>35, <2>2, <3>1 DEF AchievementsInv, BehindInv, NoMore
  <2>3. NoMore(filed.state, after) /\ NoMoreCoins(filed.record, c) /\ filed.unlocked \subseteq after.unlocked
    BY <1>10, <1>32, SameIsNoMore
  <2>. QED
    BY <1>5, <1>31, <1>32, <2>1, <2>2, <2>3 DEF BehindInv
<1>37. ASSUME NEW a, NEW s \in KnownStats, Due(a, s, earned, record) PROVE Due(a, s, after, c)
  <2>1. PICK g, b : g = earned /\ b = record
    OBVIOUS
  <2>2. IsState(g) /\ NoMore(g, after) /\ b \in AccountTotals /\ NoMoreCoins(b, c) /\ NoMoreStats(s, s)
    BY <1>9, <1>30, <1>31, <2>1, SameIsNoMore
  <2>3. Due(a, s, g, b)
    BY <1>37, <2>1
  <2>. QED
    BY <1>10, <2>2, <2>3, DueStays
<1>38. AnnouncedInv'
  <2>1. ASSUME NEW a \in announced PROVE Due(a, stats, after, c)
    BY <1>37 DEF AchievementsInv, AnnouncedInv, PageTypes
  <2>2. ASSUME NEW o \in sent', o.status = "sent", NEW a \in o.announced PROVE Due(a, o.stats, after, c)
    <3>1. o \in sent
      BY <1>32, <2>2
    <3>. QED
      BY <1>37, <2>2, <3>1 DEF AchievementsInv, AnnouncedInv, PageTypes
  <2>3. ASSUME NEW o \in sent', o.status = "recorded", Unknown \notin {o.stats[k] : k \in Statistics},
               NEW a \in o.announced, DOMAIN a.requirement \cap DOMAIN Upper = {},
               a.id \in DOMAIN o.definitions, a.requirement = o.definitions[a.id]
        PROVE  a.id \in after.unlocked
    <3>1. CASE o \in sent
      <4>1. a.id \in earned.unlocked
        BY <2>3, <3>1 DEF AchievementsInv, AnnouncedInv, AnnouncedIsUnlocked
      <4>. QED
        BY <1>8, <4>1
    <3>2. CASE o = filed
      <4>1. raw = q.stats
        BY <1>3, <1>32, <2>3, <3>2
      <4>2. Due(a, raw, earned, record)
        BY <1>2, <1>32, <2>3, <3>2, <4>1 DEF AchievementsInv, AnnouncedInv
      <4>3. a.id \in DOMAIN d /\ a.requirement = d[a.id]
        BY <1>32, <2>3, <3>2
      <4>4. a.id \in earned.unlocked
            \/ \A k \in DOMAIN d[a.id] : Met(d[a.id], k, raw, p.best, p.total)
        BY <1>7, <2>3, <4>2, <4>3 DEF Due
      <4>. QED
        BY <1>8, <4>3, <4>4
    <3>. QED
      BY <1>32, <3>1, <3>2
  <2>4. AnnouncedIsUnlocked'
    BY <1>5, <2>3 DEF AnnouncedIsUnlocked
  <2>. QED
    BY <1>5, <1>31, <2>1, <2>2, <2>4 DEF AnnouncedInv
<1>. QED
  BY <1>14, <1>25, <1>29, <1>33, <1>36, <1>38 DEF AchievementsInv

LEMMA AchievementsInvStep ==
  AchievementsInv /\ [AchievementsNext]_achievementVars => AchievementsInv'
<1>. SUFFICES ASSUME AchievementsInv, [AchievementsNext]_achievementVars PROVE AchievementsInv'
  OBVIOUS
<1>1. CASE UNCHANGED achievementVars
  BY <1>1 DEF achievementVars, AchievementsInv, ServerTypes, PageTypes, AccountInv, UnlockedIsEarned,
              BehindInv, AnnouncedInv, AnnouncedIsUnlocked
<1>2. CASE StartRun
  BY <1>2, StartingARunIsSafe
<1>3. CASE CheckRun
  BY <1>3, CheckingIsSafe
<1>4. CASE GameOver
  BY <1>4, EndingARunIsSafe
<1>5. CASE \E k \in Counted, points \in 0..1 : Happens(k, points)
  BY <1>5, PlayingIsSafe
<1>6. ASSUME NEW q \in sent, NEW raw \in Raw(q.stats), SubmitScore(q, raw) PROVE AchievementsInv'
  BY <1>6, RecordingIsSafe, RefusingIsSafe
<1>7. ASSUME NEW q \in sent, ScoreAnswered(q) PROVE AchievementsInv'
  BY <1>7, AnsweringIsSafe
<1>8. ASSUME NEW q \in sent, NEW refreshes \in {"no", "yes"}, ScoreFailed(q, refreshes)
      PROVE  AchievementsInv'
  BY <1>8, FailingIsSafe
<1>9. ASSUME NEW raw \in Edits, Edit(raw) PROVE AchievementsInv'
  BY <1>9, EditingDefinitionsIsSafe
<1>. QED
  BY <1>1, <1>2, <1>3, <1>4, <1>5, <1>6, <1>7, <1>8, <1>9 DEF AchievementsNext

\* Whatever the definitions were edited to and however late scores and answers came, what is
\* unlocked is what the recorded runs earned (achievements.cjs), and what the page announced
\* of a run that was recorded whole is unlocked (achievements.js).
THEOREM TrueToTheRuns == AchievementsSpec => []AchievementsAreTrue
<1>1. AchievementsInv => AchievementsAreTrue
  BY DEF AchievementsInv, AchievementsAreTrue, AnnouncedInv
<1>. QED
  BY <1>1, AchievementsInvInit, AchievementsInvStep, PTL DEF AchievementsSpec
-----------------------------------------------------------------------------
(* The engine: the log, the animations and the buffer of snapshots tell the   *)
(* truth, for any world, triggers and capacities and without a bound on time. *)

SaidTypes == {"jump", "dashStart", "phaseStart", "dashEnd", "phaseEnd", "bounce", "teleport"}
AnimationTypes == {"anim:orbPickup", "anim:dash", "anim:phase", "anim:teleport"}
Logged == [type : SaidTypes \cup AnimationTypes, trigger : Triggers \cup {NoTrigger}, at : Nat]

InOrder(log, now) ==
  /\ \A i \in DOMAIN log : log[i].at <= now
  /\ \A i, j \in DOMAIN log : i < j => log[i].at <= log[j].at

HasParts(e) ==
  /\ DOMAIN e = {"tick", "time", "now", "events", "seen", "player"}
  /\ DOMAIN e.player = {"x", "y", "vx", "vy", "dash", "invuln", "bounces"}

\* An engine whose log is in order, up to now.
LogStands(e) ==
  /\ HasParts(e) /\ e.now \in Nat /\ e.events \in Seq(Logged) /\ InOrder(e.events, e.now)
  /\ e.player.dash \in Nat /\ e.player.invuln \in Nat

\* An engine whose log says what holds.
Truthful(e) ==
  /\ LogStands(e)
  /\ LastSays(e.events, "dashStart", "dashEnd", e.player.dash)
  /\ LastSays(e.events, "phaseStart", "phaseEnd", e.player.invuln)

\* What was animated is what was seen, and once.
AnimationsInv ==
  /\ DOMAIN animated = Triggers
  /\ \A t \in Triggers :
       /\ animated[t] \in [times : Nat, succeeded : BOOLEAN]
       /\ <<"teleport", t>> \in engine.seen <=> animated[t].succeeded
       /\ animated[t].times = IF animated[t].succeeded THEN 1 ELSE 0

Snapshots == [time : Int, snapshot : Nat]

Sorted(buffer) == \A i, j \in DOMAIN buffer : i <= j => buffer[i].time <= buffer[j].time

\* A snapshot is held, or was dropped from a full buffer for those that are.
Held(a, buffer) ==
  \/ \E j \in DOMAIN buffer : buffer[j] = a
  \/ Len(buffer) = Capacity /\ a.time <= buffer[1].time

BufferInv ==
  /\ entries \in Seq(Snapshots) /\ arrived \in Seq(Snapshots)
  /\ Len(entries) <= Capacity /\ Sorted(entries)
  /\ \A i \in DOMAIN arrived : Held(arrived[i], entries)

EngineInv ==
  /\ Truthful(engine) /\ queue \in Seq(Actions) /\ accumulator \in Nat
  /\ AnimationsInv /\ BufferInv

LEMMA WorldIs ==
  /\ World.eventBufferSize \in Nat \ {0} /\ World.dashDuration \in Nat \ {0}
  /\ World.phaseDuration \in Nat \ {0}
BY EngineAssumption

\* Of a list that was cut a part is left that ends as it did.
EndOf(new, list, size, d) ==
  /\ d <= Len(list) /\ Len(new) = Len(list) - d
  /\ d = 0 \/ Len(list) - d = size
  /\ Len(list) - d <= size
  /\ \A i \in 1..(Len(list) - d) : new[i] = list[i + d]

LEMMA NewestIs ==
  ASSUME NEW S, NEW list \in Seq(S), NEW size \in Nat \ {0}
  PROVE  /\ Newest(list, size) \in Seq(S)
         /\ \E d \in Nat : EndOf(Newest(list, size), list, size, d)
<1>. DEFINE d == IF Len(list) > size THEN Len(list) - size ELSE 0
<1>1. Len(list) \in Nat /\ d \in Nat /\ d <= Len(list) /\ Len(list) - d <= size
      /\ (d = 0 \/ Len(list) - d = size)
  OBVIOUS
<1>2. Newest(list, size) = SubSeq(list, d + 1, Len(list))
  BY DEF Newest
<1>. HIDE DEF d
<1>3. /\ SubSeq(list, d + 1, Len(list)) \in Seq(S)
      /\ Len(SubSeq(list, d + 1, Len(list))) = Len(list) - d
      /\ \A i \in 1..(Len(list) - d) : SubSeq(list, d + 1, Len(list))[i] = list[i + d]
  BY <1>1
<1>. QED
  BY <1>1, <1>2, <1>3 DEF EndOf

LEMMA PushIs ==
  ASSUME NEW log \in Seq(Logged), NEW x \in Logged
  PROVE  /\ Push(log, x) \in Seq(Logged)
         /\ \E d \in Nat :
              /\ d <= Len(log) /\ Len(Push(log, x)) = Len(log) - d + 1
              /\ Push(log, x)[Len(log) - d + 1] = x
              /\ \A i \in 1..(Len(log) - d) : Push(log, x)[i] = log[i + d]
<1>. DEFINE all == Append(log, x)
<1>1. /\ all \in Seq(Logged) /\ Len(log) \in Nat /\ Len(all) = Len(log) + 1
      /\ all[Len(log) + 1] = x
      /\ \A i \in 1..Len(log) : all[i] = log[i]
  OBVIOUS
<1>2. Push(log, x) = Newest(all, World.eventBufferSize)
  BY DEF Push
<1>. HIDE DEF all
<1>10. PICK size \in Nat \ {0} : size = World.eventBufferSize
  BY WorldIs
<1>9. all \in Seq(Logged)
  BY <1>1
<1>11. /\ Newest(all, size) \in Seq(Logged)
       /\ \E d \in Nat : EndOf(Newest(all, size), all, size, d)
  BY <1>9, <1>10, NewestIs, Zenon
<1>3. PICK d \in Nat :
           /\ Newest(all, size) \in Seq(Logged) /\ d <= Len(all)
           /\ Len(Newest(all, size)) = Len(all) - d
           /\ d = 0 \/ Len(all) - d = size
           /\ Len(all) - d <= size
           /\ \A i \in 1..(Len(all) - d) : Newest(all, size)[i] = all[i + d]
  BY <1>11, Zenon DEF EndOf
<1>8. Push(log, x) = Newest(all, size)
  BY <1>2, <1>10
<1>4. d <= Len(log)
  BY <1>1, <1>3
<1>5. Len(all) - d = Len(log) - d + 1 /\ (Len(log) - d + 1) + d = Len(log) + 1
      /\ Len(log) - d + 1 \in 1..(Len(all) - d)
  BY <1>1, <1>4
<1>6. Push(log, x)[Len(log) - d + 1] = x
  BY <1>1, <1>3, <1>5, <1>8
<1>7. ASSUME NEW i \in 1..(Len(log) - d) PROVE Push(log, x)[i] = log[i + d]
  <2>1. i \in 1..(Len(all) - d) /\ i + d \in 1..Len(log)
    BY <1>1, <1>4
  <2>. QED  BY <1>1, <1>3, <1>8, <2>1
<1>. QED  BY <1>3, <1>4, <1>5, <1>6, <1>7, <1>8

\* What may be said of a skill of which so much is left.
MaySay(log, type, start, end, time) ==
  /\ type \notin {start, end} => LastSays(log, start, end, time)
  /\ type = start => time > 0
  /\ type = end => ~(time > 0)

LEMMA PushSays ==
  ASSUME NEW log \in Seq(Logged), NEW x \in Logged, NEW start, NEW end, start # end,
         NEW time \in Nat, MaySay(log, x.type, start, end, time)
  PROVE  LastSays(Push(log, x), start, end, time)
<1>. DEFINE pushed == Push(log, x)
<1>1. PICK d \in Nat :
              /\ d <= Len(log) /\ Len(pushed) = Len(log) - d + 1
              /\ pushed[Len(log) - d + 1] = x
              /\ \A i \in 1..(Len(log) - d) : pushed[i] = log[i + d]
  BY PushIs
<1>2. Len(log) \in Nat /\ pushed \in Seq(Logged)
  BY PushIs
<1>. HIDE DEF pushed
<1>. SUFFICES ASSUME NEW i \in DOMAIN pushed, pushed[i].type \in {start, end},
                     \A j \in DOMAIN pushed : j > i => pushed[j].type \notin {start, end}
              PROVE  pushed[i].type = start <=> time > 0
  BY DEF LastSays, pushed
<1>3. DOMAIN pushed = 1..(Len(log) - d + 1) /\ i \in Nat
  BY <1>1, <1>2
<1>4. CASE i = Len(log) - d + 1
  BY <1>1, <1>4 DEF MaySay
<1>5. CASE i # Len(log) - d + 1
  <2>1. i \in 1..(Len(log) - d) /\ i + d \in DOMAIN log /\ pushed[i] = log[i + d]
    BY <1>1, <1>2, <1>3, <1>5
  <2>2. Len(log) - d + 1 \in DOMAIN pushed /\ Len(log) - d + 1 > i
    BY <1>1, <1>2, <1>3, <2>1
  <2>3. x.type \notin {start, end}
    BY <1>1, <2>2
  <2>4. LastSays(log, start, end, time)
    BY <2>3 DEF MaySay
  <2>5. ASSUME NEW j \in DOMAIN log, j > i + d PROVE log[j].type \notin {start, end}
    <3>1. j - d \in 1..(Len(log) - d) /\ (j - d) + d = j /\ j - d > i
      BY <1>2, <1>3, <2>5
    <3>2. j - d \in DOMAIN pushed /\ pushed[j - d] = log[j]
      BY <1>1, <1>2, <1>3, <3>1
    <3>. QED  BY <3>1, <3>2
  <2>. QED  BY <2>1, <2>4, <2>5 DEF LastSays
<1>. QED  BY <1>4, <1>5

LEMMA PushInOrder ==
  ASSUME NEW log \in Seq(Logged), NEW now \in Nat, InOrder(log, now), NEW x \in Logged, x.at = now
  PROVE  InOrder(Push(log, x), now)
<1>. DEFINE pushed == Push(log, x)
<1>1. PICK d \in Nat :
              /\ d <= Len(log) /\ Len(pushed) = Len(log) - d + 1
              /\ pushed[Len(log) - d + 1] = x
              /\ \A i \in 1..(Len(log) - d) : pushed[i] = log[i + d]
  BY PushIs
<1>2. Len(log) \in Nat /\ pushed \in Seq(Logged)
  BY PushIs
<1>. HIDE DEF pushed
<1>3. DOMAIN pushed = 1..(Len(log) - d + 1)
  BY <1>1, <1>2
<1>4. ASSUME NEW i \in DOMAIN pushed, i # Len(log) - d + 1
      PROVE  i \in 1..(Len(log) - d) /\ i + d \in DOMAIN log /\ pushed[i] = log[i + d]
  BY <1>1, <1>2, <1>3, <1>4
<1>5. ASSUME NEW i \in DOMAIN pushed PROVE pushed[i].at <= now
  <2>1. CASE i = Len(log) - d + 1
    BY <1>1, <2>1
  <2>2. CASE i # Len(log) - d + 1
    BY <1>4, <2>2 DEF InOrder
  <2>. QED  BY <2>1, <2>2
<1>6. ASSUME NEW i \in DOMAIN pushed, NEW j \in DOMAIN pushed, i < j
      PROVE  pushed[i].at <= pushed[j].at
  <2>1. i # Len(log) - d + 1 /\ i \in Nat /\ j \in Nat
    BY <1>2, <1>3, <1>6
  <2>2. CASE j = Len(log) - d + 1
    BY <1>1, <1>5, <2>2
  <2>3. CASE j # Len(log) - d + 1
    <3>1. i + d < j + d
      BY <1>6, <2>1
    <3>. QED  BY <1>4, <2>1, <2>3, <3>1 DEF InOrder
  <2>. QED  BY <2>2, <2>3
<1>. QED  BY <1>5, <1>6 DEF InOrder, pushed

\* What is emitted is logged, followed by its animation.
LEMMA EmitIs ==
  ASSUME NEW e, LogStands(e), NEW type \in SaidTypes, NEW trigger \in Triggers \cup {NoTrigger},
         NEW succeeds \in BOOLEAN
  PROVE  LET f == Emit(e, type, trigger, succeeds) IN
         /\ LogStands(f) /\ f.player = e.player /\ f.now = e.now
         /\ f.seen = IF Animates(e, type, trigger, succeeds) /\ trigger # NoTrigger
                     THEN e.seen \cup {<<type, trigger>>} ELSE e.seen
         /\ MaySay(e.events, type, "dashStart", "dashEnd", e.player.dash)
              => LastSays(f.events, "dashStart", "dashEnd", f.player.dash)
         /\ MaySay(e.events, type, "phaseStart", "phaseEnd", e.player.invuln)
              => LastSays(f.events, "phaseStart", "phaseEnd", f.player.invuln)
<1>. DEFINE f == Emit(e, type, trigger, succeeds)
            x == Event(type, trigger, e.now)
            logged == Push(e.events, x)
            y == Event(Animations[type], trigger, e.now)
            both == Push(logged, y)
<1>1. x \in Logged /\ x.type = type /\ x.at = e.now
  BY DEF LogStands, Logged, Event
<1>2. logged \in Seq(Logged) /\ InOrder(logged, e.now)
  BY <1>1, PushIs, PushInOrder DEF LogStands
<1>3. /\ MaySay(e.events, type, "dashStart", "dashEnd", e.player.dash)
           => LastSays(logged, "dashStart", "dashEnd", e.player.dash)
      /\ MaySay(e.events, type, "phaseStart", "phaseEnd", e.player.invuln)
           => LastSays(logged, "phaseStart", "phaseEnd", e.player.invuln)
  BY <1>1, PushSays DEF LogStands
<1>4. CASE ~Animates(e, type, trigger, succeeds)
  <2>1. f = [e EXCEPT !.events = logged]
    BY <1>4 DEF Emit
  <2>2. /\ DOMAIN f = DOMAIN e /\ f.events = logged /\ f.player = e.player /\ f.now = e.now
        /\ f.seen = e.seen
    BY <2>1 DEF LogStands, HasParts
  <2>. HIDE DEF f
  <2>3. LogStands(f)
    BY <1>2, <2>2 DEF LogStands, HasParts
  <2>. HIDE DEF logged
  <2>. QED  BY <1>3, <1>4, <2>2, <2>3 DEF f
<1>5. CASE Animates(e, type, trigger, succeeds)
  <2>1. Animations[type] \in AnimationTypes /\ y \in Logged
        /\ y.type = Animations[type] /\ y.at = e.now
    BY <1>5 DEF Animates, Animations, AnimationTypes, Logged, Event, LogStands
  <2>2. y.type \notin {"dashStart", "dashEnd", "phaseStart", "phaseEnd"}
    BY <2>1 DEF AnimationTypes
  <2>3. f = [e EXCEPT !.events = both,
                      !.seen = IF trigger = NoTrigger THEN @ ELSE @ \cup {<<type, trigger>>}]
    BY <1>5 DEF Emit
  <2>. HIDE DEF y, logged
  <2>4. both \in Seq(Logged) /\ InOrder(both, e.now)
    BY <1>2, <2>1, PushIs, PushInOrder DEF LogStands
  <2>5. /\ MaySay(logged, y.type, "dashStart", "dashEnd", e.player.dash)
             => LastSays(both, "dashStart", "dashEnd", e.player.dash)
        /\ MaySay(logged, y.type, "phaseStart", "phaseEnd", e.player.invuln)
             => LastSays(both, "phaseStart", "phaseEnd", e.player.invuln)
    BY <1>2, <2>1, PushSays DEF LogStands
  <2>. HIDE DEF both
  <2>6. /\ DOMAIN f = DOMAIN e /\ f.events = both /\ f.player = e.player /\ f.now = e.now
        /\ f.seen = IF trigger = NoTrigger THEN e.seen ELSE e.seen \cup {<<type, trigger>>}
    BY <2>3 DEF LogStands, HasParts
  <2>. HIDE DEF f
  <2>7. LogStands(f)
    BY <2>4, <2>6 DEF LogStands, HasParts
  <2>8. /\ LastSays(logged, "dashStart", "dashEnd", e.player.dash)
             => LastSays(both, "dashStart", "dashEnd", e.player.dash)
        /\ LastSays(logged, "phaseStart", "phaseEnd", e.player.invuln)
             => LastSays(both, "phaseStart", "phaseEnd", e.player.invuln)
    BY <2>2, <2>5 DEF MaySay
  <2>. QED  BY <1>3, <1>5, <2>6, <2>7, <2>8 DEF f
<1>. QED  BY <1>4, <1>5

\* What the engine says itself bears no trigger and is seen by nobody.
LEMMA SayIs ==
  ASSUME NEW e, LogStands(e), NEW type \in SaidTypes
  PROVE  LET f == Say(e, type) IN
         /\ LogStands(f) /\ f.player = e.player /\ f.now = e.now /\ f.seen = e.seen
         /\ MaySay(e.events, type, "dashStart", "dashEnd", e.player.dash)
              => LastSays(f.events, "dashStart", "dashEnd", f.player.dash)
         /\ MaySay(e.events, type, "phaseStart", "phaseEnd", e.player.invuln)
              => LastSays(f.events, "phaseStart", "phaseEnd", f.player.invuln)
<1>1. NoTrigger \in Triggers \cup {NoTrigger} /\ TRUE \in BOOLEAN
  OBVIOUS
<1>2. Say(e, type) = Emit(e, type, NoTrigger, TRUE)
  BY DEF Say
<1>. DEFINE f == Emit(e, type, NoTrigger, TRUE)
<1>3. /\ LogStands(f) /\ f.player = e.player /\ f.now = e.now
      /\ f.seen = IF Animates(e, type, NoTrigger, TRUE) /\ NoTrigger # NoTrigger
                  THEN e.seen \cup {<<type, NoTrigger>>} ELSE e.seen
      /\ MaySay(e.events, type, "dashStart", "dashEnd", e.player.dash)
           => LastSays(f.events, "dashStart", "dashEnd", f.player.dash)
      /\ MaySay(e.events, type, "phaseStart", "phaseEnd", e.player.invuln)
           => LastSays(f.events, "phaseStart", "phaseEnd", f.player.invuln)
  <2>. HIDE DEF f
  <2>. QED  BY <1>1, EmitIs, Zenon DEF f
<1>. HIDE DEF f
<1>4. f.seen = e.seen
  BY <1>3
<1>. QED  BY <1>2, <1>3, <1>4, Zenon DEF f

\* A player changed so that this much of dash and phase is left.
LEMMA PlayerIs ==
  ASSUME NEW e, LogStands(e), NEW p, DOMAIN p = DOMAIN e.player, p.dash \in Nat, p.invuln \in Nat,
         NEW f, f = [e EXCEPT !.player = p]
  PROVE  LogStands(f) /\ f.player = p /\ f.now = e.now /\ f.seen = e.seen /\ f.events = e.events
<1>1. /\ DOMAIN f = DOMAIN e /\ f.player = p /\ f.now = e.now /\ f.seen = e.seen
      /\ f.events = e.events
  BY DEF LogStands, HasParts
<1>. QED  BY <1>1 DEF LogStands, HasParts

\* Neither skill is touched by other events.
LEMMA OtherEvents ==
  ASSUME NEW e, Truthful(e), NEW type \in {"jump", "bounce", "teleport"},
         NEW trigger \in Triggers \cup {NoTrigger}, NEW succeeds \in BOOLEAN
  PROVE  LET f == Emit(e, type, trigger, succeeds) IN
         /\ Truthful(f) /\ f.player = e.player /\ f.now = e.now
         /\ f.seen = IF Animates(e, type, trigger, succeeds) /\ trigger # NoTrigger
                     THEN e.seen \cup {<<type, trigger>>} ELSE e.seen
<1>1. type \in SaidTypes /\ LogStands(e)
  BY DEF SaidTypes, Truthful
<1>2. /\ MaySay(e.events, type, "dashStart", "dashEnd", e.player.dash)
      /\ MaySay(e.events, type, "phaseStart", "phaseEnd", e.player.invuln)
  BY DEF MaySay, Truthful
<1>. DEFINE f == Emit(e, type, trigger, succeeds)
<1>3. /\ LogStands(f) /\ f.player = e.player /\ f.now = e.now
      /\ f.seen = IF Animates(e, type, trigger, succeeds) /\ trigger # NoTrigger
                  THEN e.seen \cup {<<type, trigger>>} ELSE e.seen
      /\ LastSays(f.events, "dashStart", "dashEnd", f.player.dash)
      /\ LastSays(f.events, "phaseStart", "phaseEnd", f.player.invuln)
  <2>. HIDE DEF f
  <2>. QED  BY <1>1, <1>2, EmitIs, Zenon DEF f
<1>. HIDE DEF f
<1>4. Truthful(f)
  BY <1>3 DEF Truthful
<1>. QED  BY <1>3, <1>4 DEF f

LEMMA OtherSaid ==
  ASSUME NEW e, Truthful(e), NEW type \in {"jump", "bounce"}
  PROVE  LET f == Say(e, type) IN
         Truthful(f) /\ f.player = e.player /\ f.now = e.now /\ f.seen = e.seen
<1>1. /\ NoTrigger \in Triggers \cup {NoTrigger} /\ TRUE \in BOOLEAN
      /\ type \in {"jump", "bounce", "teleport"}
  OBVIOUS
<1>2. Say(e, type) = Emit(e, type, NoTrigger, TRUE)
  BY DEF Say
<1>. DEFINE f == Emit(e, type, NoTrigger, TRUE)
<1>3. /\ Truthful(f) /\ f.player = e.player /\ f.now = e.now
      /\ f.seen = IF Animates(e, type, NoTrigger, TRUE) /\ NoTrigger # NoTrigger
                  THEN e.seen \cup {<<type, NoTrigger>>} ELSE e.seen
  <2>. HIDE DEF f
  <2>. QED  BY <1>1, OtherEvents, Zenon DEF f
<1>. HIDE DEF f
<1>4. f.seen = e.seen
  BY <1>3
<1>. QED  BY <1>2, <1>3, <1>4, Zenon DEF f

LEMMA CommandIsTrue ==
  ASSUME NEW e, Truthful(e), NEW a \in Actions
  PROVE  Truthful(Command(e, a)) /\ Command(e, a).seen = e.seen /\ Command(e, a).now = e.now
<1>. DEFINE p == e.player
<1>1. LogStands(e) /\ p.dash \in Nat /\ p.invuln \in Nat /\ HasParts(e)
  BY DEF Truthful, LogStands
<1>2. CASE a[1] = "jump"
  <2>. DEFINE moved == [p EXCEPT !.vy = -World.jumpImpulse]
              m == [e EXCEPT !.player = moved]
  <2>1. DOMAIN moved = DOMAIN p /\ moved.dash = p.dash /\ moved.invuln = p.invuln
    BY <1>1 DEF HasParts
  <2>2. Command(e, a) = Say(m, "jump")
    BY <1>2 DEF Command
  <2>. HIDE DEF moved, m
  <2>3. LogStands(m) /\ m.player = moved /\ m.now = e.now /\ m.seen = e.seen /\ m.events = e.events
    BY <1>1, <2>1, PlayerIs DEF m
  <2>4. Truthful(m)
    BY <2>1, <2>3 DEF Truthful
  <2>. QED  BY <2>2, <2>3, <2>4, OtherSaid
<1>3. CASE a[1] = "dash"
  <2>. DEFINE moved == [p EXCEPT !.dash = World.dashDuration,
                                 !.vx = Towards[a[2]][1] * World.dashSpeed,
                                 !.vy = Towards[a[2]][2] * World.dashSpeed]
              m == [e EXCEPT !.player = moved]
  <2>1. /\ DOMAIN moved = DOMAIN p /\ moved.dash \in Nat /\ moved.dash > 0
        /\ moved.invuln = p.invuln
    BY <1>1, WorldIs DEF HasParts
  <2>2. Command(e, a) = Say(m, "dashStart")
    BY <1>3 DEF Command
  <2>. HIDE DEF moved, m
  <2>3. LogStands(m) /\ m.player = moved /\ m.now = e.now /\ m.seen = e.seen /\ m.events = e.events
    BY <1>1, <2>1, PlayerIs DEF m
  <2>4. /\ MaySay(m.events, "dashStart", "dashStart", "dashEnd", m.player.dash)
        /\ MaySay(m.events, "dashStart", "phaseStart", "phaseEnd", m.player.invuln)
    BY <2>1, <2>3 DEF MaySay, Truthful
  <2>5. "dashStart" \in SaidTypes
    BY DEF SaidTypes
  <2>. QED  BY <2>2, <2>3, <2>4, <2>5, SayIs DEF Truthful
<1>4. CASE a[1] = "phase"
  <2>. DEFINE moved == [p EXCEPT !.invuln = World.phaseDuration]
              m == [e EXCEPT !.player = moved]
  <2>1. /\ DOMAIN moved = DOMAIN p /\ moved.invuln \in Nat /\ moved.invuln > 0
        /\ moved.dash = p.dash
    BY <1>1, WorldIs DEF HasParts
  <2>2. Command(e, a) = Say(m, "phaseStart")
    BY <1>4 DEF Command
  <2>. HIDE DEF moved, m
  <2>3. LogStands(m) /\ m.player = moved /\ m.now = e.now /\ m.seen = e.seen /\ m.events = e.events
    BY <1>1, <2>1, PlayerIs DEF m
  <2>4. /\ MaySay(m.events, "phaseStart", "dashStart", "dashEnd", m.player.dash)
        /\ MaySay(m.events, "phaseStart", "phaseStart", "phaseEnd", m.player.invuln)
    BY <2>1, <2>3 DEF MaySay, Truthful
  <2>5. "phaseStart" \in SaidTypes
    BY DEF SaidTypes
  <2>. QED  BY <2>2, <2>3, <2>4, <2>5, SayIs DEF Truthful
<1>. QED  BY <1>2, <1>3, <1>4 DEF Actions

LEMMA LessIs ==
  ASSUME NEW t \in Nat, NEW dt \in Nat
  PROVE  Less(t, dt) \in Nat /\ (t = 0 => Less(t, dt) = 0)
BY DEF Less

\* A skill that runs out is said to have ended as it does.
LEMMA AbilitiesAreTrue ==
  ASSUME NEW e, Truthful(e), NEW dt \in Nat
  PROVE  LET f == TickAbilities(e, dt) IN Truthful(f) /\ f.seen = e.seen /\ f.now = e.now
<1>. DEFINE p == e.player
            slower == [p EXCEPT !.dash = Less(@, dt)]
            d == [e EXCEPT !.player = slower]
            dashed == IF p.dash > 0 /\ d.player.dash = 0 THEN Say(d, "dashEnd") ELSE d
            solid == [dashed.player EXCEPT !.invuln = Less(@, dt)]
            i == [dashed EXCEPT !.player = solid]
            f == IF p.invuln > 0 /\ i.player.invuln = 0 THEN Say(i, "phaseEnd") ELSE i
<1>1. TickAbilities(e, dt) = f
  BY DEF TickAbilities
<1>2. LogStands(e) /\ p.dash \in Nat /\ p.invuln \in Nat /\ HasParts(e)
  BY DEF Truthful, LogStands
<1>3. /\ DOMAIN slower = DOMAIN p /\ slower.dash \in Nat /\ slower.invuln = p.invuln
      /\ p.dash = 0 => slower.dash = 0
  BY <1>2, LessIs DEF HasParts
<1>4. LogStands(d) /\ d.player = slower /\ d.now = e.now /\ d.seen = e.seen /\ d.events = e.events
  <2>. HIDE DEF slower
  <2>. QED  BY <1>2, <1>3, PlayerIs
<1>. HIDE DEF slower, d
<1>5. "dashEnd" \in SaidTypes /\ "phaseEnd" \in SaidTypes
  BY DEF SaidTypes
<1>6. Truthful(dashed) /\ dashed.player = slower /\ dashed.now = e.now /\ dashed.seen = e.seen
  <2>1. CASE p.dash > 0 /\ d.player.dash = 0
    <3>1. dashed = Say(d, "dashEnd")
      BY <2>1
    <3>2. /\ MaySay(d.events, "dashEnd", "dashStart", "dashEnd", d.player.dash)
          /\ MaySay(d.events, "dashEnd", "phaseStart", "phaseEnd", d.player.invuln)
      BY <1>3, <1>4, <2>1 DEF MaySay, Truthful
    <3>. HIDE DEF dashed
    <3>. QED  BY <1>4, <1>5, <3>1, <3>2, SayIs DEF Truthful
  <2>2. CASE ~(p.dash > 0 /\ d.player.dash = 0)
    <3>1. dashed = d
      BY <2>2
    <3>2. d.player.dash > 0 <=> e.player.dash > 0
      BY <1>2, <1>3, <1>4, <2>2
    <3>3. LastSays(d.events, "dashStart", "dashEnd", d.player.dash)
      BY <1>4, <3>2 DEF LastSays, Truthful
    <3>. HIDE DEF dashed
    <3>. QED  BY <1>3, <1>4, <3>1, <3>3 DEF Truthful
  <2>. QED  BY <2>1, <2>2
<1>. HIDE DEF dashed
<1>7. LogStands(dashed) /\ HasParts(dashed)
  BY <1>6 DEF Truthful, LogStands
<1>8. /\ DOMAIN solid = DOMAIN dashed.player /\ solid.dash = slower.dash /\ solid.invuln \in Nat
      /\ p.invuln = 0 => solid.invuln = 0
  BY <1>2, <1>3, <1>6, <1>7, LessIs DEF HasParts
<1>9. /\ LogStands(i) /\ i.player = solid /\ i.now = e.now /\ i.seen = e.seen
      /\ i.events = dashed.events
  <2>. HIDE DEF solid
  <2>. QED  BY <1>3, <1>6, <1>7, <1>8, PlayerIs
<1>. HIDE DEF solid, i
<1>10. Truthful(f) /\ f.now = e.now /\ f.seen = e.seen
  <2>1. CASE p.invuln > 0 /\ i.player.invuln = 0
    <3>1. f = Say(i, "phaseEnd")
      BY <2>1
    <3>2. /\ MaySay(i.events, "phaseEnd", "phaseStart", "phaseEnd", i.player.invuln)
          /\ MaySay(i.events, "phaseEnd", "dashStart", "dashEnd", i.player.dash)
      BY <1>6, <1>8, <1>9, <2>1 DEF MaySay, Truthful
    <3>. HIDE DEF f
    <3>. QED  BY <1>5, <1>9, <3>1, <3>2, SayIs DEF Truthful
  <2>2. CASE ~(p.invuln > 0 /\ i.player.invuln = 0)
    <3>1. f = i
      BY <2>2
    <3>2. i.player.invuln > 0 <=> slower.invuln > 0
      BY <1>2, <1>3, <1>8, <1>9, <2>2
    <3>3. LastSays(i.events, "phaseStart", "phaseEnd", i.player.invuln)
      BY <1>6, <1>9, <3>2 DEF LastSays, Truthful
    <3>. HIDE DEF f
    <3>. QED  BY <1>6, <1>8, <1>9, <3>1, <3>3 DEF Truthful
  <2>. QED  BY <2>1, <2>2
<1>. HIDE DEF f
<1>. QED  BY <1>1, <1>10

\* Where the player is does not matter to the log, and that it bounces is said.
LEMMA BouncedIsTrue ==
  ASSUME NEW e, Truthful(e), NEW yes
  PROVE  LET f == Bounced(e, yes) IN Truthful(f) /\ f.seen = e.seen /\ f.now = e.now
<1>. DEFINE more == [e.player EXCEPT !.bounces = @ + 1]
            m == [e EXCEPT !.player = more]
<1>1. LogStands(e) /\ HasParts(e) /\ e.player.dash \in Nat /\ e.player.invuln \in Nat
  BY DEF Truthful, LogStands
<1>2. DOMAIN more = DOMAIN e.player /\ more.dash = e.player.dash /\ more.invuln = e.player.invuln
  BY <1>1 DEF HasParts
<1>3. Bounced(e, yes) = IF yes THEN Say(m, "bounce") ELSE e
  BY DEF Bounced
<1>. HIDE DEF more, m
<1>4. LogStands(m) /\ m.player = more /\ m.now = e.now /\ m.seen = e.seen /\ m.events = e.events
  BY <1>1, <1>2, PlayerIs DEF m
<1>5. Truthful(m)
  BY <1>2, <1>4 DEF Truthful
<1>6. LET f == Say(m, "bounce") IN Truthful(f) /\ f.seen = e.seen /\ f.now = e.now
  BY <1>4, <1>5, OtherSaid
<1>. QED  BY <1>3, <1>6

LEMMA StepIsTrue ==
  ASSUME NEW e, Truthful(e), NEW dt \in Nat
  PROVE  LET f == Step(e, dt) IN Truthful(f) /\ f.seen = e.seen /\ f.now = e.now + dt
<1>. DEFINE t == TickAbilities(e, dt)
            vy == IF t.player.dash > 0 THEN t.player.vy
                  ELSE Smaller(World.maxFallSpeed, t.player.vy + World.gravity * dt)
            moved == [t.player EXCEPT !.vy = vy, !.x = @ + t.player.vx * dt, !.y = @ + vy * dt]
            m == [t EXCEPT !.player = moved]
            x == Resolve(m.player.x, m.player.vx, World.width)
            y == Resolve(m.player.y, m.player.vy, World.height)
            turned == [m.player EXCEPT !.x = x[1], !.vx = x[2], !.y = y[1], !.vy = y[2]]
            inside == [m EXCEPT !.player = turned]
            once == Bounced(inside, x[3])
            run == Bounced(once, y[3])
            f == [run EXCEPT !.tick = @ + 1, !.time = @ + dt, !.now = @ + dt]
<1>1. Truthful(t) /\ t.seen = e.seen /\ t.now = e.now
  BY AbilitiesAreTrue
<1>2. Move(t, dt) = m
  BY DEF Move
<1>3. HandleBounds(m) = run
  <2>. HIDE DEF m
  <2>1. [m EXCEPT !.player.x = x[1], !.player.vx = x[2], !.player.y = y[1], !.player.vy = y[2]]
          = inside
    <3>. HIDE DEF x, y
    <3>. QED  OBVIOUS
  <2>. HIDE DEF inside
  <2>. QED  BY <2>1, Zenon DEF HandleBounds, x, y
<1>4. Step(e, dt) = f
  BY <1>2, <1>3 DEF Step
<1>. HIDE DEF t, vy
<1>5. LogStands(t) /\ HasParts(t) /\ t.player.dash \in Nat /\ t.player.invuln \in Nat
  BY <1>1 DEF Truthful, LogStands
<1>6. /\ DOMAIN moved = DOMAIN t.player /\ moved.dash = t.player.dash
      /\ moved.invuln = t.player.invuln
  BY <1>5 DEF HasParts
<1>. HIDE DEF moved
<1>7. LogStands(m) /\ m.player = moved /\ m.now = t.now /\ m.seen = t.seen /\ m.events = t.events
  BY <1>5, <1>6, PlayerIs
<1>. HIDE DEF m, x, y
<1>8. LogStands(m) /\ HasParts(m) /\ m.player.dash \in Nat /\ m.player.invuln \in Nat
  BY <1>7 DEF LogStands
<1>9. /\ DOMAIN turned = DOMAIN m.player /\ turned.dash = m.player.dash
      /\ turned.invuln = m.player.invuln
  BY <1>8 DEF HasParts
<1>. HIDE DEF turned
<1>10. /\ LogStands(inside) /\ inside.player = turned /\ inside.now = m.now
       /\ inside.seen = m.seen /\ inside.events = m.events
  BY <1>8, <1>9, PlayerIs
<1>. HIDE DEF inside
<1>11. Truthful(inside)
  BY <1>1, <1>6, <1>7, <1>9, <1>10 DEF Truthful
<1>13. Truthful(once) /\ once.seen = inside.seen /\ once.now = inside.now
  BY <1>11, BouncedIsTrue
<1>. HIDE DEF once
<1>14. Truthful(run) /\ run.seen = e.seen /\ run.now = e.now
  <2>1. Truthful(run) /\ run.seen = once.seen /\ run.now = once.now
    BY <1>13, BouncedIsTrue
  <2>. QED  BY <1>1, <1>7, <1>10, <1>13, <2>1
<1>. HIDE DEF run
<1>15. /\ DOMAIN f = DOMAIN run /\ f.now = run.now + dt /\ f.seen = run.seen
       /\ f.player = run.player /\ f.events = run.events
  BY <1>14 DEF Truthful, LogStands, HasParts
<1>. HIDE DEF f
<1>16. run.now \in Nat /\ f.now \in Nat /\ run.events \in Seq(Logged) /\ InOrder(run.events, run.now)
  BY <1>14, <1>15 DEF Truthful, LogStands
<1>17. InOrder(f.events, f.now)
  <2>1. \A i \in DOMAIN run.events : run.events[i].at \in Nat
    <3>1. \A i \in DOMAIN run.events : run.events[i] \in Logged
      BY <1>16
    <3>. QED  BY <3>1 DEF Logged
  <2>2. \A i \in DOMAIN run.events : run.events[i].at <= run.now + dt
    BY <1>16, <2>1 DEF InOrder
  <2>. QED  BY <1>15, <1>16, <2>2 DEF InOrder
<1>18. Truthful(f)
  BY <1>14, <1>15, <1>16, <1>17 DEF Truthful, LogStands, HasParts
<1>. QED  BY <1>4, <1>14, <1>15, <1>18

\* The engines of a list of actions, each from the one before.
Commands(f, e, actions, n) ==
  f = [i \in 0..n |-> IF i = 0 THEN e ELSE Command(f[i - 1], actions[i])]

LEMMA CommandsExist ==
  ASSUME NEW e, NEW actions, NEW n \in Nat
  PROVE  \E f : Commands(f, e, actions, n)
<1>. DEFINE S == {m \in Nat : \A f : ~Commands(f, e, actions, m)}
<1>1. ASSUME S # {} PROVE FALSE
  <2>1. S \subseteq Nat
    OBVIOUS
  <2>2. PICK m \in S : \A j \in S : m <= j
    <3>. HIDE DEF S
    <3>. QED  BY <1>1, <2>1, LeastOf
  <2>3. CASE m = 0
    <3>. DEFINE g == [i \in 0..0 |-> e]
    <3>1. Commands(g, e, actions, 0)
      <4>1. g = [i \in 0..0 |-> IF i = 0 THEN e ELSE Command(g[i - 1], actions[i])]
        OBVIOUS
      <4>. QED  BY <4>1 DEF Commands
    <3>. QED  BY <2>3, <3>1
  <2>4. CASE m # 0
    <3>1. m - 1 \in Nat /\ m - 1 \notin S
      BY <2>2, <2>4
    <3>2. PICK f : Commands(f, e, actions, m - 1)
      BY <3>1
    <3>. DEFINE g == [i \in 0..m |-> IF i = m THEN Command(f[m - 1], actions[m]) ELSE f[i]]
    <3>3. \A i \in 0..(m - 1) : f[i] = (IF i = 0 THEN e ELSE Command(f[i - 1], actions[i]))
      BY <3>2 DEF Commands
    <3>4. \A i \in 0..m : g[i] = (IF i = 0 THEN e ELSE Command(g[i - 1], actions[i]))
      BY <2>4, <3>1, <3>3
    <3>5. Commands(g, e, actions, m)
      BY <3>4 DEF Commands
    <3>. QED  BY <2>2, <3>5
  <2>. QED  BY <2>3, <2>4
<1>. QED  BY <1>1

LEMMA CommandedIsTrue ==
  ASSUME NEW e, Truthful(e), NEW actions \in Seq(Actions)
  PROVE  LET f == Commanded(e, actions) IN Truthful(f) /\ f.seen = e.seen /\ f.now = e.now
<1>. DEFINE n == Len(actions)
            g == CHOOSE commanded : commanded = [i \in 0..n |->
                   IF i = 0 THEN e ELSE Command(commanded[i - 1], actions[i])]
            Fine(f) == Truthful(f) /\ f.seen = e.seen /\ f.now = e.now
            S == {i \in 0..n : ~Fine(g[i])}
<1>1. n \in Nat
  OBVIOUS
<1>2. PICK f : Commands(f, e, actions, n)
  BY <1>1, CommandsExist
<1>3. g = [i \in 0..n |-> IF i = 0 THEN e ELSE Command(g[i - 1], actions[i])]
  BY <1>2 DEF Commands
<1>4. Commanded(e, actions) = g[n]
  BY DEF Commanded
<1>5. \A i \in 1..n : actions[i] \in Actions
  OBVIOUS
<1>. HIDE DEF g, n
<1>6. ASSUME S # {} PROVE FALSE
  <2>1. PICK i \in S : \A j \in S : i <= j
    <3>1. S \subseteq Nat
      BY <1>1
    <3>. HIDE DEF S
    <3>. QED  BY <1>6, <3>1, LeastOf
  <2>2. CASE i = 0
    BY <1>1, <1>3, <2>1, <2>2
  <2>3. CASE i # 0
    <3>1. i \in 1..n /\ i - 1 \in 0..n /\ i - 1 \notin S
      BY <1>1, <2>1, <2>3
    <3>2. Fine(g[i - 1])
      BY <3>1
    <3>3. g[i] = Command(g[i - 1], actions[i])
      BY <1>3, <3>1, <2>3
    <3>4. Fine(g[i])
      BY <1>5, <3>1, <3>2, <3>3, CommandIsTrue
    <3>. QED  BY <2>1, <3>4
  <2>. QED  BY <2>2, <2>3
<1>7. Fine(g[n])
  BY <1>1, <1>6
<1>. QED  BY <1>4, <1>7

\* The engines of a number of steps, the first of which follows the commands.
Onward(f, e, actions, n) ==
  f = [i \in 0..n |-> IF i = 0 THEN e
                      ELSE Step(IF i = 1 THEN Commanded(e, actions) ELSE f[i - 1], 1)]

LEMMA StepsExist ==
  ASSUME NEW e, NEW actions, NEW n \in Nat
  PROVE  \E f : Onward(f, e, actions, n)
<1>. DEFINE first == Commanded(e, actions)
            S == {m \in Nat : \A f : ~Onward(f, e, actions, m)}
<1>1. ASSUME S # {} PROVE FALSE
  <2>1. S \subseteq Nat
    OBVIOUS
  <2>2. PICK m \in S : \A j \in S : m <= j
    <3>. HIDE DEF S
    <3>. QED  BY <1>1, <2>1, LeastOf
  <2>3. CASE m = 0
    <3>. DEFINE g == [i \in 0..0 |-> e]
    <3>1. Onward(g, e, actions, 0)
      <4>1. g = [i \in 0..0 |-> IF i = 0 THEN e ELSE Step(IF i = 1 THEN first ELSE g[i - 1], 1)]
        OBVIOUS
      <4>. QED  BY <4>1 DEF Onward
    <3>. QED  BY <2>3, <3>1
  <2>4. CASE m # 0
    <3>1. m - 1 \in Nat /\ m - 1 \notin S
      BY <2>2, <2>4
    <3>2. PICK f : Onward(f, e, actions, m - 1)
      BY <3>1
    <3>. DEFINE last == Step(IF m = 1 THEN first ELSE f[m - 1], 1)
                g == [i \in 0..m |-> IF i = m THEN last ELSE f[i]]
    <3>3. \A i \in 0..(m - 1) :
            f[i] = (IF i = 0 THEN e ELSE Step(IF i = 1 THEN first ELSE f[i - 1], 1))
      BY <3>2 DEF Onward
    <3>. HIDE DEF first
    <3>4. \A i \in 0..m :
            g[i] = (IF i = 0 THEN e ELSE Step(IF i = 1 THEN first ELSE g[i - 1], 1))
      BY <2>4, <3>1, <3>3
    <3>5. Onward(g, e, actions, m)
      BY <3>4 DEF Onward, first
    <3>. QED  BY <2>2, <3>5
  <2>. QED  BY <2>3, <2>4
<1>. QED  BY <1>1

LEMMA SteppedIsTrue ==
  ASSUME NEW e, Truthful(e), NEW actions \in Seq(Actions), NEW n \in Nat
  PROVE  LET f == Stepped(e, actions, n) IN Truthful(f) /\ f.seen = e.seen
<1>. DEFINE first == Commanded(e, actions)
            g == CHOOSE stepped : stepped = [i \in 0..n |->
                   IF i = 0 THEN e ELSE Step(IF i = 1 THEN first ELSE stepped[i - 1], 1)]
            Fine(f) == Truthful(f) /\ f.seen = e.seen
            S == {i \in 0..n : ~Fine(g[i])}
<1>1. Fine(first)
  BY CommandedIsTrue
<1>2. PICK f : Onward(f, e, actions, n)
  BY StepsExist
<1>3. g = [i \in 0..n |-> IF i = 0 THEN e ELSE Step(IF i = 1 THEN first ELSE g[i - 1], 1)]
  BY <1>2 DEF Onward
<1>4. Stepped(e, actions, n) = g[n]
  BY DEF Stepped
<1>. HIDE DEF g, first
<1>6. ASSUME S # {} PROVE FALSE
  <2>1. PICK i \in S : \A j \in S : i <= j
    <3>1. S \subseteq Nat
      OBVIOUS
    <3>. HIDE DEF S
    <3>. QED  BY <1>6, <3>1, LeastOf
  <2>2. CASE i = 0
    BY <1>3, <2>1, <2>2
  <2>3. CASE i # 0
    <3>1. i \in 1..n /\ i - 1 \in 0..n /\ i - 1 \notin S
      BY <2>1, <2>3
    <3>2. PICK b : b = (IF i = 1 THEN first ELSE g[i - 1])
      OBVIOUS
    <3>3. Fine(b)
      BY <1>1, <3>1, <3>2
    <3>4. g[i] = Step(b, 1)
      BY <1>3, <3>1, <3>2, <2>3
    <3>5. Fine(g[i])
      BY <3>3, <3>4, StepIsTrue
    <3>. QED  BY <2>1, <3>5
  <2>. QED  BY <2>2, <2>3
<1>7. Fine(g[n])
  BY <1>6
<1>. QED  BY <1>4, <1>7

-----------------------------------------------------------------------------
(* The buffer. *)

\* A snapshot is put before those that are later.
LEMMA InsertedIs ==
  ASSUME NEW buffer \in Seq(Snapshots), NEW x \in Snapshots, NEW at \in 1..(Len(buffer) + 1)
  PROVE  LET all == InsertAt(buffer, at, x) IN
         /\ all \in Seq(Snapshots) /\ Len(all) = Len(buffer) + 1
         /\ \A i \in 1..(Len(buffer) + 1) :
              all[i] = IF i < at THEN buffer[i] ELSE IF i = at THEN x ELSE buffer[i - 1]
<1>. DEFINE front == SubSeq(buffer, 1, at - 1)
            back == SubSeq(buffer, at, Len(buffer))
<1>1. /\ front \in Seq(Snapshots) /\ Len(front) = at - 1
      /\ \A i \in 1..(at - 1) : front[i] = buffer[i]
  OBVIOUS
<1>2. /\ back \in Seq(Snapshots) /\ Len(back) = Len(buffer) - at + 1
      /\ \A i \in 1..(Len(buffer) - at + 1) : back[i] = buffer[at + i - 1]
  OBVIOUS
<1>3. InsertAt(buffer, at, x) = front \o <<x>> \o back
  BY DEF InsertAt
<1>. HIDE DEF front, back
<1>. DEFINE head == front \o <<x>>
<1>4. /\ head \in Seq(Snapshots) /\ Len(head) = at
      /\ \A i \in 1..(at - 1) : head[i] = buffer[i]
      /\ head[at] = x
  BY <1>1
<1>. HIDE DEF head
<1>5. /\ head \o back \in Seq(Snapshots) /\ Len(head \o back) = Len(buffer) + 1
      /\ \A i \in 1..at : (head \o back)[i] = head[i]
      /\ \A i \in (at + 1)..(Len(buffer) + 1) : (head \o back)[i] = back[i - at]
  <2>1. Len(head) = at /\ Len(back) = Len(buffer) - at + 1 /\ Len(buffer) \in Nat
    BY <1>2, <1>4
  <2>2. head \o back \in Seq(Snapshots) /\ Len(head \o back) = Len(head) + Len(back)
    <3>1. head \in Seq(Snapshots) /\ back \in Seq(Snapshots)
      BY <1>2, <1>4
    <3>. QED  BY <3>1
  <2>3. ASSUME NEW i \in 1..(Len(head) + Len(back))
        PROVE  (head \o back)[i] = IF i <= Len(head) THEN head[i] ELSE back[i - Len(head)]
    <3>. HIDE DEF front
    <3>1. head \in Seq(Snapshots) /\ back \in Seq(Snapshots)
      BY <1>2, <1>4
    <3>. QED  BY <3>1
  <2>4. Len(head) + Len(back) = Len(buffer) + 1
    BY <2>1
  <2>5. ASSUME NEW i \in 1..at PROVE (head \o back)[i] = head[i]
    BY <2>1, <2>3, <2>4
  <2>6. ASSUME NEW i \in (at + 1)..(Len(buffer) + 1) PROVE (head \o back)[i] = back[i - at]
    BY <2>1, <2>3, <2>4
  <2>. QED  BY <2>2, <2>4, <2>5, <2>6
<1>6. \A i \in (at + 1)..(Len(buffer) + 1) : back[i - at] = buffer[i - 1]
  <2>1. \A i \in (at + 1)..(Len(buffer) + 1) :
          i - at \in 1..(Len(buffer) - at + 1) /\ at + (i - at) - 1 = i - 1
    OBVIOUS
  <2>. QED  BY <1>2, <2>1
<1>7. InsertAt(buffer, at, x) = head \o back
  BY <1>3 DEF head
<1>8. ASSUME NEW i \in 1..(Len(buffer) + 1)
      PROVE  (head \o back)[i] = IF i < at THEN buffer[i] ELSE IF i = at THEN x ELSE buffer[i - 1]
  BY <1>4, <1>5, <1>6
<1>. QED  BY <1>5, <1>7, <1>8

LEMMA AddIs ==
  ASSUME NEW buffer \in Seq(Snapshots), Sorted(buffer), Len(buffer) <= Capacity, NEW x \in Snapshots
  PROVE  LET new == Add(buffer, x) IN
         /\ new \in Seq(Snapshots) /\ Len(new) <= Capacity /\ Sorted(new) /\ Held(x, new)
         /\ \A a \in Snapshots : Held(a, buffer) => Held(a, new)
<1>. DEFINE later == {i \in DOMAIN buffer : Before(x, buffer[i])}
            at == IF later = {} THEN Len(buffer) + 1
                  ELSE CHOOSE i \in later : \A j \in later : i <= j
            all == InsertAt(buffer, at, x)
            new == Newest(all, Capacity)
<1>0. Capacity \in Nat \ {0} /\ Len(buffer) \in Nat /\ DOMAIN buffer = 1..Len(buffer)
      /\ \A i \in DOMAIN buffer : buffer[i].time \in Int /\ x.time \in Int
  <2>1. \A i \in DOMAIN buffer : buffer[i] \in Snapshots
    OBVIOUS
  <2>. QED  BY <2>1, EngineAssumption DEF Snapshots
<1>1. Add(buffer, x) = new
  BY DEF Add
<1>2. /\ at \in 1..(Len(buffer) + 1)
      /\ \A i \in DOMAIN buffer : i < at => buffer[i].time <= x.time
      /\ \A i \in DOMAIN buffer : i >= at => x.time <= buffer[i].time
  <2>1. CASE later = {}
    <3>1. at = Len(buffer) + 1
      BY <2>1
    <3>2. \A i \in DOMAIN buffer : buffer[i].time <= x.time
      BY <1>0, <2>1 DEF Before
    <3>. HIDE DEF at
    <3>. QED  BY <1>0, <3>1, <3>2
  <2>2. CASE later # {}
    <3>1. later \subseteq Nat
      BY <1>0
    <3>2. at \in later /\ \A j \in later : at <= j
      <4>. HIDE DEF later
      <4>1. \E i \in later : \A j \in later : i <= j
        BY <2>2, <3>1, LeastOf
      <4>. QED  BY <2>2, <4>1
    <3>. HIDE DEF at
    <3>3. at \in DOMAIN buffer /\ x.time < buffer[at].time
      BY <3>2 DEF Before
    <3>4. \A i \in DOMAIN buffer : i < at => buffer[i].time <= x.time
      BY <1>0, <3>2, <3>3 DEF Before
    <3>5. \A i \in DOMAIN buffer : i >= at => x.time <= buffer[i].time
      BY <1>0, <3>3 DEF Sorted
    <3>. QED  BY <1>0, <3>3, <3>4, <3>5
  <2>. QED  BY <2>1, <2>2
<1>. HIDE DEF at, later
<1>3. /\ all \in Seq(Snapshots) /\ Len(all) = Len(buffer) + 1
      /\ \A i \in 1..(Len(buffer) + 1) :
           all[i] = IF i < at THEN buffer[i] ELSE IF i = at THEN x ELSE buffer[i - 1]
  BY <1>2, InsertedIs
<1>. HIDE DEF all
<1>4. all[at] = x
  BY <1>2, <1>3
<1>5. ASSUME NEW j \in DOMAIN buffer
      PROVE  \E i \in 1..(Len(buffer) + 1) : all[i] = buffer[j]
  <2>1. CASE j < at
    BY <1>0, <1>3, <2>1
  <2>2. CASE j >= at
    <3>1. j + 1 \in 1..(Len(buffer) + 1) /\ ~(j + 1 < at) /\ j + 1 # at /\ (j + 1) - 1 = j
      BY <1>0, <1>2, <2>2
    <3>. QED  BY <1>3, <3>1
  <2>. QED  BY <1>0, <1>2, <2>1, <2>2
<1>6. Sorted(all)
  <2>. SUFFICES ASSUME NEW i \in DOMAIN all, NEW j \in DOMAIN all, i < j
                PROVE  all[i].time <= all[j].time
    <3>1. \A i \in DOMAIN all : all[i] \in Snapshots
      BY <1>3
    <3>2. \A i \in DOMAIN all : all[i].time <= all[i].time
      BY <3>1 DEF Snapshots
    <3>3. \A i, j \in DOMAIN all : i <= j => i < j \/ i = j
      BY <1>3
    <3>. QED  BY <3>2, <3>3 DEF Sorted
  <2>1. i \in 1..(Len(buffer) + 1) /\ j \in 1..(Len(buffer) + 1)
    BY <1>3
  <2>2. CASE j < at
    BY <1>0, <1>2, <1>3, <2>1, <2>2 DEF Sorted
  <2>3. CASE j = at
    BY <1>0, <1>2, <1>3, <2>1, <2>3
  <2>4. CASE j > at
    <3>1. j - 1 \in DOMAIN buffer /\ j - 1 >= at /\ all[j] = buffer[j - 1]
      BY <1>0, <1>2, <1>3, <2>1, <2>4
    <3>2. CASE i < at
      BY <1>0, <1>2, <1>3, <2>1, <3>1, <3>2 DEF Sorted
    <3>3. CASE i = at
      BY <1>0, <1>2, <1>3, <2>1, <3>1, <3>3
    <3>4. CASE i > at
      <4>1. i - 1 \in DOMAIN buffer /\ i - 1 <= j - 1 /\ all[i] = buffer[i - 1]
        BY <1>0, <1>2, <1>3, <2>1, <3>4
      <4>. QED  BY <3>1, <4>1 DEF Sorted
    <3>. QED  BY <1>2, <2>1, <3>2, <3>3, <3>4
  <2>. QED  BY <1>2, <2>1, <2>2, <2>3, <2>4
<1>7. PICK d \in Nat :
           /\ new \in Seq(Snapshots) /\ d <= Len(all)
           /\ Len(new) = Len(all) - d
           /\ d = 0 \/ Len(all) - d = Capacity
           /\ Len(all) - d <= Capacity
           /\ \A i \in 1..(Len(all) - d) : new[i] = all[i + d]
  <2>1. Capacity \in Nat \ {0} /\ all \in Seq(Snapshots)
    BY <1>0, <1>3
  <2>2. new \in Seq(Snapshots) /\ \E d \in Nat : EndOf(new, all, Capacity, d)
    BY <2>1, NewestIs, Zenon
  <2>. HIDE DEF new
  <2>. QED  BY <2>2, Zenon DEF EndOf
<1>. HIDE DEF new
<1>8. DOMAIN new = 1..(Len(all) - d) /\ Len(all) \in Nat /\ DOMAIN all = 1..Len(all)
  BY <1>3, <1>7
<1>9. Sorted(new)
  <2>1. ASSUME NEW i \in DOMAIN new PROVE i + d \in DOMAIN all /\ new[i] = all[i + d]
    BY <1>7, <1>8
  <2>2. \A i, j \in DOMAIN new : i <= j => i + d <= j + d
    BY <1>8
  <2>. QED  BY <1>6, <2>1, <2>2 DEF Sorted
\* What stood in the whole list is held: the one that was dropped is not later than the first.
<1>10. ASSUME NEW i \in 1..(Len(buffer) + 1) PROVE Held(all[i], new)
  <2>1. CASE i > d
    <3>1. i - d \in DOMAIN new /\ (i - d) + d = i
      BY <1>0, <1>3, <1>7, <1>8, <2>1
    <3>2. new[i - d] = all[i]
      BY <1>7, <1>8, <3>1
    <3>. QED  BY <3>1, <3>2 DEF Held
  <2>2. CASE i <= d
    <3>1. Len(new) = Capacity /\ 1 \in DOMAIN new /\ new[1] = all[1 + d] /\ 1 + d \in DOMAIN all
      BY <1>0, <1>3, <1>7, <1>8, <2>2
    <3>2. all[i].time <= all[1 + d].time
      <4>1. i \in DOMAIN all /\ i <= 1 + d
        BY <1>3, <1>8, <2>2
      <4>. QED  BY <1>6, <3>1, <4>1 DEF Sorted
    <3>. QED  BY <3>1, <3>2 DEF Held
  <2>. QED  BY <1>7, <2>1, <2>2
<1>11. Held(x, new)
  BY <1>2, <1>4, <1>10
<1>12. ASSUME NEW a \in Snapshots, Held(a, buffer) PROVE Held(a, new)
  <2>1. CASE \E j \in DOMAIN buffer : buffer[j] = a
    BY <1>5, <1>10, <2>1
  <2>2. CASE Len(buffer) = Capacity /\ a.time <= buffer[1].time
    <3>1. d = 1 /\ Len(new) = Capacity /\ 1 \in DOMAIN new /\ new[1] = all[2]
      BY <1>0, <1>3, <1>7, <1>8, <2>2
    <3>2. buffer[1].time <= all[2].time
      <4>1. 1 \in DOMAIN buffer /\ 2 \in 1..(Len(buffer) + 1)
        BY <1>0, <2>2
      <4>2. CASE at = 1
        BY <1>0, <1>3, <4>1, <4>2
      <4>3. CASE at = 2
        BY <1>0, <1>2, <1>3, <4>1, <4>3
      <4>4. CASE at > 2
        BY <1>0, <1>2, <1>3, <4>1, <4>4 DEF Sorted
      <4>. QED  BY <1>2, <4>2, <4>3, <4>4
    <3>3. all[2].time \in Int /\ buffer[1].time \in Int /\ a.time \in Int
      <4>1. 2 \in DOMAIN all /\ 1 \in DOMAIN buffer
        BY <1>0, <1>3, <1>8, <2>2
      <4>2. all[2] \in Snapshots
        BY <1>3, <4>1
      <4>. QED  BY <1>0, <4>1, <4>2 DEF Snapshots
    <3>4. a.time <= all[2].time
      BY <2>2, <3>2, <3>3
    <3>. QED  BY <3>1, <3>4 DEF Held
  <2>. QED  BY <1>12, <2>1, <2>2 DEF Held
<1>. QED  BY <1>1, <1>7, <1>9, <1>11, <1>12

-----------------------------------------------------------------------------

LEMMA EngineInvInit == EngineInit => EngineInv
<1>. SUFFICES ASSUME EngineInit PROVE EngineInv
  OBVIOUS
<1>1. /\ engine = NewEngine /\ queue = <<>> /\ accumulator = 0 /\ entries = <<>> /\ arrived = <<>>
      /\ animated = [t \in Triggers |-> [times |-> 0, succeeded |-> FALSE]]
  BY DEF EngineInit
<1>2. /\ HasParts(engine) /\ engine.now = 0 /\ engine.events = <<>> /\ engine.seen = {}
      /\ engine.player.dash = 0 /\ engine.player.invuln = 0
  BY <1>1 DEF NewEngine, HasParts
<1>3. Truthful(engine)
  BY <1>2 DEF Truthful, LogStands, InOrder, LastSays
<1>4. AnimationsInv
  BY <1>1, <1>2 DEF AnimationsInv
<1>5. BufferInv
  BY <1>1, EngineAssumption DEF BufferInv, Sorted
<1>. QED  BY <1>1, <1>3, <1>4, <1>5 DEF EngineInv

LEMMA AfterIsTrue ==
  ASSUME Truthful(engine), NEW gap \in Nat
  PROVE  Truthful(After(gap)) /\ After(gap).seen = engine.seen
<1>1. CASE gap > 0
  BY <1>1, StepIsTrue DEF After
<1>2. CASE ~(gap > 0)
  BY <1>2 DEF After
<1>. QED  BY <1>1, <1>2

LEMMA AnimationsKept ==
  AnimationsInv /\ engine'.seen = engine.seen /\ UNCHANGED animated => AnimationsInv'
BY DEF AnimationsInv

LEMMA BufferKept == BufferInv /\ Buffer => BufferInv'
BY DEF BufferInv, Buffer, Sorted, Held

LEMMA EngineInvStep == EngineInv /\ [EngineNext]_engineVars => EngineInv'
<1>. SUFFICES ASSUME EngineInv, [EngineNext]_engineVars PROVE EngineInv'
  OBVIOUS
<1>0. /\ Truthful(engine) /\ queue \in Seq(Actions) /\ accumulator \in Nat
      /\ AnimationsInv /\ BufferInv
  BY DEF EngineInv
<1>1. ASSUME NEW a \in Actions, Enqueue(a) PROVE EngineInv'
  <2>1. /\ queue' = Append(queue, a)
        /\ UNCHANGED <<driver, engine, accumulator, animated>> /\ Buffer
    BY <1>1 DEF Enqueue
  <2>2. queue' \in Seq(Actions)
    BY <1>0, <2>1
  <2>3. AnimationsInv' /\ BufferInv'
    BY <1>0, <2>1, AnimationsKept, BufferKept
  <2>. QED  BY <1>0, <2>1, <2>2, <2>3 DEF EngineInv
<1>2. ASSUME NEW dt \in 0..MaxSteps + 1, Advance(dt) PROVE EngineInv'
  <2>. DEFINE due == Smaller(accumulator + dt, MaxSteps)
  <2>1. /\ engine' = Stepped(engine, queue, due)
        /\ queue' = IF due > 0 THEN <<>> ELSE queue
        /\ accumulator' = accumulator + dt - due
        /\ UNCHANGED animated /\ Buffer
    BY <1>2 DEF Advance
  <2>2. MaxSteps \in Nat
    BY EngineAssumption
  <2>3. dt \in Nat /\ due \in Nat /\ accumulator + dt - due \in Nat
    BY <1>0, <2>2 DEF Smaller
  <2>. HIDE DEF due
  <2>4. Truthful(engine') /\ engine'.seen = engine.seen
    BY <1>0, <2>1, <2>3, SteppedIsTrue
  <2>5. queue' \in Seq(Actions) /\ accumulator' \in Nat
    BY <1>0, <2>1, <2>3
  <2>6. AnimationsInv' /\ BufferInv'
    BY <1>0, <2>1, <2>4, AnimationsKept, BufferKept
  <2>. QED  BY <2>4, <2>5, <2>6 DEF EngineInv
<1>3. ASSUME NEW gap \in 0..1, NEW dt \in 1..2, ScenarioStep(gap, dt) PROVE EngineInv'
  <2>1. engine' = Step(After(gap), dt) /\ UNCHANGED <<queue, accumulator, animated>> /\ Buffer
    BY <1>3 DEF ScenarioStep
  <2>2. gap \in Nat /\ dt \in Nat
    OBVIOUS
  <2>3. Truthful(After(gap)) /\ After(gap).seen = engine.seen
    BY <1>0, <2>2, AfterIsTrue
  <2>4. Truthful(engine') /\ engine'.seen = engine.seen
    BY <2>1, <2>2, <2>3, StepIsTrue
  <2>5. AnimationsInv' /\ BufferInv'
    BY <1>0, <2>1, <2>4, AnimationsKept, BufferKept
  <2>. QED  BY <1>0, <2>1, <2>4, <2>5 DEF EngineInv
<1>4. ASSUME NEW gap \in 0..2, NEW a \in Actions, ScenarioCommand(gap, a) PROVE EngineInv'
  <2>1. engine' = Command(After(gap), a) /\ UNCHANGED <<queue, accumulator, animated>> /\ Buffer
    BY <1>4 DEF ScenarioCommand
  <2>2. gap \in Nat
    OBVIOUS
  <2>3. Truthful(After(gap)) /\ After(gap).seen = engine.seen
    BY <1>0, <2>2, AfterIsTrue
  <2>4. Truthful(engine') /\ engine'.seen = engine.seen
    BY <2>1, <2>3, CommandIsTrue
  <2>5. AnimationsInv' /\ BufferInv'
    BY <1>0, <2>1, <2>4, AnimationsKept, BufferKept
  <2>. QED  BY <1>0, <2>1, <2>4, <2>5 DEF EngineInv
<1>5. ASSUME NEW gap \in 0..1, NEW t \in Triggers, NEW ok \in BOOLEAN,
             ScenarioEmit(gap, "teleport", t, ok)
      PROVE EngineInv'
  <2>. DEFINE e == After(gap)
              anew == [times |-> animated[t].times + (IF Animates(e, "teleport", t, ok) THEN 1 ELSE 0),
                       succeeded |-> animated[t].succeeded \/ ok]
  <2>1. /\ engine' = Emit(e, "teleport", t, ok)
        /\ animated' = [animated EXCEPT ![t] = anew]
        /\ UNCHANGED <<queue, accumulator>> /\ Buffer
    BY <1>5 DEF ScenarioEmit
  <2>2. gap \in Nat /\ t # NoTrigger /\ t \in Triggers \cup {NoTrigger}
    BY EngineAssumption
  <2>3. Truthful(e) /\ e.seen = engine.seen
    BY <1>0, <2>2, AfterIsTrue
  <2>4. Animates(e, "teleport", t, ok) <=> ok /\ <<"teleport", t>> \notin engine.seen
    BY <2>2, <2>3 DEF Animates, Animations
  <2>. HIDE DEF e
  <2>5. /\ Truthful(engine')
        /\ engine'.seen = IF Animates(e, "teleport", t, ok) /\ t # NoTrigger
                          THEN e.seen \cup {<<"teleport", t>>} ELSE e.seen
    BY <2>1, <2>2, <2>3, OtherEvents
  <2>6. DOMAIN animated = Triggers /\ animated[t] \in [times : Nat, succeeded : BOOLEAN]
        /\ (<<"teleport", t>> \in engine.seen <=> animated[t].succeeded)
        /\ animated[t].times = IF animated[t].succeeded THEN 1 ELSE 0
    BY <1>0 DEF AnimationsInv
  <2>7. /\ anew \in [times : Nat, succeeded : BOOLEAN]
        /\ <<"teleport", t>> \in engine'.seen <=> anew.succeeded
        /\ anew.times = IF anew.succeeded THEN 1 ELSE 0
    <3>1. CASE animated[t].succeeded
      <4>1. anew = [times |-> 1, succeeded |-> TRUE]
        <5>1. animated[t].times = 1 /\ ~Animates(e, "teleport", t, ok)
          BY <2>4, <2>6, <3>1
        <5>2. (animated[t].succeeded \/ ok) = TRUE
          BY <3>1
        <5>3. animated[t].times + (IF Animates(e, "teleport", t, ok) THEN 1 ELSE 0) = 1
          BY <5>1
        <5>. QED  BY <5>2, <5>3
      <4>2. <<"teleport", t>> \in engine'.seen
        BY <2>3, <2>5, <2>6, <3>1
      <4>. HIDE DEF anew
      <4>. QED  BY <4>1, <4>2
    <3>2. CASE ~animated[t].succeeded /\ ok
      <4>1. anew = [times |-> 1, succeeded |-> TRUE]
        <5>1. animated[t].times = 0 /\ Animates(e, "teleport", t, ok)
          BY <2>4, <2>6, <3>2
        <5>2. (animated[t].succeeded \/ ok) = TRUE
          BY <3>2
        <5>3. animated[t].times + (IF Animates(e, "teleport", t, ok) THEN 1 ELSE 0) = 1
          BY <5>1
        <5>. QED  BY <5>2, <5>3
      <4>2. <<"teleport", t>> \in engine'.seen
        BY <2>2, <2>4, <2>5, <2>6, <3>2
      <4>. HIDE DEF anew
      <4>. QED  BY <4>1, <4>2
    <3>3. CASE ~animated[t].succeeded /\ ~ok
      <4>1. anew = [times |-> 0, succeeded |-> FALSE]
        <5>1. animated[t].times = 0 /\ ~Animates(e, "teleport", t, ok)
          BY <2>4, <2>6, <3>3
        <5>2. (animated[t].succeeded \/ ok) = FALSE
          BY <3>3
        <5>3. animated[t].times + (IF Animates(e, "teleport", t, ok) THEN 1 ELSE 0) = 0
          BY <5>1
        <5>. QED  BY <5>2, <5>3
      <4>2. <<"teleport", t>> \notin engine'.seen
        BY <2>3, <2>4, <2>5, <2>6, <3>3
      <4>. HIDE DEF anew
      <4>. QED  BY <4>1, <4>2
    <3>. QED  BY <3>1, <3>2, <3>3
  <2>. HIDE DEF anew
  <2>8. animated'[t] = anew /\ DOMAIN animated' = Triggers
        /\ \A s \in Triggers : s # t => animated'[s] = animated[s]
    BY <2>1, <2>6
  <2>9. \A s \in Triggers : s # t =>
          (<<"teleport", s>> \in engine'.seen <=> <<"teleport", s>> \in engine.seen)
    BY <2>3, <2>5
  <2>10. AnimationsInv'
    BY <1>0, <2>7, <2>8, <2>9 DEF AnimationsInv
  <2>11. BufferInv'
    BY <1>0, <2>1, BufferKept
  <2>. QED  BY <1>0, <2>1, <2>5, <2>10, <2>11 DEF EngineInv
<1>6. ASSUME NEW time, NEW seen, PageStep(time, seen) PROVE EngineInv'
  <2>. DEFINE e == Step(engine, 1)
              placed == [e.player EXCEPT !.x = seen.x, !.y = seen.y, !.vx = seen.vx, !.vy = seen.vy]
              m == [e EXCEPT !.player = placed]
              f == [m EXCEPT !.time = time, !.tick = @ + 1]
  <2>1. /\ engine' = [e EXCEPT !.time = time, !.tick = @ + 1,
                               !.player.x = seen.x, !.player.y = seen.y,
                               !.player.vx = seen.vx, !.player.vy = seen.vy]
        /\ UNCHANGED <<queue, accumulator, animated>> /\ Buffer
    BY <1>6 DEF PageStep
  <2>2. Truthful(e) /\ e.seen = engine.seen
    BY <1>0, StepIsTrue
  <2>. HIDE DEF e
  <2>3. LogStands(e) /\ HasParts(e) /\ e.player.dash \in Nat /\ e.player.invuln \in Nat
    BY <2>2 DEF Truthful, LogStands
  <2>4. engine' = f
    BY <2>1, <2>3 DEF HasParts
  <2>5. /\ DOMAIN placed = DOMAIN e.player /\ placed.dash = e.player.dash
        /\ placed.invuln = e.player.invuln
    BY <2>3 DEF HasParts
  <2>. HIDE DEF placed
  <2>6. LogStands(m) /\ m.player = placed /\ m.now = e.now /\ m.seen = e.seen /\ m.events = e.events
    BY <2>3, <2>5, PlayerIs
  <2>. HIDE DEF m
  <2>7. /\ DOMAIN f = DOMAIN m /\ f.player = m.player /\ f.now = m.now /\ f.seen = m.seen
        /\ f.events = m.events
    BY <2>6 DEF LogStands, HasParts
  <2>. HIDE DEF f
  <2>8. LogStands(f)
    BY <2>6, <2>7 DEF LogStands, HasParts
  <2>9. Truthful(f) /\ f.seen = engine.seen
    BY <2>2, <2>5, <2>6, <2>7, <2>8 DEF Truthful
  <2>10. AnimationsInv' /\ BufferInv'
    BY <1>0, <2>1, <2>4, <2>9, AnimationsKept, BufferKept
  <2>. QED  BY <1>0, <2>1, <2>4, <2>9, <2>10 DEF EngineInv
<1>7. ASSUME NEW time \in Times, Arrive(time) PROVE EngineInv'
  <2>. DEFINE entry == [time |-> time, snapshot |-> Len(arrived) + 1]
  <2>1. /\ entries' = Add(entries, entry) /\ arrived' = Append(arrived, entry)
        /\ UNCHANGED <<driver, engine, queue, accumulator, animated>>
    BY <1>7 DEF Arrive
  <2>2. entries \in Seq(Snapshots) /\ arrived \in Seq(Snapshots)
        /\ Len(entries) <= Capacity /\ Sorted(entries)
        /\ \A i \in DOMAIN arrived : Held(arrived[i], entries)
    BY <1>0 DEF BufferInv
  <2>3. entry \in Snapshots
    BY <2>2, EngineAssumption DEF Snapshots
  <2>. HIDE DEF entry
  <2>4. /\ entries' \in Seq(Snapshots) /\ Len(entries') <= Capacity /\ Sorted(entries')
        /\ Held(entry, entries')
        /\ \A a \in Snapshots : Held(a, entries) => Held(a, entries')
    BY <2>1, <2>2, <2>3, AddIs
  <2>5. arrived' \in Seq(Snapshots)
    BY <2>1, <2>2, <2>3
  <2>6. ASSUME NEW i \in DOMAIN arrived' PROVE Held(arrived'[i], entries')
    <3>1. arrived'[i] = entry \/ (i \in DOMAIN arrived /\ arrived'[i] = arrived[i])
      <4>. PICK new : new = entry
        OBVIOUS
      <4>1. i \in 1..(Len(arrived) + 1) /\ arrived' = Append(arrived, new) /\ Len(arrived) \in Nat
        BY <2>1, <2>2
      <4>. QED  BY <2>2, <4>1
    <3>2. i \in DOMAIN arrived => arrived[i] \in Snapshots
      BY <2>2
    <3>. QED  BY <2>2, <2>4, <3>1, <3>2
  <2>7. BufferInv'
    BY <2>4, <2>5, <2>6 DEF BufferInv
  <2>8. AnimationsInv'
    BY <1>0, <2>1, AnimationsKept
  <2>. QED  BY <1>0, <2>1, <2>7, <2>8 DEF EngineInv
<1>8. ASSUME Clear PROVE EngineInv'
  <2>1. /\ entries' = <<>> /\ arrived' = <<>>
        /\ UNCHANGED <<driver, engine, queue, accumulator, animated>>
    BY <1>8 DEF Clear
  <2>2. BufferInv'
    BY <2>1, EngineAssumption DEF BufferInv, Sorted
  <2>3. AnimationsInv'
    BY <1>0, <2>1, AnimationsKept
  <2>. QED  BY <1>0, <2>1, <2>2, <2>3 DEF EngineInv
<1>9. CASE UNCHANGED engineVars
  <2>1. UNCHANGED <<engine, queue, accumulator, animated>> /\ Buffer
    BY <1>9 DEF engineVars, Buffer
  <2>2. AnimationsInv' /\ BufferInv'
    BY <1>0, <2>1, AnimationsKept, BufferKept
  <2>. QED  BY <1>0, <2>1, <2>2 DEF EngineInv
<1>. QED  BY <1>1, <1>2, <1>3, <1>4, <1>5, <1>6, <1>7, <1>8, <1>9 DEF EngineNext

\* What is sampled from a sorted buffer is the last that is not later, or all are later.
LEMMA SampledIs ==
  ASSUME NEW buffer \in Seq(Snapshots), buffer # <<>>, Sorted(buffer), NEW time \in Int
  PROVE  LET s == Sample(buffer, time) IN
         /\ \E j \in DOMAIN buffer : buffer[j] = s
         /\ s.time <= time => \A j \in DOMAIN buffer : buffer[j].time <= s.time \/ time < buffer[j].time
         /\ s.time <= time => buffer[1].time <= s.time
         /\ s.time > time => \A j \in DOMAIN buffer : buffer[j].time > time
<1>. DEFINE last == buffer[Len(buffer)]
            notBefore == {j \in DOMAIN buffer : buffer[j].time >= time}
            i == CHOOSE k \in notBefore : \A j \in notBefore : k <= j
            s == Sample(buffer, time)
<1>1. /\ Len(buffer) \in Nat /\ Len(buffer) > 0 /\ DOMAIN buffer = 1..Len(buffer)
      /\ 1 \in DOMAIN buffer /\ Len(buffer) \in DOMAIN buffer
  OBVIOUS
<1>2. \A j \in DOMAIN buffer : buffer[j].time \in Int
  <2>1. \A j \in DOMAIN buffer : buffer[j] \in Snapshots
    OBVIOUS
  <2>. QED  BY <2>1 DEF Snapshots
<1>3. \A j \in DOMAIN buffer : buffer[1].time <= buffer[j].time /\ buffer[j].time <= last.time
  BY <1>1 DEF Sorted
<1>4. CASE time <= buffer[1].time
  <2>1. s = buffer[1]
    BY <1>4 DEF Sample
  <2>. HIDE DEF s
  <2>. QED  BY <1>1, <1>2, <1>3, <1>4, <2>1 DEF s
<1>5. CASE ~(time <= buffer[1].time) /\ time >= last.time
  <2>1. s = last
    BY <1>5 DEF Sample
  <2>. HIDE DEF s
  <2>. QED  BY <1>1, <1>2, <1>3, <1>5, <2>1 DEF s
<1>6. CASE ~(time <= buffer[1].time) /\ ~(time >= last.time)
  <2>1. i \in notBefore /\ \A j \in notBefore : i <= j
    <3>1. notBefore \subseteq Nat /\ Len(buffer) \in notBefore
      BY <1>1, <1>2, <1>6
    <3>. HIDE DEF notBefore
    <3>2. \E k \in notBefore : \A j \in notBefore : k <= j
      BY <3>1, LeastOf
    <3>. QED  BY <3>2
  <2>2. s = IF buffer[i].time = time THEN buffer[i] ELSE buffer[i - 1]
    BY <1>6, Zenon DEF Sample
  <2>. HIDE DEF i, s
  <2>3. /\ i \in DOMAIN buffer /\ buffer[i].time >= time /\ i # 1
        /\ i - 1 \in DOMAIN buffer
    BY <1>1, <1>2, <1>6, <2>1
  <2>4. buffer[i - 1].time < time
    <3>1. i - 1 \notin notBefore
      BY <1>1, <2>1, <2>3
    <3>. QED  BY <1>2, <2>3, <3>1
  <2>5. \A j \in DOMAIN buffer : j <= i - 1 \/ i <= j
    BY <1>1, <2>3
  <2>6. \A j \in DOMAIN buffer : buffer[j].time <= buffer[i - 1].time \/ buffer[i].time <= buffer[j].time
    BY <2>3, <2>5 DEF Sorted
  <2>7. CASE buffer[i].time = time
    <3>1. s = buffer[i]
      BY <2>2, <2>7
    <3>. QED  BY <1>2, <1>3, <2>3, <2>7, <3>1 DEF s
  <2>8. CASE buffer[i].time # time
    <3>1. s = buffer[i - 1]
      BY <2>2, <2>8
    <3>2. time < buffer[i].time
      BY <1>2, <2>3, <2>8
    <3>3. \A j \in DOMAIN buffer : buffer[j].time <= s.time \/ time < buffer[j].time
      BY <1>2, <2>3, <2>6, <3>1, <3>2
    <3>. QED  BY <1>2, <1>3, <2>3, <2>4, <3>1, <3>3 DEF s
  <2>. QED  BY <2>7, <2>8
<1>. QED  BY <1>4, <1>5, <1>6

LEMMA EngineReports == EngineInv => ReportsAreTrue
<1>. SUFFICES ASSUME EngineInv PROVE ReportsAreTrue
  OBVIOUS
<1>1. LogTellsWhatHolds
  BY DEF EngineInv, Truthful, LogStands, InOrder, LogTellsWhatHolds
<1>2. AnimatedOnce
  BY DEF EngineInv, AnimationsInv, AnimatedOnce
<1>3. SampleIsInForce
  <2>. SUFFICES ASSUME entries # <<>>, NEW time \in Times, NEW k \in DOMAIN arrived
                PROVE  LET s == Sample(entries, time)
                           a == arrived[k] IN
                       /\ s.time <= time => ~(s.time < a.time /\ a.time <= time)
                       /\ s.time > time => \A j \in DOMAIN entries : entries[j].time > time
    BY DEF SampleIsInForce
  <2>. DEFINE s == Sample(entries, time)
              a == arrived[k]
  <2>1. entries \in Seq(Snapshots) /\ Sorted(entries) /\ Held(a, entries) /\ a \in Snapshots
    BY DEF EngineInv, BufferInv
  <2>2. time \in Int
    BY EngineAssumption
  <2>3. /\ \E j \in DOMAIN entries : entries[j] = s
        /\ s.time <= time => \A j \in DOMAIN entries : entries[j].time <= s.time \/ time < entries[j].time
        /\ s.time <= time => entries[1].time <= s.time
        /\ s.time > time => \A j \in DOMAIN entries : entries[j].time > time
    BY <2>1, <2>2, SampledIs
  <2>. HIDE DEF s, a
  <2>4. 1 \in DOMAIN entries /\ \A j \in DOMAIN entries : entries[j] \in Snapshots
    BY <2>1
  <2>5. s.time \in Int /\ a.time \in Int /\ entries[1].time \in Int
    BY <2>1, <2>3, <2>4 DEF Snapshots
  <2>6. ASSUME s.time <= time PROVE a.time <= s.time \/ time < a.time
    <3>1. CASE \E j \in DOMAIN entries : entries[j] = a
      BY <2>3, <2>6, <3>1
    <3>2. CASE a.time <= entries[1].time
      BY <2>3, <2>5, <2>6, <3>2
    <3>. QED  BY <2>1, <3>1, <3>2 DEF Held
  <2>. QED  BY <2>2, <2>3, <2>5, <2>6 DEF s, a
<1>. QED  BY <1>1, <1>2, <1>3 DEF ReportsAreTrue

\* For any world, triggers and capacities, however the engine is driven: its log is in order
\* and says last of dash and phase what holds (eventLog.js, abilities.js), a skill is animated
\* once (eventAdapters.js), and a sample is the snapshot in force (snapshotBuffer.js).
THEOREM EngineIsTrue == EngineSpec => []ReportsAreTrue
<1>1. EngineSpec => []EngineInv
  BY EngineInvInit, EngineInvStep, PTL DEF EngineSpec
<1>. QED  BY <1>1, EngineReports, PTL

-----------------------------------------------------------------------------
(* The menus.  An answer tells what the server has stored unless one was      *)
(* served later to a handler that changes it, or an answer served later has    *)
(* been dealt with already; and while no handler that concerns what is watched *)
(* waits, the page and the server agree on it if they are said to.             *)

WatchedOf(a) == IF watched = "owned" THEN a.owned ELSE a.pick[watched]

\* A handler that may change what is watched, at the page or at the server.
Concerns(q) ==
  IF watched = "owned" THEN q.what = "purchase" ELSE watched = q.what \/ watched \in DOMAIN q.body

\* One that asks the server to.
Writes(q) ==
  q.stage = "save" /\ IF watched = "owned" THEN q.what = "purchase" ELSE watched \in DOMAIN q.body

Served == {p \in Flows : flow[p].at = "served"}

\* An answer that was served later has been dealt with.
Stale(p) == p \in flow[p].behind

Sound(a) == IsAccount(a) /\ (a.pick["icon"] \in Paid => a.pick["icon"] \in a.owned)

OrderInv ==
  /\ \A p \in Flows : flow[p].behind \subseteq Served /\ (flow[p].behind # {} => p \in Served)
  /\ \A p, r \in Served : p # r => p \in flow[r].behind \/ r \in flow[p].behind
  /\ \A p, r \in Served : p \in flow[r].behind /\ Stale(r) => Stale(p)
  /\ \A p, q, r \in Served :
       p # q /\ q # r /\ p # r /\ p \in flow[q].behind /\ q \in flow[r].behind => p \in flow[r].behind
  /\ agreed = "yes" => \A p \in Flows : ~Stale(p)

AnswersTell ==
  \A p \in Served :
    /\ ~Stale(p) /\ flow[p].status = "ok"
    /\ \A r \in Served : p \in flow[r].behind => ~Writes(flow[r])
    => WatchedOf(flow[p].user) = WatchedOf(account)

HasFields(q) ==
  DOMAIN q = {"at", "what", "stage", "id", "body", "key", "before", "status", "user", "behind", "met"}

BodyKinds(what) ==
  IF what \in {"texture", "mode"} THEN {"texture", "mode"}
  ELSE IF what \in Kinds THEN {what} ELSE {}

\* What a handler that is under way holds.
FlowIs(q) ==
  /\ q.what \in Whats \ {"none"} /\ q.stage \in {"login", "save", "recover"}
  /\ q.what = "refresh" => q.stage = "recover"
  /\ q.what = "reauth" => q.stage = "login"
  /\ q.what \in {"purchase", "settings", "binds"} => q.stage = "save"
  /\ DOMAIN q.body = IF q.stage = "login" THEN {} ELSE BodyKinds(q.what)
  /\ \A k \in DOMAIN q.body : q.body[k] \in Selectable[k]
  /\ q.what \in Kinds => {q.id, q.before} \subseteq Selectable[q.what]
  /\ q.what = "purchase" => q.id \in Paid
  /\ q.stage = "login" /\ q.what = "icon" => q.id \notin Paid
  /\ q.at = "served" =>
       /\ q.status \in Statuses \ {"none"}
       /\ q.status = "stranger" => q.stage = "recover"
       /\ q.status = "ok" =>
            /\ Sound(q.user)
            /\ q.stage = "save" => \A k \in DOMAIN q.body : q.user.pick[k] = q.body[k]

FlowsInv ==
  /\ DOMAIN flow = Flows
  /\ \A p \in Flows :
       /\ HasFields(flow[p]) /\ flow[p].at \in {"idle", "sent", "served"}
       /\ flow[p].at # "idle" => FlowIs(flow[p])

\* A handler that has met no other one: a save was sent by a player, the page shows still what
\* was sent, and what a refusal puts back is what the server has.
AloneIs(q) ==
  /\ q.stage = "login" => player = NoAccount
  /\ q.stage = "save" =>
       /\ player # NoAccount
       /\ q.what \in {"settings", "binds"} => shown[q.what] = q.body[q.what]
       /\ q.what = "mode" => shown["texture"] = q.body["texture"]
       /\ agreed = "yes" /\ watched \in DOMAIN q.body
          /\ (q.at = "sent" \/ q.status \in {"refused", "unauthorized"}) =>
            IF watched = q.what
            THEN q.before = account.pick[watched]
                 /\ (watched = "icon" => q.before \in Unlocked("icon", player, trails))
            ELSE shown[watched] = account.pick[watched]

AloneInv ==
  \A p \in Busy : flow[p].met \in {"no", "yes"} /\ (flow[p].met = "no" => Busy = {p} /\ AloneIs(flow[p]))

Agreement ==
  IF watched = "owned" THEN player.owned = account.owned
  ELSE /\ shown[watched] = account.pick[watched]
       /\ watched = "icon" => shown["icon"] \in Unlocked("icon", player, trails)
       /\ watched = "trail" => player.pick["trail"] = shown["trail"] /\ trails = "yes"

Undisputed == \A p \in Busy : ~Concerns(flow[p])

MenuTypes ==
  /\ Sound(account) /\ (player = NoAccount \/ IsAccount(player)) /\ IsPick(shown)
  /\ trails \in {"no", "yes"} /\ watched \in Aspects /\ agreed \in {"no", "yes"}
  /\ dialog \in [item : Paid \cup {Nothing}, disabled : {"no", "yes"}]
  /\ player = NoAccount => agreed = "no"

MenusInv ==
  /\ MenuTypes /\ FlowsInv /\ OrderInv /\ AnswersTell /\ AloneInv
  /\ agreed = "yes" /\ Undisputed => Agreement

SameHandler(q, r) ==
  /\ q.at = r.at /\ q.what = r.what /\ q.stage = r.stage /\ q.id = r.id /\ q.body = r.body
  /\ q.before = r.before /\ q.status = r.status /\ q.user = r.user

LEMMA SameHandlers ==
  ASSUME NEW q, NEW r, SameHandler(q, r)
  PROVE  /\ FlowIs(q) <=> FlowIs(r)
         /\ Concerns(q) <=> Concerns(r)
         /\ Writes(q) <=> Writes(r)
         /\ AloneIs(q) <=> AloneIs(r)
<1>1. FlowIs(q) <=> FlowIs(r)
  BY DEF SameHandler, FlowIs
<1>2. (Concerns(q) <=> Concerns(r)) /\ (Writes(q) <=> Writes(r))
  BY DEF SameHandler, Concerns, Writes
<1>3. AloneIs(q) <=> AloneIs(r)
  BY DEF SameHandler, AloneIs
<1>. QED
  BY <1>1, <1>2, <1>3

\* A handler begins: those that wait have met it.
LEMMA BeginChanges ==
  ASSUME FlowsInv, NEW p \in Flows, NEW f, HasFields(f), Begin(p, f)
  PROVE  /\ flow' = [q \in Flows |-> flow'[q]]
         /\ HasFields(flow'[p]) /\ SameHandler(flow'[p], f) /\ flow'[p].behind = f.behind
         /\ flow'[p].met = IF Busy = {} THEN "no" ELSE "yes"
         /\ \A r \in Flows \ {p} :
              /\ HasFields(flow'[r]) /\ SameHandler(flow'[r], flow[r]) /\ flow'[r].behind = flow[r].behind
              /\ r \in Busy => flow'[r].met = "yes"
<1>1. flow'[p] = [f EXCEPT !.met = IF Busy = {} THEN "no" ELSE "yes"]
  BY DEF Begin
<1>2. HasFields(flow'[p]) /\ SameHandler(flow'[p], f) /\ flow'[p].behind = f.behind
      /\ flow'[p].met = IF Busy = {} THEN "no" ELSE "yes"
  BY <1>1 DEF HasFields, SameHandler
<1>3. ASSUME NEW r \in Flows \ {p}
      PROVE  /\ HasFields(flow'[r]) /\ SameHandler(flow'[r], flow[r]) /\ flow'[r].behind = flow[r].behind
             /\ r \in Busy => flow'[r].met = "yes"
  <2>1. CASE r \in Busy
    <3>1. flow'[r] = [flow[r] EXCEPT !.met = "yes"] /\ HasFields(flow[r])
      BY <2>1 DEF Begin, FlowsInv
    <3>. QED
      BY <3>1 DEF HasFields, SameHandler
  <2>2. CASE r \notin Busy
    <3>1. flow'[r] = flow[r] /\ HasFields(flow[r])
      BY <2>2 DEF Begin, FlowsInv
    <3>. QED
      BY <3>1, <2>2 DEF SameHandler
  <2>. QED
    BY <2>1, <2>2
<1>4. flow' = [q \in Flows |-> flow'[q]]
  BY DEF Begin
<1>. QED
  BY <1>2, <1>3, <1>4

\* A handler goes on: its answer is gone, and those it has overtaken are stale.
LEMMA GoesChanges ==
  ASSUME FlowsInv, NEW p \in Flows, NEW f, Goes(p, f)
  PROVE  /\ flow'[p] = f
         /\ \A r \in Flows \ {p} :
              /\ HasFields(flow'[r]) /\ SameHandler(flow'[r], flow[r]) /\ flow'[r].met = flow[r].met
              /\ flow'[r].behind = (flow[r].behind \ {p}) \cup ({r} \cap flow[p].behind)
<1>1. flow'[p] = f
  BY DEF Goes
<1>2. ASSUME NEW r \in Flows \ {p}
      PROVE  /\ HasFields(flow'[r]) /\ SameHandler(flow'[r], flow[r]) /\ flow'[r].met = flow[r].met
             /\ flow'[r].behind = (flow[r].behind \ {p}) \cup ({r} \cap flow[p].behind)
  <2>. DEFINE b == (flow[r].behind \ {p}) \cup ({r} \cap flow[p].behind)
  <2>1. flow'[r] = [flow[r] EXCEPT !.behind = b] /\ HasFields(flow[r])
    BY DEF Goes, FlowsInv
  <2>. HIDE DEF b
  <2>2. HasFields(flow'[r]) /\ SameHandler(flow'[r], flow[r]) /\ flow'[r].met = flow[r].met
        /\ flow'[r].behind = b
    BY <2>1 DEF HasFields, SameHandler
  <2>. QED
    BY <2>2 DEF b
<1>. QED
  BY <1>1, <1>2
LEMMA QuietIs ==
  /\ HasFields(Quiet) /\ Quiet.at = "idle" /\ Quiet.behind = {} /\ Quiet.status = "none"
  /\ Quiet.body = <<>> /\ DOMAIN Quiet.body = {}
  BY DEF Quiet, HasFields

LEMMA RequestIs ==
  ASSUME NEW k, NEW id, NEW key, NEW old, NEW s, NEW doing
  PROVE  LET q == Request(k, id, key, old, s, doing) IN
         /\ HasFields(q) /\ q.at = "sent" /\ q.what = k /\ q.stage = doing /\ q.id = id
         /\ q.before = old /\ q.behind = {} /\ q.status = "none"
         /\ q.body = IF doing = "login" THEN <<>> ELSE Body(k, id, s)
<1>. DEFINE body == IF doing = "login" THEN <<>> ELSE Body(k, id, s)
<1>1. Request(k, id, key, old, s, doing) =
        [Quiet EXCEPT !.at = "sent", !.what = k, !.stage = doing, !.id = id, !.key = key,
                      !.before = old, !.body = body]
  BY DEF Request
<1>. HIDE DEF body
<1>2. LET q == Request(k, id, key, old, s, doing) IN
         /\ HasFields(q) /\ q.at = "sent" /\ q.what = k /\ q.stage = doing /\ q.id = id
         /\ q.before = old /\ q.behind = {} /\ q.status = "none" /\ q.body = body
  BY <1>1 DEF Quiet, HasFields
<1>. QED
  BY <1>2 DEF body

LEMMA BodyIs ==
  ASSUME NEW k \in Kinds, NEW id \in Selectable[k], NEW s, IsPick(s)
  PROVE  /\ DOMAIN Body(k, id, s) = BodyKinds(k)
         /\ \A j \in BodyKinds(k) : Body(k, id, s)[j] \in Selectable[j]
         /\ k \notin {"texture", "mode"} => Body(k, id, s)[k] = id
         /\ k = "mode" => Body(k, id, s)["texture"] = s["texture"]
  BY DEF Body, BodyKinds, IsPick, Kinds

\* What there is to choose from.
LEMMA ChoicesAre ==
  /\ IsPick(Default) /\ Paid \subseteq Selectable["icon"]
  /\ Default["icon"] \notin Paid
  /\ \A k \in Kinds : Selectable[k] \subseteq Ids
  /\ \A k \in Kinds : \A who, known : Unlocked(k, who, known) \subseteq Selectable[k]
  /\ \A k \in Kinds \ {"icon"} : \A who : Unlocked(k, who, "yes") = Selectable[k]
  /\ \A who, known : Unlocked("icon", who, known) = Unlocked("icon", who, "yes")
  /\ NoAccount \notin PlayerAccounts
<1>1. \A k \in Kinds : Selectable[k] \subseteq Ids
  BY DEF Ids, Kinds
<1>2. \A k \in Kinds : \A who, known : Unlocked(k, who, known) \subseteq Selectable[k]
  BY DEF Unlocked
<1>3. \A k \in Kinds \ {"icon"} : \A who : Unlocked(k, who, "yes") = Selectable[k]
  BY MenusAssumption DEF Unlocked
<1>4. \A who, known : Unlocked("icon", who, known) = Unlocked("icon", who, "yes")
  BY DEF Unlocked
<1>. QED
  BY <1>1, <1>2, <1>3, <1>4, MenusAssumption

LEMMA TrailForIs ==
  ASSUME NEW id, NEW who, NEW known, who = NoAccount \/ IsAccount(who)
  PROVE  /\ TrailFor(id, who, known) \in Selectable["trail"]
         /\ who # NoAccount /\ who.pick["trail"] = id /\ known = "yes" => TrailFor(id, who, known) = id
<1>1. Default["trail"] \in Selectable["trail"] /\ Unlocked("trail", who, known) \subseteq Selectable["trail"]
      /\ Unlocked("trail", who, "yes") = Selectable["trail"]
  BY ChoicesAre DEF IsPick, Kinds
<1>2. who # NoAccount => who.pick["trail"] \in Selectable["trail"]
  BY DEF IsAccount, IsPick, Kinds
<1>. HIDE DEF Unlocked
<1>. QED
  BY <1>1, <1>2 DEF TrailFor

LEMMA IconForIs ==
  ASSUME NEW id, NEW who, who = NoAccount \/ IsAccount(who)
  PROVE  /\ IconFor(id, who) \in Selectable["icon"]
         /\ \A known : id \in Unlocked("icon", who, known) => IconFor(id, who) = id
<1>1. Default["icon"] \in Selectable["icon"] /\ Unlocked("icon", who, "yes") \subseteq Selectable["icon"]
      /\ \A known : Unlocked("icon", who, known) = Unlocked("icon", who, "yes")
  BY ChoicesAre DEF IsPick, Kinds
<1>2. who # NoAccount => who.pick["icon"] \in Selectable["icon"]
  BY DEF IsAccount, IsPick, Kinds
<1>. HIDE DEF Unlocked
<1>. QED
  BY <1>1, <1>2 DEF IconFor

LEMMA SoundIsUnlocked ==
  ASSUME NEW who, Sound(who), NEW known
  PROVE  who.pick["icon"] \in Unlocked("icon", who, known) /\ who # NoAccount
<1>1. who.pick["icon"] \in Selectable["icon"] /\ who # NoAccount
  BY ChoicesAre DEF Sound, IsAccount, IsPick, Kinds
<1>. QED
  BY <1>1 DEF Sound, Unlocked

LEMMA TextureForIs ==
  ASSUME NEW id, NEW who
  PROVE  /\ TextureFor(id, who) \in Selectable["texture"]
         /\ id \in Selectable["texture"] => TextureFor(id, who) = id
<1>1. Default["texture"] \in Selectable["texture"]
      /\ Unlocked("texture", who, "yes") = Selectable["texture"]
  BY ChoicesAre DEF IsPick, Kinds
<1>. HIDE DEF Unlocked
<1>. QED
  BY <1>1 DEF TextureFor

LEMMA WithTrailIs ==
  ASSUME NEW s, IsPick(s), NEW id, NEW who, NEW known, who = NoAccount \/ IsAccount(who)
  PROVE  LET t == WithTrail(s, id, who, known) IN
         IsPick(t) /\ t["trail"] = TrailFor(id, who, known) /\ \A j \in Kinds \ {"trail"} : t[j] = s[j]
<1>1. PICK v \in Selectable["trail"] : v = TrailFor(id, who, known)
  BY TrailForIs
<1>2. PICK t : t = WithTrail(s, id, who, known)
  OBVIOUS
<1>3. t = [s EXCEPT !["trail"] = v] /\ "trail" \in Kinds /\ Selectable["trail"] \subseteq Ids
  BY <1>1, <1>2, ChoicesAre DEF WithTrail, Kinds
<1>4. IsPick(t) /\ t["trail"] = v /\ \A j \in Kinds \ {"trail"} : t[j] = s[j]
  BY <1>3 DEF IsPick
<1>. QED
  BY <1>1, <1>2, <1>4

LEMMA WithTextureIs ==
  ASSUME NEW s, IsPick(s), NEW id, NEW who
  PROVE  LET t == WithTexture(s, id, who) IN
         IsPick(t) /\ t["texture"] = TextureFor(id, who) /\ \A j \in Kinds \ {"texture"} : t[j] = s[j]
<1>1. PICK v \in Selectable["texture"] : v = TextureFor(id, who)
  BY TextureForIs
<1>2. PICK t : t = WithTexture(s, id, who)
  OBVIOUS
<1>3. t = [s EXCEPT !["texture"] = v] /\ "texture" \in Kinds /\ Selectable["texture"] \subseteq Ids
  BY <1>1, <1>2, ChoicesAre DEF WithTexture, Kinds
<1>4. IsPick(t) /\ t["texture"] = v /\ \A j \in Kinds \ {"texture"} : t[j] = s[j]
  BY <1>3 DEF IsPick
<1>. QED
  BY <1>1, <1>2, <1>4

LEMMA WithIconIs ==
  ASSUME NEW s, IsPick(s), NEW id, NEW who, NEW known, who = NoAccount \/ IsAccount(who)
  PROVE  LET t == WithIcon(s, id, who, known) IN
         /\ IsPick(t) /\ t["icon"] = IconFor(id, who) /\ t["trail"] = TrailFor(s["trail"], who, known)
         /\ \A j \in Kinds \ {"icon", "trail"} : t[j] = s[j]
<1>1. PICK v \in Selectable["icon"] : v = IconFor(id, who)
  BY IconForIs
<1>2. PICK x : x = [s EXCEPT !["icon"] = v]
  OBVIOUS
<1>3. IsPick(x) /\ x["icon"] = v /\ \A j \in Kinds \ {"icon"} : x[j] = s[j]
  <2>1. "icon" \in Kinds /\ Selectable["icon"] \subseteq Ids
    BY ChoicesAre DEF Kinds
  <2>. QED
    BY <1>2, <2>1 DEF IsPick
<1>4. PICK old : old = s["trail"]
  OBVIOUS
<1>5. WithIcon(s, id, who, known) = WithTrail(x, old, who, known)
  BY <1>1, <1>2, <1>4 DEF WithIcon
<1>6. LET t == WithTrail(x, old, who, known) IN
      IsPick(t) /\ t["trail"] = TrailFor(old, who, known) /\ \A j \in Kinds \ {"trail"} : t[j] = x[j]
  BY <1>3, WithTrailIs
<1>. QED
  BY <1>1, <1>3, <1>4, <1>5, <1>6 DEF Kinds

LEMMA SyncedIs ==
  ASSUME NEW s, IsPick(s), NEW who, NEW known, who = NoAccount \/ IsAccount(who)
  PROVE  LET t == Synced(s, who, known) IN
         /\ IsPick(t) /\ t["icon"] = IconFor(s["icon"], who) /\ t["trail"] = TrailFor(s["trail"], who, known)
         /\ \A j \in Kinds \ {"icon", "trail"} : t[j] = s[j]
<1>1. PICK id : id = s["icon"]
  OBVIOUS
<1>2. Synced(s, who, known) = WithIcon(s, id, who, known)
  BY <1>1 DEF Synced
<1>. QED
  BY <1>1, <1>2, WithIconIs

\* What an answer shows: where the page agreed with the account, it still does.
Approaches(s, t, who) ==
  IsPick(t) /\ \A k \in Kinds : s[k] = who.pick[k] => t[k] = who.pick[k]

LEMMA KindsAre ==
  Kinds = {"trail", "icon", "texture", "mode", "settings", "binds"}
  BY DEF Kinds

\* For an account, when the page has the trails.
LEMMA ChoicesApproach ==
  ASSUME NEW s, IsPick(s), NEW who, Sound(who), NEW id
  PROVE  /\ id \in {s["trail"], who.pick["trail"]} => Approaches(s, WithTrail(s, id, who, "yes"), who)
         /\ LET t == WithTrail(s, who.pick["trail"], who, "yes") IN
            t["trail"] = who.pick["trail"] /\ t["icon"] = s["icon"]
         /\ id \in {s["icon"], who.pick["icon"]} => Approaches(s, WithIcon(s, id, who, "yes"), who)
         /\ LET t == WithIcon(s, who.pick["icon"], who, "yes") IN
            /\ t["icon"] = who.pick["icon"]
            /\ s["trail"] = who.pick["trail"] => t["trail"] = who.pick["trail"]
         /\ Approaches(s, Synced(s, who, "yes"), who)
<1>. USE DEF Approaches
<1>1. IsAccount(who) /\ who # NoAccount
  BY SoundIsUnlocked DEF Sound
<1>2. PICK trail, icon : trail = who.pick["trail"] /\ icon = who.pick["icon"]
  OBVIOUS
<1>3. PICK oldTrail, oldIcon : oldTrail = s["trail"] /\ oldIcon = s["icon"]
  OBVIOUS
<1>4. TrailFor(trail, who, "yes") = trail /\ IconFor(icon, who) = icon
  BY <1>1, <1>2, TrailForIs, IconForIs, SoundIsUnlocked
<1>5. ASSUME id \in {oldTrail, trail}
      PROVE  Approaches(s, WithTrail(s, id, who, "yes"), who)
  <2>1. PICK t : t = WithTrail(s, id, who, "yes")
    OBVIOUS
  <2>2. IsPick(t) /\ t["trail"] = TrailFor(id, who, "yes") /\ \A j \in Kinds \ {"trail"} : t[j] = s[j]
    BY <2>1, <1>1, WithTrailIs
  <2>. QED
    BY <2>1, <2>2, <1>2, <1>3, <1>4, <1>5
<1>6. LET t == WithTrail(s, trail, who, "yes") IN t["trail"] = trail /\ t["icon"] = s["icon"]
  BY <1>1, <1>4, WithTrailIs, KindsAre
<1>7. ASSUME id \in {oldIcon, icon}
      PROVE  Approaches(s, WithIcon(s, id, who, "yes"), who)
  <2>1. PICK t : t = WithIcon(s, id, who, "yes")
    OBVIOUS
  <2>2. /\ IsPick(t) /\ t["icon"] = IconFor(id, who) /\ t["trail"] = TrailFor(s["trail"], who, "yes")
        /\ \A j \in Kinds \ {"icon", "trail"} : t[j] = s[j]
    BY <2>1, <1>1, WithIconIs
  <2>. QED
    BY <2>1, <2>2, <1>2, <1>3, <1>4, <1>7
<1>8. LET t == WithIcon(s, icon, who, "yes") IN
      t["icon"] = icon /\ (s["trail"] = trail => t["trail"] = trail)
  BY <1>1, <1>4, WithIconIs
<1>9. Approaches(s, Synced(s, who, "yes"), who)
  <2>1. PICK t : t = Synced(s, who, "yes")
    OBVIOUS
  <2>2. /\ IsPick(t) /\ t["icon"] = IconFor(s["icon"], who) /\ t["trail"] = TrailFor(s["trail"], who, "yes")
        /\ \A j \in Kinds \ {"icon", "trail"} : t[j] = s[j]
    BY <2>1, <1>1, SyncedIs
  <2>. QED
    BY <2>1, <2>2, <1>2, <1>4
<1>. QED
  BY <1>2, <1>3, <1>5, <1>6, <1>7, <1>8, <1>9

LEMMA SavedApproaches ==
  ASSUME IsPick(shown), NEW q, Sound(q.user), q.what \in Kinds \cup {"purchase"}
  PROVE  LET t == Saved(q) IN
         /\ Approaches(shown, t, q.user)
         /\ q.what = "trail" => t["trail"] = q.user.pick["trail"] /\ t["icon"] = q.user.pick["icon"]
         /\ q.what = "icon" => t["icon"] = q.user.pick["icon"]
         /\ q.what = "texture" => t["texture"] = q.user.pick["texture"] /\ t["mode"] = q.user.pick["mode"]
         /\ q.what = "mode" => t["texture"] = shown["texture"] /\ t["mode"] = q.user.pick["mode"]
         /\ q.what \in {"settings", "binds"} => t = shown
<1>1. PICK u : u = q.user
  OBVIOUS
<1>2. Sound(u) /\ IsPick(u.pick)
  BY <1>1 DEF Sound, IsAccount
<1>3. PICK s : s = Synced(shown, u, "yes")
  OBVIOUS
<1>4. Approaches(shown, s, u) /\ IsPick(s)
  BY <1>2, <1>3, ChoicesApproach DEF Approaches
<1>5. PICK trail, icon, texture, mode : /\ trail = u.pick["trail"] /\ icon = u.pick["icon"]
                                        /\ texture = u.pick["texture"] /\ mode = u.pick["mode"]
  OBVIOUS
<1>6. CASE q.what = "trail"
  <2>1. PICK t : t = WithTrail(s, trail, u, "yes")
    OBVIOUS
  <2>2. Approaches(s, t, u) /\ t["trail"] = trail /\ IsPick(t)
    BY <1>2, <1>4, <1>5, <2>1, ChoicesApproach DEF Approaches
  <2>3. Saved(q) = WithIcon(t, icon, u, "yes")
    BY <1>1, <1>3, <1>5, <1>6, <2>1 DEF Saved
  <2>4. Approaches(t, Saved(q), u) /\ Saved(q)["icon"] = icon /\ Saved(q)["trail"] = trail
    BY <1>2, <1>5, <2>2, <2>3, ChoicesApproach
  <2>. QED
    BY <1>1, <1>4, <1>5, <1>6, <2>2, <2>4 DEF Approaches
<1>7. CASE q.what = "icon"
  <2>1. Saved(q) = WithIcon(s, icon, u, "yes")
    BY <1>1, <1>3, <1>5, <1>7 DEF Saved
  <2>2. Approaches(s, Saved(q), u) /\ Saved(q)["icon"] = icon
    BY <1>2, <1>4, <1>5, <2>1, ChoicesApproach
  <2>. QED
    BY <1>1, <1>4, <1>5, <1>7, <2>2 DEF Approaches
<1>8. CASE q.what = "texture"
  <2>1. PICK x : x = [shown EXCEPT !["mode"] = mode]
    OBVIOUS
  <2>2. mode \in Selectable["mode"] /\ mode \in Ids /\ texture \in Selectable["texture"]
    BY <1>2, <1>5, KindsAre, ChoicesAre DEF IsPick
  <2>3. IsPick(x) /\ x["mode"] = mode /\ \A j \in Kinds \ {"mode"} : x[j] = shown[j]
    BY <2>1, <2>2 DEF IsPick, Kinds
  <2>4. PICK t : t = WithTexture(x, texture, u)
    OBVIOUS
  <2>5. Saved(q) = t
    BY <1>1, <1>5, <1>8, <2>1, <2>4 DEF Saved
  <2>6. IsPick(t) /\ t["texture"] = texture /\ \A j \in Kinds \ {"texture"} : t[j] = x[j]
    BY <2>2, <2>3, <2>4, WithTextureIs, TextureForIs
  <2>. QED
    BY <1>1, <1>5, <1>8, <2>3, <2>5, <2>6, KindsAre DEF Approaches
<1>9. CASE q.what = "mode"
  <2>1. PICK x : x = [shown EXCEPT !["mode"] = mode]
    OBVIOUS
  <2>2. mode \in Selectable["mode"] /\ mode \in Ids
    BY <1>2, <1>5, KindsAre, ChoicesAre DEF IsPick
  <2>3. IsPick(x) /\ x["mode"] = mode /\ \A j \in Kinds \ {"mode"} : x[j] = shown[j]
    BY <2>1, <2>2 DEF IsPick, Kinds
  <2>4. Saved(q) = x
    BY <1>1, <1>5, <1>9, <2>1 DEF Saved
  <2>. QED
    BY <1>1, <1>5, <1>9, <2>3, <2>4, KindsAre DEF Approaches
<1>10. CASE q.what = "purchase"
  <2>1. PICK old : old = shown["texture"]
    OBVIOUS
  <2>2. Saved(q) = WithTexture(s, old, u)
    BY <1>1, <1>3, <1>10, <2>1 DEF Saved
  <2>3. PICK t : t = Saved(q)
    OBVIOUS
  <2>4. old \in Selectable["texture"]
    BY <2>1, KindsAre DEF IsPick
  <2>5. IsPick(t) /\ t["texture"] = old /\ \A j \in Kinds \ {"texture"} : t[j] = s[j]
    BY <1>4, <2>2, <2>3, <2>4, WithTextureIs, TextureForIs
  <2>6. s["texture"] = old
    BY <1>2, <1>3, <2>1, SyncedIs, KindsAre DEF Sound
  <2>. QED
    BY <1>1, <1>4, <1>10, <2>3, <2>5, <2>6, KindsAre DEF Approaches
<1>11. CASE q.what \in {"settings", "binds"}
  BY <1>11 DEF Saved, Approaches
<1>. QED
  BY <1>6, <1>7, <1>8, <1>9, <1>10, <1>11, KindsAre

LEMMA RefreshedApproaches ==
  ASSUME NEW s, IsPick(s), NEW who, who = NoAccount \/ IsAccount(who), NEW known
  PROVE  /\ IsPick(Refreshed(s, who, known))
         /\ Sound(who) /\ known = "yes" =>
              /\ Approaches(s, Refreshed(s, who, known), who)
              /\ \A k \in Kinds \ {"trail"} : Refreshed(s, who, known)[k] = who.pick[k]
<1>. USE KindsAre
<1>1. PICK trail : trail = s["trail"]
  OBVIOUS
<1>2. PICK t : t = WithTrail(Synced(s, who, known), trail, who, known)
  OBVIOUS
<1>3. IsPick(t) /\ t["trail"] = TrailFor(trail, who, known)
  BY <1>2, SyncedIs, WithTrailIs
<1>4. PICK icon, texture : icon = t["icon"] /\ texture = t["texture"]
  OBVIOUS
<1>5. CASE who = NoAccount
  <2>1. Refreshed(s, who, known) = WithTexture(WithIcon(t, icon, who, known), texture, who)
    BY <1>1, <1>2, <1>4, <1>5 DEF Refreshed
  <2>2. IsPick(Refreshed(s, who, known))
    BY <1>3, <2>1, WithIconIs, WithTextureIs
  <2>. QED
    BY <2>2, <1>5, SoundIsUnlocked
<1>6. CASE who # NoAccount
  <2>1. PICK pick : pick = who.pick
    OBVIOUS
  <2>2. IsPick(pick) /\ IsAccount(who)
    BY <1>6, <2>1 DEF IsAccount
  <2>3. PICK i : i = WithIcon(t, pick["icon"], who, known)
    OBVIOUS
  <2>4. /\ IsPick(i) /\ i["icon"] = IconFor(pick["icon"], who)
        /\ i["trail"] = TrailFor(t["trail"], who, known)
    BY <1>3, <2>2, <2>3, WithIconIs
  <2>5. PICK x : x = WithTexture(i, pick["texture"], who)
    OBVIOUS
  <2>6. /\ IsPick(x) /\ x["texture"] = pick["texture"]
        /\ x["icon"] = i["icon"] /\ x["trail"] = i["trail"]
    <3>1. pick["texture"] \in Selectable["texture"]
      BY <2>2 DEF IsPick
    <3>2. TextureFor(pick["texture"], who) = pick["texture"]
      BY <3>1, TextureForIs
    <3>. QED
      BY <2>4, <2>5, <3>2, WithTextureIs
  <2>7. PICK r : r = Refreshed(s, who, known)
    OBVIOUS
  <2>8. r = [x EXCEPT !["mode"] = pick["mode"],
                      !["settings"] = IF known = "yes" THEN pick["settings"] ELSE x["settings"],
                      !["binds"] = IF known = "yes" THEN pick["binds"] ELSE x["binds"]]
    BY <1>1, <1>2, <1>6, <2>1, <2>3, <2>5, <2>7 DEF Refreshed
  <2>9. /\ IsPick(r) /\ \A k \in {"trail", "icon", "texture"} : r[k] = x[k]
        /\ r["mode"] = pick["mode"]
        /\ known = "yes" => r["settings"] = pick["settings"] /\ r["binds"] = pick["binds"]
    BY <2>2, <2>6, <2>8, ChoicesAre DEF IsPick
  <2>10. ASSUME Sound(who), known = "yes"
         PROVE  /\ r["icon"] = pick["icon"] /\ r["texture"] = pick["texture"]
                /\ trail = pick["trail"] => r["trail"] = pick["trail"]
    <3>1. IconFor(pick["icon"], who) = pick["icon"]
      BY <2>1, <2>2, <2>10, SoundIsUnlocked, IconForIs
    <3>2. TrailFor(pick["trail"], who, known) = pick["trail"]
      BY <1>6, <2>1, <2>2, <2>10, TrailForIs
    <3>. QED
      BY <1>3, <2>4, <2>6, <2>9, <3>1, <3>2
  <2>. QED
    BY <1>1, <2>1, <2>7, <2>9, <2>10 DEF Approaches
<1>. QED
  BY <1>5, <1>6

\* What a failure puts back.
LEMMA PutBackIs ==
  ASSUME NEW s, IsPick(s), NEW who, who = NoAccount \/ IsAccount(who),
         NEW q, q.what \in Kinds \cup {"purchase"},
         q.what \in Kinds => q.before \in Selectable[q.what]
  PROVE  LET t == PutBack(q, s, who) IN
         /\ IsPick(t) /\ (~Reverts(q) => t = s)
         /\ \A k \in Kinds \ {q.what, "trail"} : t[k] = s[k]
         /\ q.what # "icon" => t["trail"] = s["trail"]
         /\ q.what = "icon" /\ Reverts(q) =>
              t["icon"] = IconFor(q.before, who) /\ t["trail"] = TrailFor(s["trail"], who, trails')
         /\ q.what \in {"texture", "mode", "binds"} => t[q.what] = q.before
<1>. USE KindsAre
<1>1. PICK t, before : t = PutBack(q, s, who) /\ before = q.before
  OBVIOUS
<1>2. CASE ~Reverts(q)
  <2>1. t = s
    BY <1>1, <1>2 DEF PutBack
  <2>. QED
    BY <1>1, <1>2, <2>1 DEF Reverts
<1>3. CASE Reverts(q) /\ q.what = "icon"
  <2>1. PICK known : known = trails'
    OBVIOUS
  <2>2. t = WithIcon(s, before, who, known)
    BY <1>1, <1>3, <2>1 DEF PutBack
  <2>3. /\ IsPick(t) /\ t["icon"] = IconFor(before, who) /\ t["trail"] = TrailFor(s["trail"], who, known)
        /\ \A j \in Kinds \ {"icon", "trail"} : t[j] = s[j]
    BY <2>2, WithIconIs
  <2>. QED
    BY <1>1, <1>3, <2>1, <2>3
<1>4. CASE Reverts(q) /\ q.what # "icon"
  <2>1. PICK what \in {"texture", "mode", "binds"} : what = q.what
    BY <1>4 DEF Reverts
  <2>2. t = [s EXCEPT ![what] = before]
    BY <1>1, <1>4, <2>1 DEF PutBack
  <2>3. IsPick(t) /\ t[what] = before /\ \A j \in Kinds \ {what} : t[j] = s[j]
    BY <1>1, <2>1, <2>2, ChoicesAre DEF IsPick
  <2>. QED
    BY <1>1, <1>4, <2>1, <2>3
<1>. QED
  BY <1>2, <1>3, <1>4

\* A handler that begins holds up no agreement but its own.
LEMMA BeginKeeps ==
  ASSUME MenusInv, NEW p \in Flows, flow[p].at = "idle",
         NEW f, HasFields(f), FlowIs(f), f.at = "sent", f.behind = {}, Begin(p, f),
         UNCHANGED <<account, agreed, watched>>
  PROVE  /\ FlowsInv' /\ OrderInv' /\ AnswersTell'
         /\ (Busy = {} => AloneIs(f)') => AloneInv'
         /\ Busy = {} => Undisputed
         /\ agreed' = "yes" /\ Undisputed' => Agreement /\ ~Concerns(f)
<1>. USE DEF MenusInv
<1>1. /\ HasFields(flow'[p]) /\ SameHandler(flow'[p], f) /\ flow'[p].behind = {}
      /\ flow'[p].met = IF Busy = {} THEN "no" ELSE "yes"
      /\ \A r \in Flows \ {p} :
           /\ HasFields(flow'[r]) /\ SameHandler(flow'[r], flow[r]) /\ flow'[r].behind = flow[r].behind
           /\ r \in Busy => flow'[r].met = "yes"
  BY BeginChanges
<1>2. Served' = Served /\ Busy' = Busy \cup {p} /\ p \notin Busy /\ p \notin Served /\ flow[p].behind = {}
  BY <1>1 DEF Served, Busy, SameHandler, OrderInv
<1>3. ASSUME NEW r \in Flows
      PROVE  /\ HasFields(flow'[r]) /\ flow'[r].at \in {"idle", "sent", "served"}
             /\ flow'[r].at # "idle" => FlowIs(flow'[r])
  <2>1. PICK g : g = flow'[r]
    OBVIOUS
  <2>2. CASE r = p
    BY <1>1, <2>1, <2>2, SameHandlers DEF SameHandler
  <2>3. CASE r # p
    <3>1. PICK h : h = flow[r]
      OBVIOUS
    <3>2. SameHandler(g, h) /\ HasFields(g) /\ h.at \in {"idle", "sent", "served"}
          /\ (h.at # "idle" => FlowIs(h))
      BY <1>1, <2>1, <2>3, <3>1 DEF FlowsInv
    <3>3. FlowIs(g) <=> FlowIs(h)
      BY <3>2, SameHandlers
    <3>. QED
      BY <2>1, <3>2, <3>3 DEF SameHandler
  <2>. QED
    BY <2>2, <2>3
<1>4. FlowsInv'
  BY <1>3 DEF FlowsInv, Begin
<1>5. OrderInv'
  <2>1. \A r \in Flows : flow'[r].behind = flow[r].behind /\ (Stale(r)' <=> Stale(r))
    BY <1>1, <1>2 DEF Stale
  <2>2. OrderInv /\ Served \subseteq Flows /\ agreed' = agreed
    BY DEF Served
  <2>. HIDE DEF MenusInv
  <2>. QED
    BY <1>2, <2>1, <2>2 DEF OrderInv
<1>6. AnswersTell'
  <2>1. \A r \in Served : /\ flow'[r].behind = flow[r].behind /\ flow'[r].status = flow[r].status
                          /\ flow'[r].user = flow[r].user /\ (Writes(flow[r])' <=> Writes(flow[r]))
    <3>. SUFFICES ASSUME NEW r \in Served
                  PROVE  /\ flow'[r].behind = flow[r].behind /\ flow'[r].status = flow[r].status
                         /\ flow'[r].user = flow[r].user /\ (Writes(flow[r])' <=> Writes(flow[r]))
      OBVIOUS
    <3>1. r \in Flows \ {p}
      BY <1>2 DEF Served
    <3>. QED
      BY <1>1, <3>1 DEF SameHandler, Writes
  <2>2. \A a : WatchedOf(a)' = WatchedOf(a)
    BY DEF WatchedOf
  <2>. QED
    BY <1>2, <2>1, <2>2 DEF AnswersTell, Stale, WatchedOf
<1>7. ASSUME Busy = {} => AloneIs(f)'
      PROVE  AloneInv'
  <2>. SUFFICES ASSUME NEW r \in Busy'
                PROVE  /\ flow'[r].met \in {"no", "yes"}
                       /\ flow'[r].met = "no" => Busy' = {r} /\ AloneIs(flow[r])'
    BY DEF AloneInv
  <2>1. CASE r = p
    <3>1. AloneIs(f)' => AloneIs(flow[p])'
      BY <1>1 DEF SameHandler, AloneIs
    <3>. QED
      BY <1>1, <1>2, <1>7, <2>1, <3>1
  <2>2. CASE r # p
    <3>1. r \in Flows \ {p} /\ r \in Busy
      BY <1>2, <2>2 DEF Busy
    <3>. QED
      BY <1>1, <3>1
  <2>. QED
    BY <2>1, <2>2
<1>8. ASSUME agreed' = "yes", Undisputed'
      PROVE  Agreement /\ ~Concerns(f)
  <2>1. ~Concerns(f)
    BY <1>1, <1>2, <1>8 DEF Undisputed, Concerns, SameHandler
  <2>2. ASSUME NEW r \in Busy PROVE ~Concerns(flow[r])
    <3>1. r \in Flows \ {p}
      BY <1>2 DEF Busy
    <3>. QED
      BY <1>1, <1>2, <1>8, <3>1 DEF Undisputed, Concerns, SameHandler
  <2>. QED
    BY <1>8, <2>1, <2>2 DEF Undisputed
<1>. QED
  BY <1>4, <1>5, <1>6, <1>7, <1>8 DEF Undisputed

\* A handler that goes on: what holds of the others, and what its answer told.
LEMMA GoesKeeps ==
  ASSUME MenusInv, NEW p \in Served, NEW f, Goes(p, f),
         f = Quiet \/ (HasFields(f) /\ FlowIs(f) /\ f.at = "sent" /\ f.behind = {} /\ f.met = flow[p].met),
         UNCHANGED <<account, watched>>, agreed' = "yes" => flow[p].behind = {}
  PROVE  /\ FlowsInv' /\ OrderInv' /\ AnswersTell'
         /\ (f # Quiet /\ f.met = "no" => AloneIs(f)') => AloneInv'
         /\ Undisputed' => f = Quiet \/ ~Concerns(f)
         /\ Undisputed' /\ flow[p].behind = {} /\ flow[p].status = "ok" =>
              WatchedOf(flow[p].user) = WatchedOf(account)
         /\ Undisputed' /\ agreed = "yes" /\ ~Concerns(flow[p]) => Agreement
<1>. USE DEF MenusInv
<1>1. /\ flow'[p] = f
      /\ \A r \in Flows \ {p} :
           /\ HasFields(flow'[r]) /\ SameHandler(flow'[r], flow[r]) /\ flow'[r].met = flow[r].met
           /\ flow'[r].behind = (flow[r].behind \ {p}) \cup ({r} \cap flow[p].behind)
  BY GoesChanges DEF Served
<1>2. p \in Flows /\ p \in Busy /\ f.at \in {"idle", "sent"} /\ f.behind = {} /\ HasFields(f)
  BY QuietIs DEF Served, Busy
<1>3. /\ Served' = Served \ {p} /\ Busy' \ {p} = Busy \ {p} /\ (p \in Busy' <=> f # Quiet)
  <2>1. f # Quiet <=> f.at # "idle"
    BY QuietIs
  <2>. QED
    BY <1>1, <1>2, <2>1 DEF Served, Busy, SameHandler
<1>4. ASSUME NEW r \in Flows
      PROVE  /\ HasFields(flow'[r]) /\ flow'[r].at \in {"idle", "sent", "served"}
             /\ flow'[r].at # "idle" => FlowIs(flow'[r])
  <2>2. CASE r = p
    BY <1>1, <1>2, <2>2, QuietIs
  <2>3. CASE r # p
    <3>1. PICK g, h : g = flow'[r] /\ h = flow[r]
      OBVIOUS
    <3>2. SameHandler(g, h) /\ HasFields(g) /\ h.at \in {"idle", "sent", "served"}
          /\ (h.at # "idle" => FlowIs(h))
      BY <1>1, <2>3, <3>1 DEF FlowsInv
    <3>3. FlowIs(g) <=> FlowIs(h)
      BY <3>2, SameHandlers
    <3>. QED
      BY <3>1, <3>2, <3>3 DEF SameHandler
  <2>. QED
    BY <2>2, <2>3
<1>5. FlowsInv'
  BY <1>4 DEF FlowsInv, Goes
<1>6. \A r \in Served \ {p} :
        /\ flow'[r].behind = (flow[r].behind \ {p}) \cup ({r} \cap flow[p].behind)
        /\ flow'[r].status = flow[r].status /\ flow'[r].user = flow[r].user
        /\ Writes(flow[r])' <=> Writes(flow[r])
        /\ Stale(r)' <=> Stale(r) \/ r \in flow[p].behind
  <2>. SUFFICES ASSUME NEW r \in Served \ {p}
                PROVE  /\ flow'[r].behind = (flow[r].behind \ {p}) \cup ({r} \cap flow[p].behind)
                       /\ flow'[r].status = flow[r].status /\ flow'[r].user = flow[r].user
                       /\ Writes(flow[r])' <=> Writes(flow[r])
                       /\ Stale(r)' <=> Stale(r) \/ r \in flow[p].behind
    OBVIOUS
  <2>1. r \in Flows \ {p}
    BY DEF Served
  <2>. QED
    BY <1>1, <2>1 DEF SameHandler, Writes, Stale
<1>7. \A r \in Flows \ Served' : flow'[r].behind = {}
  <2>1. \A r \in Flows \ (Served \cup {p}) : flow[r].behind = {} /\ r \notin flow[p].behind
    BY <1>2 DEF OrderInv
  <2>. QED
    BY <1>1, <1>2, <1>3, <2>1
<1>8. OrderInv'
  <2>1. \A r \in Flows : flow'[r].behind \subseteq Served' /\ (flow'[r].behind # {} => r \in Served')
    BY <1>2, <1>3, <1>6, <1>7 DEF OrderInv
  <2>2. \A q, r \in Served' : q # r => q \in flow'[r].behind \/ r \in flow'[q].behind
    BY <1>3, <1>6 DEF OrderInv
  <2>3. \A q, r \in Served' : q \in flow'[r].behind /\ Stale(r)' => Stale(q)'
    <3>. SUFFICES ASSUME NEW q \in Served', NEW r \in Served', q \in flow'[r].behind, Stale(r)'
                  PROVE  Stale(q)'
      OBVIOUS
    <3>1. q \in Served \ {p} /\ r \in Served \ {p}
      BY <1>3
    <3>2. CASE q = r
      BY <3>2
    <3>3. CASE q # r
      <4>1. q \in flow[r].behind
        BY <1>6, <3>1, <3>3
      <4>2. CASE Stale(r)
        BY <1>6, <3>1, <4>1, <4>2 DEF OrderInv
      <4>3. CASE r \in flow[p].behind
        <5>1. q \in flow[p].behind
          BY <3>1, <3>3, <4>1, <4>3 DEF OrderInv
        <5>. QED
          BY <1>6, <3>1, <5>1
      <4>. QED
        BY <1>6, <3>1, <4>2, <4>3
    <3>. QED
      BY <3>2, <3>3
  <2>4. ASSUME agreed' = "yes", NEW r \in Flows PROVE ~Stale(r)'
    <3>1. CASE r \in Served'
      <4>1. r \in Served \ {p} /\ flow[p].behind = {} /\ p \in Served
        BY <1>3, <2>4, <3>1
      <4>2. p \in flow[r].behind
        BY <4>1 DEF OrderInv
      <4>3. ~Stale(r)
        BY <4>1, <4>2 DEF OrderInv, Stale
      <4>. QED
        BY <1>6, <4>1, <4>3
    <3>2. CASE r \notin Served'
      BY <1>7, <3>2 DEF Stale
    <3>. QED
      BY <3>1, <3>2
  <2>5. \A q, r, s \in Served' :
          q # r /\ r # s /\ q # s /\ q \in flow'[r].behind /\ r \in flow'[s].behind
            => q \in flow'[s].behind
    BY <1>3, <1>6 DEF OrderInv
  <2>. QED
    BY <2>1, <2>2, <2>3, <2>4, <2>5 DEF OrderInv
<1>9. \A a : WatchedOf(a)' = WatchedOf(a)
  BY DEF WatchedOf
<1>10. AnswersTell'
  <2>. SUFFICES ASSUME NEW r \in Served', ~Stale(r)', flow'[r].status = "ok",
                       \A q \in Served' : r \in flow'[q].behind => ~Writes(flow[q])'
                PROVE  WatchedOf(flow[r].user)' = WatchedOf(account)'
    BY DEF AnswersTell
  <2>1. r \in Served \ {p} /\ ~Stale(r) /\ r \notin flow[p].behind /\ flow[r].status = "ok"
    BY <1>3, <1>6
  <2>2. \A q \in Served : r \in flow[q].behind => ~Writes(flow[q])
    <3>. SUFFICES ASSUME NEW q \in Served, r \in flow[q].behind PROVE ~Writes(flow[q])
      OBVIOUS
    <3>1. q # p
      BY <2>1
    <3>. QED
      BY <1>3, <1>6, <2>1, <3>1
  <2>3. WatchedOf(flow[r].user) = WatchedOf(account)
    BY <2>1, <2>2 DEF AnswersTell
  <2>. QED
    BY <1>6, <2>1, <2>3 DEF WatchedOf
<1>11. ASSUME f # Quiet /\ f.met = "no" => AloneIs(f)'
       PROVE  AloneInv'
  <2>. SUFFICES ASSUME NEW r \in Busy'
                PROVE  /\ flow'[r].met \in {"no", "yes"}
                       /\ flow'[r].met = "no" => Busy' = {r} /\ AloneIs(flow[r])'
    BY DEF AloneInv
  <2>1. CASE r = p
    <3>1. f # Quiet /\ f.met = flow[p].met
      BY <1>3, <2>1
    <3>2. flow[p].met \in {"no", "yes"} /\ (flow[p].met = "no" => Busy = {p})
      BY <1>2 DEF AloneInv
    <3>3. f = flow'[p]
      BY <1>1
    <3>4. flow'[p].met = "no" => Busy' = {p}
      BY <1>3, <2>1, <3>1, <3>2, <3>3
    <3>5. AloneIs(f)' <=> AloneIs(flow[p])'
      BY <3>3 DEF AloneIs
    <3>. QED
      BY <1>11, <2>1, <3>1, <3>2, <3>3, <3>4, <3>5
  <2>2. CASE r # p
    <3>1. r \in Flows \ {p} /\ r \in Busy
      BY <1>3, <2>2 DEF Busy
    <3>2. flow[r].met = "yes"
      BY <1>2, <3>1 DEF AloneInv
    <3>. QED
      BY <1>1, <3>1, <3>2
  <2>. QED
    BY <2>1, <2>2
<1>12. ASSUME Undisputed'
       PROVE  /\ f = Quiet \/ ~Concerns(f)
              /\ \A r \in Busy \ {p} : ~Concerns(flow[r])
  <2>1. f # Quiet => ~Concerns(f)
    BY <1>1, <1>3, <1>12 DEF Undisputed, Concerns
  <2>2. ASSUME NEW r \in Busy \ {p} PROVE ~Concerns(flow[r])
    <3>1. r \in Flows \ {p} /\ r \in Busy'
      BY <1>3 DEF Busy
    <3>. QED
      BY <1>1, <1>12, <3>1 DEF Undisputed, Concerns, SameHandler
  <2>. QED
    BY <2>1, <2>2
<1>13. ASSUME Undisputed', flow[p].behind = {}, flow[p].status = "ok"
       PROVE  WatchedOf(flow[p].user) = WatchedOf(account)
  <2>1. ASSUME NEW r \in Served, p \in flow[r].behind PROVE ~Writes(flow[r])
    <3>1. r \in Busy \ {p}
      BY <1>13, <2>1 DEF Served, Busy
    <3>. QED
      BY <1>12, <1>13, <3>1 DEF Concerns, Writes
  <2>. QED
    BY <1>13, <2>1 DEF AnswersTell, Stale
<1>14. Undisputed' /\ agreed = "yes" /\ ~Concerns(flow[p]) => Agreement
  BY <1>12 DEF Undisputed
<1>. QED
  BY <1>5, <1>8, <1>10, <1>11, <1>12, <1>13, <1>14

LEMMA BeginsWell ==
  ASSUME MenusInv, NEW p \in Flows, flow[p].at = "idle",
         NEW f, HasFields(f), FlowIs(f), f.at = "sent", f.behind = {}, Begin(p, f),
         UNCHANGED <<account, agreed, watched>>,
         MenuTypes', Busy = {} => AloneIs(f)',
         agreed = "yes" /\ Agreement /\ ~Concerns(f) => Agreement'
  PROVE  MenusInv'
  BY BeginKeeps DEF MenusInv

LEMMA GoesWell ==
  ASSUME MenusInv, NEW p \in Served, NEW f, Goes(p, f),
         f = Quiet \/ (HasFields(f) /\ FlowIs(f) /\ f.at = "sent" /\ f.behind = {} /\ f.met = flow[p].met),
         UNCHANGED <<account, watched>>, agreed' = "yes" => flow[p].behind = {},
         MenuTypes', f # Quiet /\ f.met = "no" => AloneIs(f)',
         /\ agreed' = "yes" /\ (f = Quiet \/ ~Concerns(f))
         /\ flow[p].status = "ok" => WatchedOf(flow[p].user) = WatchedOf(account)
         /\ agreed = "yes" /\ ~Concerns(flow[p]) => Agreement
         => Agreement'
  PROVE  MenusInv'
  BY GoesKeeps DEF MenusInv

\* A choice that is sent, or will be once the player has signed in.
Sendable(k, id, old, s, doing) ==
  /\ k \in Kinds /\ id \in Selectable[k] /\ old \in Selectable[k] /\ IsPick(s)
  /\ doing \in {"login", "save"}
  /\ doing = "login" => k \notin {"settings", "binds"} /\ (k = "icon" => id \notin Paid)

LEMMA RequestsAre ==
  ASSUME NEW k, NEW id, NEW key, NEW old, NEW s, NEW doing, Sendable(k, id, old, s, doing),
         NEW f, f = Request(k, id, key, old, s, doing)
  PROVE  /\ HasFields(f) /\ FlowIs(f) /\ f.at = "sent" /\ f.behind = {} /\ f.what = k /\ f.stage = doing
         /\ f.before = old
         /\ doing = "save" =>
              /\ DOMAIN f.body = BodyKinds(k) /\ k \in DOMAIN f.body
              /\ k \in {"settings", "binds"} => f.body[k] = id
              /\ k = "mode" => f.body["texture"] = s["texture"]
<1>1. PICK body : body = Body(k, id, s)
  OBVIOUS
<1>2. /\ HasFields(f) /\ f.at = "sent" /\ f.what = k /\ f.stage = doing /\ f.id = id
      /\ f.before = old /\ f.behind = {} /\ f.status = "none"
      /\ f.body = IF doing = "login" THEN <<>> ELSE body
  BY <1>1, RequestIs
<1>3. /\ DOMAIN body = BodyKinds(k)
      /\ \A j \in BodyKinds(k) : body[j] \in Selectable[j]
      /\ k \notin {"texture", "mode"} => body[k] = id
      /\ k = "mode" => body["texture"] = s["texture"]
  BY <1>1, BodyIs DEF Sendable
<1>4. k \in Whats \ {"none", "refresh", "reauth", "purchase"} /\ k \in BodyKinds(k)
  BY KindsAre DEF Sendable, Whats, BodyKinds
<1>5. doing = "login" => DOMAIN f.body = {}
  BY <1>2
<1>6. FlowIs(f)
  BY <1>2, <1>3, <1>4, <1>5 DEF FlowIs, Sendable
<1>. QED
  BY <1>1, <1>2, <1>3, <1>4, <1>6

LEMMA SameOwned ==
  ASSUME NEW a, NEW b, a # NoAccount, b # NoAccount, a.owned = b.owned
  PROVE  \A k, known : Unlocked(k, a, known) = Unlocked(k, b, known)
  BY DEF Unlocked

LEMMA ClickTrailOrIconKeeps ==
  ASSUME MenusInv, NEW p \in Flows, NEW k, NEW id, ClickTrailOrIcon(p, k, id)
  PROVE  MenusInv'
<1>. USE KindsAre
<1>0. /\ MenuTypes /\ k \in {"trail", "icon"} /\ k \in Kinds
      /\ UNCHANGED <<account, trails, dialog, agreed, watched>>
  BY DEF ClickTrailOrIcon, MenusInv, bounds
<1>1. PICK who, s, doing, old :
        /\ who = IF player = NoAccount THEN NoAccount ELSE [player EXCEPT !.pick[k] = id]
        /\ s = IF k = "trail" THEN WithTrail([shown EXCEPT !["trail"] = id], id, who, trails)
               ELSE WithIcon(shown, id, who, trails)
        /\ doing = IF player = NoAccount THEN "login" ELSE "save"
        /\ old = shown[k]
  OBVIOUS
<1>2. PICK f : f = Request(k, id, id, old, s, doing)
  OBVIOUS
<1>3. player' = who /\ shown' = s /\ Begin(p, f) /\ flow[p].at = "idle" /\ id \in Unlocked(k, player, trails)
  BY <1>1, <1>2 DEF ClickTrailOrIcon
<1>4. id \in Selectable[k] /\ id \in Ids /\ (player = NoAccount => id \notin Paid)
  BY <1>0, <1>3, ChoicesAre DEF Unlocked
<1>5. player # NoAccount =>
        /\ IsAccount(who) /\ who # NoAccount /\ who.owned = player.owned
        /\ \A j \in Kinds \ {k} : who.pick[j] = player.pick[j]
  <2>. SUFFICES ASSUME player # NoAccount
                PROVE  /\ IsAccount(who) /\ who # NoAccount /\ who.owned = player.owned
                       /\ \A j \in Kinds \ {k} : who.pick[j] = player.pick[j]
    OBVIOUS
  <2>1. who = [player EXCEPT !.pick[k] = id] /\ player \in PlayerAccounts /\ IsPick(player.pick)
    BY <1>0, <1>1 DEF MenuTypes, IsAccount
  <2>2. who \in PlayerAccounts /\ who.owned = player.owned /\ who.pick = [player.pick EXCEPT ![k] = id]
    BY <1>0, <1>4, <2>1 DEF PlayerAccounts
  <2>3. IsPick(who.pick) /\ \A j \in Kinds \ {k} : who.pick[j] = player.pick[j]
    BY <1>0, <1>4, <2>1, <2>2 DEF IsPick
  <2>. QED
    BY <2>2, <2>3, ChoicesAre DEF IsAccount
<1>6. who = NoAccount \/ IsAccount(who)
  BY <1>1, <1>5
<1>7. IsPick(shown) /\ old \in Selectable[k]
  BY <1>0, <1>1 DEF MenuTypes, IsPick
<1>8. /\ IsPick(s) /\ \A j \in Kinds \ {"trail", "icon"} : s[j] = shown[j]
      /\ k = "trail" => s["icon"] = shown["icon"]
      /\ k = "icon" => s["trail"] = TrailFor(shown["trail"], who, trails)
  <2>1. CASE k = "trail"
    <3>1. PICK x : x = [shown EXCEPT !["trail"] = id]
      OBVIOUS
    <3>2. IsPick(x) /\ \A j \in Kinds \ {"trail"} : x[j] = shown[j]
      BY <1>4, <1>7, <2>1, <3>1 DEF IsPick
    <3>3. s = WithTrail(x, id, who, trails)
      BY <1>1, <2>1, <3>1
    <3>4. IsPick(s) /\ \A j \in Kinds \ {"trail"} : s[j] = x[j]
      BY <1>6, <3>2, <3>3, WithTrailIs
    <3>. QED
      BY <2>1, <3>2, <3>4
  <2>2. CASE k = "icon"
    BY <1>1, <1>6, <1>7, <2>2, WithIconIs
  <2>. QED
    BY <1>0, <2>1, <2>2
<1>9. /\ HasFields(f) /\ FlowIs(f) /\ f.at = "sent" /\ f.behind = {} /\ f.what = k /\ f.stage = doing
      /\ f.before = old /\ (doing = "save" => DOMAIN f.body = {k}) /\ (doing = "login" => DOMAIN f.body = {})
  <2>1. doing \in {"login", "save"} /\ (doing = "login" => id \notin Paid)
    BY <1>1, <1>4
  <2>2. BodyKinds(k) = {k}
    BY <1>0 DEF BodyKinds
  <2>3. doing = "login" => DOMAIN f.body = {}
    BY <1>2, RequestIs
  <2>4. Sendable(k, id, old, s, doing)
    BY <1>0, <1>4, <1>7, <1>8, <2>1 DEF Sendable
  <2>. QED
    BY <1>2, <2>2, <2>3, <2>4, RequestsAre
<1>10. MenuTypes'
  BY <1>0, <1>1, <1>3, <1>5, <1>6, <1>8 DEF MenuTypes
<1>11. ASSUME agreed = "yes", Agreement
       PROVE  /\ player # NoAccount
              /\ watched = "icon" => shown["icon"] \in Unlocked("icon", who, trails')
              /\ watched = k => old = account.pick[k]
              /\ watched # k => Agreement'
  <2>1. player # NoAccount
    BY <1>0, <1>11 DEF MenuTypes
  <2>2. \A known : Unlocked("icon", who, known) = Unlocked("icon", player, known)
    BY <1>5, <2>1, SameOwned
  <2>3. watched = "trail" /\ k = "icon" => s["trail"] = shown["trail"] /\ who.pick["trail"] = player.pick["trail"]
    BY <1>5, <1>8, <1>11, <2>1, TrailForIs DEF Agreement
  <2>4. watched \in Kinds \cup {"owned"}
    BY <1>0 DEF MenuTypes, Aspects
  <2>. QED
    BY <1>0, <1>1, <1>3, <1>5, <1>8, <1>11, <2>1, <2>2, <2>3, <2>4 DEF Agreement
<1>12. Busy = {} => AloneIs(f)'
  <2>. SUFFICES ASSUME Busy = {} PROVE AloneIs(f)'
    OBVIOUS
  <2>1. agreed = "yes" => Agreement
    BY DEF MenusInv, Undisputed
  <2>2. doing = "login" <=> player' = NoAccount
    BY <1>1, <1>3, <1>5
  <2>. QED
    BY <1>0, <1>1, <1>3, <1>9, <1>11, <2>1, <2>2 DEF AloneIs
<1>13. agreed = "yes" /\ Agreement /\ ~Concerns(f) => Agreement'
  BY <1>0, <1>9, <1>11 DEF Concerns
<1>. QED
  BY <1>0, <1>3, <1>9, <1>10, <1>12, <1>13, BeginsWell

LEMMA ClickTextureKeeps ==
  ASSUME MenusInv, NEW p \in Flows, NEW k \in Kinds, NEW id, ClickTexture(p, k, id)
  PROVE  MenusInv'
<1>. USE KindsAre
<1>0. MenuTypes /\ UNCHANGED <<account, player, trails, dialog, agreed, watched>>
  BY DEF ClickTexture, MenusInv, bounds
<1>1. id \in Selectable[k] /\ IsPick(shown) /\ shown[k] \in Selectable[k]
  BY <1>0, ChoicesAre DEF ClickTexture, MenuTypes, IsPick
<1>2. k \in {"texture", "mode"}
  BY DEF ClickTexture, MenusInv
<1>3. PICK s, doing, old, key :
        /\ s = [shown EXCEPT ![k] = id] /\ doing = IF player = NoAccount THEN "login" ELSE "save"
        /\ old = shown[k] /\ key = Key(k, id)
  OBVIOUS
<1>4. PICK f : f = Request(k, id, key, old, s, doing)
  OBVIOUS
<1>5. shown' = s /\ Begin(p, f) /\ flow[p].at = "idle"
  BY <1>3, <1>4 DEF ClickTexture
<1>6. IsPick(s) /\ s[k] = id /\ \A j \in Kinds \ {k} : s[j] = shown[j]
  BY <1>1, <1>3, ChoicesAre DEF IsPick
<1>7. Sendable(k, id, old, s, doing)
  BY <1>1, <1>2, <1>3, <1>6 DEF Sendable
<1>8. /\ HasFields(f) /\ FlowIs(f) /\ f.at = "sent" /\ f.behind = {} /\ f.what = k /\ f.stage = doing
      /\ f.before = old
      /\ doing = "save" => DOMAIN f.body = {"texture", "mode"} /\ (k = "mode" => f.body["texture"] = s["texture"])
  <2>1. BodyKinds(k) = {"texture", "mode"}
    BY <1>2 DEF BodyKinds
  <2>. QED
    BY <1>4, <1>7, <2>1, RequestsAre
<1>9. MenuTypes'
  BY <1>0, <1>5, <1>6 DEF MenuTypes
<1>10. Busy = {} => AloneIs(f)'
  <2>1. Busy = {} /\ agreed = "yes" => Agreement
    BY DEF MenusInv, Undisputed
  <2>. QED
    BY <1>0, <1>2, <1>3, <1>5, <1>6, <1>8, <2>1 DEF AloneIs, Agreement, MenuTypes
<1>11. agreed = "yes" /\ Agreement /\ ~Concerns(f) => Agreement'
  BY <1>0, <1>2, <1>5, <1>6, <1>8 DEF Concerns, Agreement, MenuTypes, Aspects, Unlocked
<1>. QED
  BY <1>0, <1>5, <1>8, <1>9, <1>10, <1>11, BeginsWell

LEMMA AdjustKeeps ==
  ASSUME MenusInv, NEW p \in Flows, NEW k \in Kinds, NEW id, Adjust(p, k, id)
  PROVE  MenusInv'
<1>. USE KindsAre
<1>0. MenuTypes /\ UNCHANGED <<account, player, trails, dialog, watched>>
  BY DEF Adjust, MenusInv, bounds
<1>1. id \in Selectable[k] /\ IsPick(shown) /\ shown[k] \in Selectable[k] /\ k \in {"settings", "binds"}
  BY <1>0 DEF Adjust, MenuTypes, IsPick
<1>2. PICK s, old : s = [shown EXCEPT ![k] = id] /\ old = shown[k]
  OBVIOUS
<1>3. shown' = s
  BY <1>2 DEF Adjust
<1>4. IsPick(s) /\ s[k] = id /\ \A j \in Kinds \ {k} : s[j] = shown[j]
  BY <1>1, <1>2, ChoicesAre DEF IsPick
<1>5. CASE player = NoAccount
  <2>1. agreed = "no" /\ agreed' = "no" /\ flow' = flow
    BY <1>0, <1>5 DEF Adjust, MenuTypes
  <2>2. MenuTypes'
    BY <1>0, <1>3, <1>4, <2>1 DEF MenuTypes
  <2>3. FlowsInv' /\ OrderInv' /\ AnswersTell'
    <3>1. FlowsInv'
      BY <2>1 DEF MenusInv, FlowsInv
    <3>2. OrderInv'
      BY <2>1 DEF MenusInv, OrderInv, Served, Stale
    <3>3. AnswersTell'
      BY <1>0, <2>1 DEF MenusInv, AnswersTell, Served, Stale, Writes, WatchedOf
    <3>. QED
      BY <3>1, <3>2, <3>3
  <2>4. AloneInv'
    <3>1. AloneInv
      BY DEF MenusInv
    <3>. QED
      BY <1>0, <1>5, <2>1, <3>1 DEF AloneInv, AloneIs, Busy
  <2>. QED
    BY <2>1, <2>2, <2>3, <2>4 DEF MenusInv
<1>6. CASE player # NoAccount
  <2>1. PICK f : f = Request(k, id, id, old, s, "save")
    OBVIOUS
  <2>2. Begin(p, f) /\ flow[p].at = "idle" /\ UNCHANGED agreed
    BY <1>2, <1>3, <1>6, <2>1 DEF Adjust
  <2>3. Sendable(k, id, old, s, "save")
    BY <1>1, <1>2, <1>4 DEF Sendable
  <2>4. /\ HasFields(f) /\ FlowIs(f) /\ f.at = "sent" /\ f.behind = {} /\ f.what = k /\ f.stage = "save"
        /\ f.before = old /\ DOMAIN f.body = {k} /\ f.body[k] = id
    <3>1. BodyKinds(k) = {k}
      BY <1>1 DEF BodyKinds
    <3>. QED
      BY <1>1, <2>1, <2>3, <3>1, RequestsAre
  <2>5. MenuTypes'
    BY <1>0, <1>3, <1>4, <2>2 DEF MenuTypes
  <2>6. Busy = {} => AloneIs(f)'
    <3>1. Busy = {} /\ agreed = "yes" => Agreement
      BY DEF MenusInv, Undisputed
    <3>. QED
      BY <1>0, <1>1, <1>2, <1>3, <1>4, <1>6, <2>2, <2>4, <3>1 DEF AloneIs, Agreement
  <2>7. agreed = "yes" /\ Agreement /\ ~Concerns(f) => Agreement'
    BY <1>0, <1>1, <1>3, <1>4, <2>4 DEF Concerns, Agreement, MenuTypes, Aspects, Unlocked
  <2>. QED
    BY <1>0, <2>2, <2>4, <2>5, <2>6, <2>7, BeginsWell
<1>. QED
  BY <1>5, <1>6

\* The profile is asked for, the remembered player signs in, or an icon is bought.
LEMMA AsksKeep ==
  ASSUME MenusInv, NEW p \in Flows, Refresh(p) \/ Reauthenticate(p) \/ ConfirmPendingPurchase(p)
  PROVE  MenusInv'
<1>0. MenuTypes /\ UNCHANGED <<account, player, trails, shown, agreed, watched>>
  BY DEF Refresh, Reauthenticate, ConfirmPendingPurchase, MenusInv, bounds
<1>1. PICK f : /\ f = IF Refresh(p) THEN [Quiet EXCEPT !.at = "sent", !.what = "refresh", !.stage = "recover"]
                     ELSE IF Reauthenticate(p)
                     THEN [Quiet EXCEPT !.at = "sent", !.what = "reauth", !.stage = "login"]
                     ELSE [Quiet EXCEPT !.at = "sent", !.what = "purchase", !.id = dialog.item]
  OBVIOUS
<1>2. Begin(p, f) /\ flow[p].at = "idle"
  BY <1>1 DEF Refresh, Reauthenticate, ConfirmPendingPurchase
<1>3. /\ HasFields(f) /\ f.at = "sent" /\ f.behind = {} /\ f.what \in {"refresh", "reauth", "purchase"}
      /\ f.stage = CASE f.what = "refresh" -> "recover" [] f.what = "reauth" -> "login" [] OTHER -> "save"
      /\ f.body = <<>> /\ (f.what = "purchase" => f.id = dialog.item)
      /\ f.what = "reauth" => player = NoAccount
      /\ f.what = "purchase" => ConfirmPendingPurchase(p)
  <2>1. CASE Refresh(p)
    BY <1>1, <2>1 DEF Quiet, HasFields
  <2>2. CASE ~Refresh(p) /\ Reauthenticate(p)
    BY <1>1, <2>2 DEF Quiet, HasFields, Reauthenticate
  <2>3. CASE ~Refresh(p) /\ ~Reauthenticate(p)
    BY <1>1, <2>3 DEF Quiet, HasFields
  <2>. QED
    BY <2>1, <2>2, <2>3
<1>4. /\ f.what = "purchase" => f.id \in Paid /\ player # NoAccount
      /\ dialog' \in [item : Paid \cup {Nothing}, disabled : {"no", "yes"}]
  BY <1>0, <1>3 DEF MenuTypes, ConfirmPendingPurchase, Refresh, Reauthenticate
<1>5. DOMAIN f.body = {} /\ f.what \in Whats \ ({"none"} \cup Kinds) /\ BodyKinds(f.what) = {}
  BY <1>3, KindsAre DEF Whats, BodyKinds
<1>6. FlowIs(f)
  BY <1>3, <1>4, <1>5 DEF FlowIs
<1>7. MenuTypes'
  BY <1>0, <1>4 DEF MenuTypes
<1>8. AloneIs(f)'
  BY <1>0, <1>3, <1>4, <1>5 DEF AloneIs
<1>9. Agreement => Agreement'
  BY <1>0 DEF Agreement, Unlocked
<1>. QED
  BY <1>0, <1>2, <1>3, <1>6, <1>7, <1>8, <1>9, BeginsWell

LEMMA DialogKeeps ==
  ASSUME MenusInv, (\E item \in Paid : OpenPurchaseModal(item)) \/ ClosePurchaseModal
  PROVE  MenusInv'
<1>1. UNCHANGED <<account, player, trails, shown, flow, agreed, watched>>
  BY DEF OpenPurchaseModal, ClosePurchaseModal, bounds
<1>2. MenuTypes'
  BY <1>1 DEF MenusInv, MenuTypes, OpenPurchaseModal, ClosePurchaseModal
<1>. USE <1>1 DEF MenusInv
<1>3. FlowsInv' /\ OrderInv'
  BY DEF FlowsInv, OrderInv, Served, Stale
<1>4. AnswersTell'
  BY DEF AnswersTell, Served, Stale, Writes, WatchedOf
<1>5. AloneInv'
  BY DEF AloneInv, AloneIs, Busy, Unlocked
<1>6. (Undisputed' <=> Undisputed) /\ (Agreement' <=> Agreement)
  BY DEF Undisputed, Busy, Concerns, Agreement, Unlocked
<1>. QED
  BY <1>2, <1>3, <1>4, <1>5, <1>6

LEMMA MenusStutters ==
  ASSUME MenusInv, UNCHANGED menuVars
  PROVE  MenusInv'
<1>1. UNCHANGED <<account, player, trails, shown, dialog, flow, agreed, watched>>
  BY DEF menuVars, bounds
<1>. USE <1>1 DEF MenusInv
<1>2. MenuTypes'
  BY DEF MenuTypes
<1>3. FlowsInv' /\ OrderInv'
  BY DEF FlowsInv, OrderInv, Served, Stale
<1>4. AnswersTell'
  BY DEF AnswersTell, Served, Stale, Writes, WatchedOf
<1>5. AloneInv'
  BY DEF AloneInv, AloneIs, Busy, Unlocked
<1>6. (Undisputed' <=> Undisputed) /\ (Agreement' <=> Agreement)
  BY DEF Undisputed, Busy, Concerns, Agreement, Unlocked
<1>. QED
  BY <1>2, <1>3, <1>4, <1>5, <1>6

\* The server answers: what it has stored since is known to be so by later answers only.
LEMMA ServeKeeps ==
  ASSUME MenusInv, NEW p \in Flows, NEW status \in Statuses \ {"none"}, NEW stores \in {"no", "yes"},
         Serve(p, status, stores)
  PROVE  MenusInv'
<1>. USE KindsAre
<1>0. /\ MenuTypes /\ FlowsInv /\ OrderInv /\ AnswersTell /\ AloneInv
      /\ UNCHANGED <<player, trails, shown, dialog, agreed, watched>>
  BY DEF Serve, MenusInv, bounds
<1>1. PICK q : q = flow[p]
  OBVIOUS
<1>2. /\ HasFields(q) /\ FlowIs(q) /\ q.at = "sent" /\ q.behind = {} /\ p \in Busy /\ p \notin Served
  BY <1>0, <1>1 DEF Serve, FlowsInv, OrderInv, Served, Busy
<1>3. /\ status = "stranger" => q.stage = "recover"
      /\ stores = "yes" => status \in {"ok", "failed"} /\ q.stage = "save" /\ ~Locked(q)
      /\ status = "ok" /\ q.stage = "save" => stores = "yes"
      /\ stores = "no" => account' = account
      /\ stores = "yes" =>
           account' = IF q.what = "purchase" THEN [account EXCEPT !.owned = @ \cup {q.id}]
                      ELSE [account EXCEPT !.pick = [k \in Kinds |-> IF k \in DOMAIN q.body THEN q.body[k]
                                                                     ELSE @[k]]]
  BY <1>1 DEF Serve
<1>4. /\ Sound(account')
      /\ q.what = "purchase" \/ stores = "no" => account'.pick = account.pick
      /\ q.what # "purchase" \/ stores = "no" => account'.owned = account.owned
      /\ stores = "yes" /\ q.what # "purchase" =>
           \A k \in Kinds : account'.pick[k] = IF k \in DOMAIN q.body THEN q.body[k] ELSE account.pick[k]
  <2>1. Sound(account) /\ account \in PlayerAccounts /\ IsPick(account.pick)
    BY <1>0 DEF MenuTypes, Sound, IsAccount
  <2>2. CASE stores = "no"
    BY <1>3, <2>1, <2>2
  <2>3. CASE stores = "yes" /\ q.what = "purchase"
    <3>1. account' = [account EXCEPT !.owned = account.owned \cup {q.id}] /\ q.id \in Paid
      BY <1>2, <1>3, <2>3 DEF FlowIs
    <3>2. account' \in PlayerAccounts /\ account'.pick = account.pick /\ account'.owned = account.owned \cup {q.id}
      BY <2>1, <3>1 DEF PlayerAccounts
    <3>. QED
      BY <2>1, <2>3, <3>2 DEF Sound, IsAccount
  <2>4. CASE stores = "yes" /\ q.what # "purchase"
    <3>1. PICK pick : pick = [k \in Kinds |-> IF k \in DOMAIN q.body THEN q.body[k] ELSE account.pick[k]]
      OBVIOUS
    <3>2. account' = [account EXCEPT !.pick = pick]
      BY <1>3, <2>4, <3>1
    <3>3. IsPick(pick)
      BY <1>2, <2>1, <3>1, ChoicesAre DEF FlowIs, IsPick
    <3>4. account' \in PlayerAccounts /\ account'.pick = pick /\ account'.owned = account.owned
      BY <2>1, <3>2, <3>3 DEF PlayerAccounts, IsPick
    <3>5. pick["icon"] \in Paid => pick["icon"] \in account.owned
      <4>1. \A k \in DOMAIN q.body : q.body[k] \notin Paid \ account.owned
        BY <1>3, <2>4 DEF Locked
      <4>. QED
        BY <2>1, <3>1, <4>1 DEF Sound
    <3>. QED
      BY <2>4, <3>1, <3>3, <3>4, <3>5 DEF Sound, IsAccount
  <2>. QED
    BY <2>2, <2>3, <2>4
<1>5. PICK g : g = flow'[p]
  OBVIOUS
<1>6. /\ HasFields(g) /\ g.at = "served" /\ g.status = status /\ g.behind = Served
      /\ g.user = IF status = "ok" THEN account' ELSE NoAccount
      /\ g.what = q.what /\ g.stage = q.stage /\ g.id = q.id /\ g.body = q.body /\ g.before = q.before
      /\ g.met = q.met
  <2>1. PICK who, others : who = (IF status = "ok" THEN account' ELSE NoAccount) /\ others = Served
    OBVIOUS
  <2>2. flow' = [flow EXCEPT ![p] = [q EXCEPT !.at = "served", !.status = status, !.user = who,
                                               !.behind = others]]
    BY <1>1, <2>1 DEF Serve, Served
  <2>3. p \in DOMAIN flow
    BY <1>0 DEF FlowsInv
  <2>. QED
    BY <1>2, <1>5, <2>1, <2>2, <2>3 DEF HasFields
<1>7. \A r \in Flows \ {p} : flow'[r] = flow[r]
  BY DEF Serve
<1>8. Served' = Served \cup {p} /\ Busy' = Busy /\ DOMAIN flow' = Flows /\ Served \subseteq Flows
  BY <1>0, <1>2, <1>5, <1>6, <1>7 DEF Served, Busy, FlowsInv, Serve
<1>9. FlowsInv'
  <2>1. FlowIs(g)
    <3>1. /\ g.what \in Whats \ {"none"} /\ g.stage \in {"login", "save", "recover"}
          /\ g.what = "refresh" => g.stage = "recover"
          /\ g.what = "reauth" => g.stage = "login"
          /\ g.what \in {"purchase", "settings", "binds"} => g.stage = "save"
          /\ DOMAIN g.body = IF g.stage = "login" THEN {} ELSE BodyKinds(g.what)
          /\ \A k \in DOMAIN g.body : g.body[k] \in Selectable[k]
          /\ g.what \in Kinds => {g.id, g.before} \subseteq Selectable[g.what]
          /\ g.what = "purchase" => g.id \in Paid
          /\ g.stage = "login" /\ g.what = "icon" => g.id \notin Paid
      BY <1>2, <1>6 DEF FlowIs
    <3>2. status = "ok" /\ q.stage = "save" => \A k \in DOMAIN q.body : account'.pick[k] = q.body[k]
      BY <1>2, <1>3, <1>4 DEF FlowIs, BodyKinds
    <3>. QED
      BY <1>3, <1>4, <1>6, <3>1, <3>2 DEF FlowIs
  <2>. QED
    BY <1>0, <1>5, <1>6, <1>7, <1>8, <2>1 DEF FlowsInv
<1>10. OrderInv'
  <2>1. /\ flow'[p].behind = Served /\ p \notin Served /\ p \in Flows
        /\ \A r \in Flows \ {p} : flow'[r].behind = flow[r].behind /\ p \notin flow[r].behind
    BY <1>0, <1>2, <1>5, <1>6, <1>7 DEF OrderInv
  <2>2. \A r \in Flows : flow'[r].behind \subseteq Served' /\ (flow'[r].behind # {} => r \in Served')
    BY <1>0, <1>8, <2>1 DEF OrderInv
  <2>3. \A t, r \in Served' : t # r => t \in flow'[r].behind \/ r \in flow'[t].behind
    BY <1>0, <1>8, <2>1 DEF OrderInv
  <2>4. \A r \in Flows : Stale(r)' <=> (r # p /\ Stale(r))
    BY <2>1 DEF Stale
  <2>5. \A t, r \in Served' : t \in flow'[r].behind /\ Stale(r)' => Stale(t)'
    BY <1>0, <1>8, <2>1, <2>4 DEF OrderInv
  <2>6. \A t, r, u \in Served' :
          t # r /\ r # u /\ t # u /\ t \in flow'[r].behind /\ r \in flow'[u].behind => t \in flow'[u].behind
    BY <1>0, <1>8, <2>1 DEF OrderInv
  <2>. QED
    BY <1>0, <2>2, <2>3, <2>4, <2>5, <2>6 DEF OrderInv
<1>11. Writes(q) \/ WatchedOf(account)' = WatchedOf(account)
  BY <1>0, <1>2, <1>3, <1>4 DEF Writes, WatchedOf, MenuTypes, Aspects
<1>12. AnswersTell'
  <2>. SUFFICES ASSUME NEW r \in Served', ~Stale(r)', flow'[r].status = "ok",
                       \A t \in Served' : r \in flow'[t].behind => ~Writes(flow[t])'
                PROVE  WatchedOf(flow[r].user)' = WatchedOf(account)'
    BY DEF AnswersTell
  <2>1. CASE r = p
    BY <1>5, <1>6, <2>1 DEF WatchedOf
  <2>2. CASE r # p
    <3>1. r \in Served /\ r \in Flows \ {p} /\ p \in Served' /\ r \in flow'[p].behind
      BY <1>5, <1>6, <1>8, <2>2
    <3>2. ~Writes(q)
      BY <1>0, <1>5, <1>6, <3>1 DEF Writes
    <3>3. ~Stale(r) /\ flow[r].status = "ok"
      BY <1>7, <3>1 DEF Stale
    <3>4. \A t \in Served : r \in flow[t].behind => ~Writes(flow[t])
      BY <1>0, <1>2, <1>7, <1>8 DEF Writes
    <3>5. WatchedOf(flow[r].user) = WatchedOf(account)
      BY <1>0, <3>1, <3>3, <3>4 DEF AnswersTell
    <3>. QED
      BY <1>0, <1>7, <1>11, <3>1, <3>2, <3>5 DEF WatchedOf
  <2>. QED
    BY <2>1, <2>2
<1>13. AloneInv'
  <2>. SUFFICES ASSUME NEW r \in Busy
                PROVE  /\ flow'[r].met \in {"no", "yes"}
                       /\ flow'[r].met = "no" => Busy = {r} /\ AloneIs(flow[r])'
    BY <1>8 DEF AloneInv
  <2>1. flow'[r].met = flow[r].met /\ flow[r].met \in {"no", "yes"} /\ (flow[r].met = "no" => Busy = {r})
    BY <1>0, <1>1, <1>5, <1>6, <1>7 DEF AloneInv, Busy
  <2>2. ASSUME flow[r].met = "no" PROVE AloneIs(flow[r])'
    <3>1. r = p /\ AloneIs(q)
      BY <1>0, <1>1, <1>2, <2>1, <2>2 DEF AloneInv
    <3>2. status \in {"refused", "unauthorized"} => account' = account
      BY <1>3
    <3>. QED
      BY <1>0, <1>2, <1>5, <1>6, <3>1, <3>2 DEF AloneIs
  <2>. QED
    BY <2>1, <2>2
<1>14. MenuTypes'
  BY <1>0, <1>4 DEF MenuTypes
<1>15. ASSUME agreed' = "yes", Undisputed' PROVE Agreement'
  <2>1. Undisputed /\ ~Concerns(q)
    BY <1>0, <1>1, <1>2, <1>5, <1>6, <1>7, <1>8, <1>15 DEF Undisputed, Concerns, Busy
  <2>2. Agreement
    BY <1>0, <1>15, <2>1 DEF MenusInv
  <2>3. WatchedOf(account)' = WatchedOf(account)
    BY <1>11, <2>1 DEF Concerns, Writes
  <2>. QED
    BY <1>0, <2>2, <2>3 DEF Agreement, WatchedOf, Unlocked
<1>. QED
  BY <1>9, <1>10, <1>12, <1>13, <1>14, <1>15 DEF MenusInv

\* The page agrees with an answer that is as good as what is stored.
LEMMA AgreementOf ==
  ASSUME MenuTypes, UNCHANGED <<account, watched>>, NEW who, Sound(who), player' = who,
         WatchedOf(who) = WatchedOf(account), IsPick(shown'),
         watched \in Kinds => shown'[watched] = who.pick[watched],
         watched = "trail" => trails' = "yes"
  PROVE  Agreement'
<1>1. watched \in Kinds \cup {"owned"} /\ "owned" \notin Kinds
  BY KindsAre DEF MenuTypes, Aspects
<1>2. \A known : who.pick["icon"] \in Unlocked("icon", who, known)
  BY SoundIsUnlocked
<1>. QED
  BY <1>1, <1>2 DEF Agreement, WatchedOf

LEMMA AnswersAre ==
  ASSUME MenusInv, NEW p \in Flows, flow[p].at = "served", NEW q, q = flow[p]
  PROVE  /\ p \in Served /\ p \in Busy /\ FlowIs(q) /\ HasFields(q) /\ q.met \in {"no", "yes"}
         /\ q.met = "no" => AloneIs(q)
         /\ q.status = "ok" => Sound(q.user)
         /\ q.status \in Statuses \ {"none"}
  BY DEF MenusInv, FlowsInv, AloneInv, FlowIs, Served, Busy

LEMMA SaveAnsweredKeeps ==
  ASSUME MenusInv, NEW p \in Flows, SaveAnswered(p)
  PROVE  MenusInv'
<1>. USE KindsAre
<1>0. MenuTypes /\ UNCHANGED <<account, watched>>
  BY DEF SaveAnswered, MenusInv, bounds
<1>1. PICK q, u : q = flow[p] /\ u = q.user
  OBVIOUS
<1>2. /\ q.at = "served" /\ q.stage = "save" /\ q.status = "ok" /\ player' = u /\ shown' = Saved(q)
      /\ trails' = IF q.what \in {"trail", "icon", "purchase"} THEN "yes" ELSE trails
      /\ Goes(p, Quiet)
  BY <1>1 DEF SaveAnswered
<1>3. /\ p \in Served /\ FlowIs(q) /\ q.met \in {"no", "yes"} /\ (q.met = "no" => AloneIs(q)) /\ Sound(u)
  BY <1>1, <1>2, AnswersAre
<1>4. q.what \in Kinds \cup {"purchase"}
  BY <1>2, <1>3 DEF FlowIs, Whats
<1>5. PICK those :
        /\ those = IF q.met = "no" THEN {}
                   ELSE IF q.what = "mode" THEN {"texture"} ELSE {q.what} \cap {"settings", "binds"}
        /\ agreed' = AgreedAfter(q,
             CASE q.what = "trail" -> {"owned", "trail", "icon"}
               [] q.what = "texture" -> {"owned", "texture", "mode"}
               [] q.what = "purchase" -> {"owned"}
               [] OTHER -> {"owned", q.what}, those)
  BY <1>1 DEF SaveAnswered
<1>6. /\ agreed' \in {"no", "yes"}
      /\ agreed' = "yes" => q.behind = {} /\ watched \notin those
      /\ agreed' = "yes" /\ watched \in Kinds \ {q.what} =>
           \/ agreed = "yes"
           \/ q.what = "trail" /\ watched = "icon"
           \/ q.what = "texture" /\ watched = "mode"
  BY <1>0, <1>4, <1>5 DEF AgreedAfter, MenuTypes
<1>7. /\ Approaches(shown, shown', u)
      /\ q.what = "trail" => shown'["trail"] = u.pick["trail"] /\ shown'["icon"] = u.pick["icon"]
      /\ q.what = "icon" => shown'["icon"] = u.pick["icon"]
      /\ q.what = "texture" => shown'["texture"] = u.pick["texture"] /\ shown'["mode"] = u.pick["mode"]
      /\ q.what = "mode" => shown'["texture"] = shown["texture"] /\ shown'["mode"] = u.pick["mode"]
      /\ q.what \in {"settings", "binds"} => shown' = shown
  BY <1>0, <1>1, <1>2, <1>3, <1>4, SavedApproaches DEF MenuTypes
<1>8. MenuTypes'
  <2>1. dialog' \in [item : Paid \cup {Nothing}, disabled : {"no", "yes"}]
    BY <1>0 DEF SaveAnswered, MenuTypes
  <2>2. player' # NoAccount /\ IsAccount(player')
    BY <1>2, <1>3, SoundIsUnlocked DEF Sound
  <2>. QED
    BY <1>0, <1>2, <1>6, <1>7, <2>1, <2>2 DEF MenuTypes, Approaches
<1>9. ASSUME agreed' = "yes", WatchedOf(u) = WatchedOf(account),
             agreed = "yes" /\ ~Concerns(q) => Agreement
      PROVE  Agreement'
  <2>1. ASSUME watched \in Kinds, watched = q.what PROVE shown'[watched] = u.pick[watched]
    <3>1. CASE q.what \in {"settings", "binds"}
      <4>1. q.met = "no"
        BY <1>3, <1>5, <1>6, <1>9, <2>1, <3>1
      <4>2. watched \in DOMAIN q.body
        BY <1>2, <1>3, <2>1, <3>1 DEF FlowIs, BodyKinds
      <4>. QED
        BY <1>1, <1>2, <1>3, <1>7, <2>1, <3>1, <4>1, <4>2 DEF AloneIs, FlowIs
    <3>. QED
      BY <1>7, <2>1, <3>1
  <2>2. ASSUME watched \in Kinds \ {q.what}, agreed = "yes" PROVE shown'[watched] = u.pick[watched]
    <3>1. CASE Concerns(q)
      <4>1. watched \in DOMAIN q.body /\ watched \in {"texture", "mode"} /\ q.what \in {"texture", "mode"}
        BY <1>3, <2>2, <3>1 DEF Concerns, FlowIs, BodyKinds
      <4>2. CASE q.what = "mode"
        <5>1. q.met = "no" /\ watched = "texture"
          BY <1>3, <1>5, <1>6, <1>9, <2>2, <4>1, <4>2
        <5>. QED
          BY <1>1, <1>2, <1>3, <1>7, <4>1, <4>2, <5>1 DEF AloneIs, FlowIs
      <4>. QED
        BY <1>7, <2>2, <4>1, <4>2
    <3>2. CASE ~Concerns(q)
      <4>1. shown[watched] = u.pick[watched]
        BY <1>9, <2>2, <3>2 DEF Agreement, WatchedOf
      <4>. QED
        BY <1>7, <2>2, <4>1 DEF Approaches
    <3>. QED
      BY <3>1, <3>2
  <2>3. watched \in Kinds => shown'[watched] = u.pick[watched]
    BY <1>6, <1>7, <1>9, <2>1, <2>2
  <2>4. watched = "trail" => trails' = "yes"
    <3>1. CASE q.what = "trail"
      BY <1>2, <3>1
    <3>2. CASE q.what # "trail"
      <4>1. watched = "trail" => agreed = "yes" /\ ~Concerns(q)
        BY <1>2, <1>3, <1>4, <1>6, <1>9, <3>2 DEF Concerns, FlowIs, BodyKinds
      <4>. QED
        BY <1>2, <1>9, <4>1 DEF Agreement
    <3>. QED
      BY <3>1, <3>2
  <2>. QED
    BY <1>0, <1>2, <1>3, <1>7, <1>9, <2>3, <2>4, AgreementOf DEF Approaches
<1>. QED
  <2>1. agreed' = "yes" => flow[p].behind = {}
    BY <1>1, <1>6
  <2>. QED
    BY <1>0, <1>1, <1>2, <1>3, <1>8, <1>9, <2>1, GoesWell

LEMMA SaveFailedKeeps ==
  ASSUME MenusInv, NEW p \in Flows, SaveFailed(p)
  PROVE  MenusInv'
<1>. USE KindsAre
<1>0. MenuTypes /\ UNCHANGED <<account, player, trails, watched>>
  BY DEF SaveFailed, MenusInv, bounds
<1>1. PICK q : q = flow[p]
  OBVIOUS
<1>2. /\ q.at = "served" /\ q.stage = "save" /\ q.status # "ok" /\ shown' = PutBack(q, shown, player)
      /\ agreed' = Doubted(q, Doubts(q)) /\ Goes(p, Quiet)
  BY <1>1 DEF SaveFailed
<1>3. /\ p \in Served /\ FlowIs(q) /\ q.met \in {"no", "yes"} /\ (q.met = "no" => AloneIs(q))
      /\ q.status \in Failures
  <2>1. /\ p \in Served /\ FlowIs(q) /\ q.met \in {"no", "yes"} /\ (q.met = "no" => AloneIs(q))
        /\ q.status \in Statuses \ {"none"}
    BY <1>1, <1>2, AnswersAre
  <2>. QED
    BY <1>2, <2>1 DEF FlowIs, Statuses
<1>4. q.what \in Kinds \cup {"purchase"} /\ (q.what \in Kinds => q.before \in Selectable[q.what])
  BY <1>2, <1>3 DEF FlowIs, Whats
<1>5. /\ IsPick(shown') /\ (~Reverts(q) => shown' = shown)
      /\ \A k \in Kinds \ {q.what, "trail"} : shown'[k] = shown[k]
      /\ q.what # "icon" => shown'["trail"] = shown["trail"]
      /\ q.what = "icon" /\ Reverts(q) =>
           shown'["icon"] = IconFor(q.before, player) /\ shown'["trail"] = TrailFor(shown["trail"], player, trails)
      /\ q.what \in {"texture", "mode", "binds"} => shown'[q.what] = q.before
  BY <1>0, <1>2, <1>4, PutBackIs DEF MenuTypes
<1>6. /\ agreed' \in {"no", "yes"}
      /\ agreed' = "yes" => agreed = "yes" /\ q.behind = {} /\ watched \notin Doubts(q)
  BY <1>0, <1>2 DEF Doubted, AgreedAfter, MenuTypes
<1>7. MenuTypes'
  <2>1. dialog' \in [item : Paid \cup {Nothing}, disabled : {"no", "yes"}]
    BY <1>0 DEF SaveFailed, MenuTypes
  <2>. QED
    BY <1>0, <1>5, <1>6, <2>1 DEF MenuTypes
<1>8. ASSUME agreed' = "yes", agreed = "yes" /\ ~Concerns(q) => Agreement
      PROVE  Agreement'
  <2>1. agreed = "yes" /\ watched \notin Doubts(q) /\ player # NoAccount /\ watched \in Kinds \cup {"owned"}
    BY <1>0, <1>6, <1>8 DEF MenuTypes, Aspects
  <2>2. CASE ~Concerns(q)
    <3>1. Agreement
      BY <1>8, <2>1, <2>2
    <3>2. watched = "trail" => shown'["trail"] = shown["trail"]
      <4>1. CASE q.what = "icon" /\ Reverts(q) /\ watched = "trail"
        BY <1>0, <1>5, <2>1, <3>1, <4>1, TrailForIs DEF Agreement, MenuTypes
      <4>. QED
        BY <1>5, <4>1
    <3>3. watched \in Kinds => watched # q.what
      BY <2>2 DEF Concerns
    <3>. QED
      BY <1>0, <1>5, <2>1, <3>1, <3>2, <3>3 DEF Agreement, Unlocked
  <2>3. CASE Concerns(q)
    <3>1. q.what \in Kinds /\ watched \in DOMAIN q.body /\ watched \in Kinds
      BY <1>2, <1>3, <1>4, <2>1, <2>3 DEF Concerns, Doubts, FlowIs, BodyKinds
    <3>2. q.met = "no" /\ Reverts(q) /\ q.status \in {"refused", "unauthorized"}
      BY <1>3, <2>1, <3>1 DEF Doubts, Failures
    <3>3. IF watched = q.what
          THEN q.before = account.pick[watched]
               /\ (watched = "icon" => q.before \in Unlocked("icon", player, trails))
          ELSE shown[watched] = account.pick[watched]
      BY <1>2, <1>3, <2>1, <3>1, <3>2 DEF AloneIs
    <3>4. q.what \in {"texture", "mode", "binds", "icon"}
      BY <3>2 DEF Reverts
    <3>5. watched # q.what => watched \in {"texture", "mode"}
      BY <1>2, <1>3, <3>1, <3>4 DEF FlowIs, BodyKinds
    <3>6. watched = "icon" => shown'["icon"] = q.before
      BY <1>0, <1>5, <3>2, <3>3, <3>5, IconForIs DEF MenuTypes
    <3>7. shown'[watched] = account.pick[watched] /\ watched # "trail"
      BY <1>2, <1>3, <1>5, <3>1, <3>3, <3>4, <3>5, <3>6
    <3>. QED
      BY <1>0, <3>1, <3>3, <3>5, <3>6, <3>7 DEF Agreement, Unlocked
  <2>. QED
    BY <2>2, <2>3
<1>. QED
  <2>1. agreed' = "yes" => flow[p].behind = {}
    BY <1>1, <1>6
  <2>. QED
    BY <1>0, <1>1, <1>2, <1>3, <1>7, <1>8, <2>1, GoesWell

LEMMA RecoverSessionKeeps ==
  ASSUME MenusInv, NEW p \in Flows, RecoverSession(p)
  PROVE  MenusInv'
<1>0. MenuTypes /\ UNCHANGED <<account, player, trails, shown, dialog, watched>>
  BY DEF RecoverSession, MenusInv, bounds
<1>1. PICK q, f : q = flow[p] /\ f = [q EXCEPT !.at = "sent", !.stage = "recover", !.behind = {}]
  OBVIOUS
<1>2. /\ q.at = "served" /\ q.stage = "save" /\ q.what \in {"trail", "icon", "texture", "mode"}
      /\ agreed' = Doubted(q, {}) /\ Goes(p, f)
  BY <1>1 DEF RecoverSession
<1>3. p \in Served /\ FlowIs(q) /\ HasFields(q)
  BY <1>1, <1>2, AnswersAre
<1>4. /\ HasFields(f) /\ f.at = "sent" /\ f.behind = {} /\ f.met = q.met /\ f.stage = "recover"
      /\ f.what = q.what /\ f.id = q.id /\ f.body = q.body /\ f.before = q.before
  BY <1>1, <1>3 DEF HasFields
<1>5. FlowIs(f)
  BY <1>2, <1>3, <1>4 DEF FlowIs
<1>6. /\ agreed' \in {"no", "yes"} /\ (agreed' = "yes" => agreed = "yes" /\ q.behind = {})
  BY <1>0, <1>2 DEF Doubted, AgreedAfter, MenuTypes
<1>7. MenuTypes'
  BY <1>0, <1>6 DEF MenuTypes
<1>8. AloneIs(f)'
  BY <1>4 DEF AloneIs
<1>9. ASSUME agreed' = "yes", f = Quiet \/ ~Concerns(f), agreed = "yes" /\ ~Concerns(q) => Agreement
      PROVE  Agreement'
  <2>1. ~Concerns(q)
    BY <1>4, <1>9, QuietIs DEF Concerns
  <2>. QED
    BY <1>0, <1>6, <1>9, <2>1 DEF Agreement, Unlocked
<1>. QED
  <2>1. agreed' = "yes" => flow[p].behind = {}
    BY <1>1, <1>6
  <2>. QED
    BY <1>0, <1>1, <1>2, <1>3, <1>4, <1>5, <1>7, <1>8, <1>9, <2>1, GoesWell

LEMMA SyncAnsweredKeeps ==
  ASSUME MenusInv, NEW p \in Flows, SyncAnswered(p)
  PROVE  MenusInv'
<1>. USE KindsAre
<1>0. MenuTypes /\ UNCHANGED <<account, watched, dialog>>
  BY DEF SyncAnswered, MenusInv, bounds
<1>1. PICK q, u, known, failed :
        /\ q = flow[p]
        /\ u = CASE q.status = "ok" -> q.user
                 [] q.status = "stranger" -> NoAccount
                 [] OTHER -> IF q.what = "refresh" THEN NoAccount ELSE player
        /\ known = IF q.status \in {"ok", "stranger"} THEN "yes" ELSE "no"
        /\ failed = [q EXCEPT !.status = "unauthorized"]
  OBVIOUS
<1>2. PICK s : s = Refreshed(shown, u, known)
  OBVIOUS
<1>3. /\ q.at = "served" /\ q.stage = "recover" /\ player' = u /\ trails' = known
      /\ shown' = IF q.what = "refresh" THEN s ELSE PutBack(failed, s, u)
      /\ Goes(p, Quiet)
      /\ agreed' = IF q.status = "ok"
                   THEN IF q.what # "refresh" THEN Doubted(q, {q.what})
                        ELSE AgreedAfter(q, Aspects \ {"trail"},
                               IF q.met = "yes" THEN {"settings", "binds"} ELSE {})
                   ELSE Doubted(q, Aspects)
  BY <1>1, <1>2 DEF SyncAnswered
<1>4. p \in Served /\ FlowIs(q) /\ HasFields(q) /\ (q.status = "ok" => Sound(q.user))
  BY <1>1, <1>3, AnswersAre
<1>5. /\ q.what \in {"refresh", "trail", "icon", "texture", "mode"}
      /\ q.what # "refresh" => q.before \in Selectable[q.what]
  BY <1>3, <1>4 DEF FlowIs, Whats
<1>6. failed.what = q.what /\ failed.before = q.before /\ failed.status = "unauthorized"
  BY <1>1, <1>4 DEF HasFields
<1>7. u = NoAccount \/ IsAccount(u)
  BY <1>0, <1>1, <1>4 DEF MenuTypes, Sound
<1>8. /\ IsPick(s)
      /\ q.status = "ok" => /\ Sound(u) /\ known = "yes" /\ Approaches(shown, s, u)
                            /\ \A k \in Kinds \ {"trail"} : s[k] = u.pick[k]
  <2>1. q.status = "ok" => Sound(u) /\ known = "yes"
    BY <1>1, <1>4
  <2>. QED
    BY <1>0, <1>2, <1>7, <2>1, RefreshedApproaches DEF MenuTypes
<1>9. q.what # "refresh" =>
        /\ IsPick(shown') /\ \A k \in Kinds \ {q.what, "trail"} : shown'[k] = s[k]
        /\ q.what # "icon" => shown'["trail"] = s["trail"]
        /\ q.what = "icon" => shown'["trail"] = TrailFor(s["trail"], u, known)
  <2>. SUFFICES ASSUME q.what # "refresh"
                PROVE  /\ IsPick(shown') /\ \A k \in Kinds \ {q.what, "trail"} : shown'[k] = s[k]
                       /\ q.what # "icon" => shown'["trail"] = s["trail"]
                       /\ q.what = "icon" => shown'["trail"] = TrailFor(s["trail"], u, known)
    OBVIOUS
  <2>1. failed.what \in Kinds \cup {"purchase"} /\ failed.before \in Selectable[failed.what]
    BY <1>5, <1>6
  <2>2. q.what = "icon" => Reverts(failed)
    BY <1>6 DEF Reverts
  <2>. QED
    BY <1>3, <1>6, <1>7, <1>8, <2>1, <2>2, PutBackIs
<1>10. IsPick(shown')
  BY <1>3, <1>8, <1>9
<1>11. /\ agreed' \in {"no", "yes"}
       /\ agreed' = "yes" => /\ q.status = "ok" /\ q.behind = {}
                             /\ q.what # "refresh" => watched # q.what
                             /\ watched = "trail" => agreed = "yes"
  BY <1>0, <1>3, <1>5 DEF Doubted, AgreedAfter, MenuTypes, Aspects
<1>12. MenuTypes'
  <2>1. player' = NoAccount => agreed' = "no"
    BY <1>3, <1>8, <1>11, SoundIsUnlocked
  <2>. QED
    BY <1>0, <1>1, <1>3, <1>7, <1>10, <1>11, <2>1 DEF MenuTypes
<1>13. ASSUME agreed' = "yes", q.status = "ok" => WatchedOf(u) = WatchedOf(account),
              agreed = "yes" /\ ~Concerns(q) => Agreement
       PROVE  Agreement'
  <2>1. Sound(u) /\ known = "yes" /\ WatchedOf(u) = WatchedOf(account)
    BY <1>8, <1>11, <1>13
  <2>2. watched \in Kinds \ {"trail"} => shown'[watched] = u.pick[watched]
    BY <1>3, <1>5, <1>8, <1>9, <1>11, <1>13
  <2>3. watched = "trail" => shown'["trail"] = u.pick["trail"]
    <3>. SUFFICES ASSUME watched = "trail" PROVE shown'["trail"] = u.pick["trail"]
      OBVIOUS
    <3>1. ~Concerns(q)
      BY <1>3, <1>4, <1>5, <1>11, <1>13 DEF Concerns, FlowIs, BodyKinds
    <3>2. shown["trail"] = u.pick["trail"]
      BY <1>11, <1>13, <2>1, <3>1 DEF Agreement, WatchedOf
    <3>3. s["trail"] = u.pick["trail"]
      BY <1>8, <1>11, <1>13, <3>2 DEF Approaches
    <3>4. u # NoAccount /\ TrailFor(s["trail"], u, known) = s["trail"]
      <4>1. PICK trail : trail = s["trail"]
        OBVIOUS
      <4>. QED
        BY <1>7, <2>1, <3>3, <4>1, SoundIsUnlocked, TrailForIs
    <3>. QED
      BY <1>3, <1>9, <3>3, <3>4
  <2>. QED
    BY <1>0, <1>3, <1>10, <2>1, <2>2, <2>3, AgreementOf
<1>. QED
  <2>1. agreed' = "yes" => flow[p].behind = {}
    BY <1>1, <1>11
  <2>2. q.status = "ok" => u = q.user
    BY <1>1
  <2>. QED
    BY <1>0, <1>1, <1>3, <1>4, <1>12, <1>13, <2>1, <2>2, GoesWell

LEMMA LoginAnsweredKeeps ==
  ASSUME MenusInv, NEW p \in Flows, LoginAnswered(p)
  PROVE  MenusInv'
<1>. USE KindsAre
<1>0. MenuTypes /\ UNCHANGED <<account, watched, dialog>>
  BY DEF LoginAnswered, MenusInv, bounds
<1>1. PICK q, u : q = flow[p] /\ u = q.user
  OBVIOUS
<1>2. PICK s : s = Synced(shown, u, "yes")
  OBVIOUS
<1>3. PICK x, r : /\ x = Request(q.what, q.id, q.key, q.before, s, "save")
                  /\ r = [x EXCEPT !.met = q.met]
  OBVIOUS
<1>4. PICK sends \in BOOLEAN :
        sends <=> q.what # "reauth" /\ (q.what = "icon" => q.id \in Unlocked("icon", u, "yes"))
  OBVIOUS
<1>5. q.at = "served" /\ q.stage = "login"
  BY <1>1 DEF LoginAnswered
<1>6. /\ q.status = "ok" => /\ player' = u /\ trails' = "yes"
                            /\ shown' = IF q.what = "reauth" \/ sends THEN s
                                        ELSE WithIcon(s, q.before, u, "yes")
                            /\ agreed' = AgreedAfter(q, {"owned"}, {})
                            /\ Goes(p, IF sends THEN r ELSE Quiet)
      /\ q.status # "ok" => /\ UNCHANGED <<player, trails, shown>>
                            /\ agreed' = Doubted(q, {q.what} \cap Kinds) /\ Goes(p, Quiet)
  BY <1>1, <1>2, <1>3, <1>4 DEF LoginAnswered
<1>7. p \in Served /\ FlowIs(q) /\ q.met \in {"no", "yes"} /\ (q.met = "no" => AloneIs(q))
      /\ (q.status = "ok" => Sound(u))
  BY <1>1, <1>5, AnswersAre
<1>8. /\ q.what \in {"reauth", "trail", "icon", "texture", "mode"} /\ DOMAIN q.body = {}
      /\ q.what # "reauth" => {q.id, q.before} \subseteq Selectable[q.what]
      /\ q.what = "icon" => q.id \notin Paid
  BY <1>5, <1>7 DEF FlowIs, Whats
<1>9. CASE q.status # "ok"
  <2>1. /\ agreed' \in {"no", "yes"}
        /\ agreed' = "yes" => agreed = "yes" /\ q.behind = {} /\ watched # q.what
    BY <1>0, <1>6, <1>8, <1>9 DEF Doubted, AgreedAfter, MenuTypes, Aspects
  <2>2. MenuTypes'
    BY <1>0, <1>6, <1>9, <2>1 DEF MenuTypes
  <2>3. ASSUME agreed' = "yes", agreed = "yes" /\ ~Concerns(q) => Agreement PROVE Agreement'
    <3>1. Agreement
      BY <1>8, <2>1, <2>3 DEF Concerns
    <3>. QED
      BY <1>0, <1>6, <1>9, <3>1 DEF Agreement, Unlocked
  <2>4. agreed' = "yes" => flow[p].behind = {}
    BY <1>1, <2>1
  <2>. QED
    BY <1>0, <1>1, <1>6, <1>7, <1>9, <2>2, <2>3, <2>4, GoesWell
<1>10. CASE q.status = "ok"
  <2>1. u # NoAccount /\ IsAccount(u) /\ Sound(u)
    BY <1>7, <1>10, SoundIsUnlocked DEF Sound
  <2>2. IsPick(s) /\ Approaches(shown, s, u)
    BY <1>0, <1>2, <2>1, ChoicesApproach DEF Approaches, MenuTypes
  <2>3. sends <=> q.what # "reauth"
    BY <1>4, <1>8 DEF Unlocked
  <2>4. PICK f : f = IF sends THEN r ELSE Quiet
    OBVIOUS
  <2>5. player' = u /\ trails' = "yes" /\ shown' = s /\ Goes(p, f)
        /\ agreed' = AgreedAfter(q, {"owned"}, {})
    BY <1>6, <1>10, <2>3, <2>4
  <2>6. /\ agreed' \in {"no", "yes"}
        /\ agreed' = "yes" => q.behind = {} /\ (watched \in Kinds => agreed = "yes")
    BY <1>0, <2>5 DEF AgreedAfter, MenuTypes
  <2>7. MenuTypes'
    BY <1>0, <2>1, <2>2, <2>5, <2>6 DEF MenuTypes
  <2>8. ASSUME sends
        PROVE  /\ HasFields(f) /\ FlowIs(f) /\ f.at = "sent" /\ f.behind = {} /\ f.met = q.met
               /\ f.what = q.what /\ f.stage = "save" /\ DOMAIN f.body = BodyKinds(q.what)
               /\ q.what = "mode" => f.body["texture"] = s["texture"]
    <3>1. Sendable(q.what, q.id, q.before, s, "save")
      BY <1>8, <2>2, <2>3, <2>8 DEF Sendable
    <3>2. PICK k, id, key, old : k = q.what /\ id = q.id /\ key = q.key /\ old = q.before
      OBVIOUS
    <3>3. x = Request(k, id, key, old, s, "save") /\ Sendable(k, id, old, s, "save")
      BY <1>3, <3>1, <3>2
    <3>4. /\ HasFields(x) /\ FlowIs(x) /\ x.at = "sent" /\ x.behind = {} /\ x.what = k /\ x.stage = "save"
          /\ DOMAIN x.body = BodyKinds(k) /\ (k = "mode" => x.body["texture"] = s["texture"])
      BY <3>3, RequestsAre
    <3>5. f = [x EXCEPT !.met = q.met]
      BY <1>3, <2>4, <2>8
    <3>6. HasFields(f) /\ SameHandler(f, x) /\ f.behind = x.behind /\ f.met = q.met
      BY <3>4, <3>5 DEF HasFields, SameHandler
    <3>7. FlowIs(f)
      BY <3>4, <3>6, SameHandlers
    <3>. QED
      BY <3>2, <3>4, <3>6, <3>7 DEF SameHandler
  <2>9. ASSUME sends, f.met = "no" PROVE AloneIs(f)'
    <3>1. agreed = "no"
      BY <1>0, <1>5, <1>7, <2>8, <2>9 DEF AloneIs, MenuTypes
    <3>2. agreed' = "yes" => watched \notin Kinds
      BY <2>6, <3>1
    <3>3. DOMAIN f.body \subseteq Kinds
      BY <1>8, <2>8, <2>9 DEF BodyKinds
    <3>. QED
      BY <1>0, <1>8, <2>1, <2>5, <2>8, <2>9, <3>2, <3>3 DEF AloneIs
  <2>10. ASSUME agreed' = "yes", f = Quiet \/ ~Concerns(f), WatchedOf(u) = WatchedOf(account),
                agreed = "yes" /\ ~Concerns(q) => Agreement
         PROVE  Agreement'
    <3>1. ASSUME watched \in Kinds
          PROVE  shown'[watched] = u.pick[watched]
      <4>1. ~Concerns(q)
        <5>1. CASE sends
          BY <1>8, <2>8, <2>10, <3>1, <5>1, QuietIs DEF Concerns
        <5>2. CASE ~sends
          BY <1>8, <2>3, <3>1, <5>2 DEF Concerns
        <5>. QED
          BY <5>1, <5>2
      <4>2. shown[watched] = u.pick[watched]
        BY <2>6, <2>10, <3>1, <4>1 DEF Agreement, WatchedOf
      <4>. QED
        BY <2>2, <2>5, <3>1, <4>2 DEF Approaches
    <3>. QED
      BY <1>0, <2>1, <2>2, <2>5, <2>10, <3>1, AgreementOf
  <2>11. f # Quiet => sends
    BY <2>4
  <2>12. agreed' = "yes" => flow[p].behind = {}
    BY <1>1, <2>6
  <2>. QED
    BY <1>0, <1>1, <1>7, <1>10, <2>5, <2>7, <2>8, <2>9, <2>10, <2>11, <2>12, GoesWell
<1>. QED
  BY <1>9, <1>10

LEMMA MenusInvInit == MenusInit => MenusInv
<1>. SUFFICES ASSUME MenusInit PROVE MenusInv
  OBVIOUS
<1>1. Sound(account)
  <2>1. Default \in [Kinds -> Ids] /\ Default["icon"] \notin Paid /\ IsPick(Default)
    BY ChoicesAre DEF IsPick
  <2>2. account = [pick |-> Default, owned |-> {}]
    BY DEF MenusInit
  <2>3. account \in PlayerAccounts /\ account.pick = Default
    BY <2>1, <2>2 DEF PlayerAccounts
  <2>. QED
    BY <2>1, <2>3 DEF Sound, IsAccount
<1>2. IsPick(shown)
  <2>1. PICK f \in [kinds -> Ids \ Paid] :
          /\ \A k \in kinds : f[k] \in Selectable[k]
          /\ shown = [k \in Kinds |-> IF k \in kinds THEN f[k] ELSE Default[k]]
    BY DEF MenusInit
  <2>. QED
    BY <2>1, ChoicesAre DEF IsPick
<1>3. MenuTypes
  <2>1. watched \in Aspects
    BY DEF MenusInit, Aspects
  <2>. QED
    BY <1>1, <1>2, <2>1 DEF MenusInit, MenuTypes
<1>4. flow = [p \in Flows |-> Quiet] /\ agreed = "no"
  BY DEF MenusInit
<1>5. Busy = {} /\ Served = {}
  BY <1>4, QuietIs DEF Busy, Served
<1>6. FlowsInv /\ OrderInv /\ AnswersTell /\ AloneInv
  BY <1>4, <1>5, QuietIs DEF FlowsInv, OrderInv, AnswersTell, AloneInv, Stale
<1>. QED
  BY <1>3, <1>4, <1>6 DEF MenusInv

LEMMA MenusInvStep == MenusInv /\ [MenusNext]_menuVars => MenusInv'
<1>. SUFFICES ASSUME MenusInv, [MenusNext]_menuVars PROVE MenusInv'
  OBVIOUS
<1>1. ASSUME NEW p \in Flows, NEW k \in kinds, NEW id \in Ids, ClickTrailOrIcon(p, k, id)
      PROVE  MenusInv'
  BY <1>1, ClickTrailOrIconKeeps
<1>2. ASSUME NEW p \in Flows, NEW k \in kinds, NEW id \in Ids, ClickTexture(p, k, id)
      PROVE  MenusInv'
  <2>1. k \in Kinds
    BY <1>2, KindsAre DEF ClickTexture
  <2>. QED
    BY <1>2, <2>1, ClickTextureKeeps
<1>3. ASSUME NEW p \in Flows, NEW k \in kinds, NEW id \in Ids, Adjust(p, k, id)
      PROVE  MenusInv'
  <2>1. k \in Kinds
    BY <1>3, KindsAre DEF Adjust
  <2>. QED
    BY <1>3, <2>1, AdjustKeeps
<1>4. ASSUME NEW p \in Flows, Refresh(p) \/ Reauthenticate(p) \/ ConfirmPendingPurchase(p)
      PROVE  MenusInv'
  BY <1>4, AsksKeep
<1>5. ASSUME NEW p \in Flows, SaveAnswered(p) PROVE MenusInv'
  BY <1>5, SaveAnsweredKeeps
<1>6. ASSUME NEW p \in Flows, SaveFailed(p) PROVE MenusInv'
  BY <1>6, SaveFailedKeeps
<1>7. ASSUME NEW p \in Flows, RecoverSession(p) PROVE MenusInv'
  BY <1>7, RecoverSessionKeeps
<1>8. ASSUME NEW p \in Flows, SyncAnswered(p) PROVE MenusInv'
  BY <1>8, SyncAnsweredKeeps
<1>9. ASSUME NEW p \in Flows, LoginAnswered(p) PROVE MenusInv'
  BY <1>9, LoginAnsweredKeeps
<1>10. ASSUME NEW p \in Flows, NEW status \in Statuses \ {"none"}, NEW stores \in {"no", "yes"},
              Serve(p, status, stores)
       PROVE  MenusInv'
  BY <1>10, ServeKeeps
<1>11. ASSUME (\E item \in Paid : OpenPurchaseModal(item)) \/ ClosePurchaseModal
       PROVE  MenusInv'
  BY <1>11, DialogKeeps
<1>12. ASSUME UNCHANGED menuVars PROVE MenusInv'
  BY <1>12, MenusStutters
<1>. QED
  BY <1>1, <1>2, <1>3, <1>4, <1>5, <1>6, <1>7, <1>8, <1>9, <1>10, <1>11, <1>12 DEF MenusNext

\* In trailMenuHandlers.js, iconMenuHandlers.js, pipeTextureMenuHandlers.js, main.js and
\* sessionFlows.js, for any number of handlers that wait at the same time: once none does,
\* what a menu shows is what the server has stored, if its last save or refresh went
\* through and the answers came in the order they were given.
THEOREM MenusShowWhatIsStored == MenusSpec => []QuietMenusShowWhatIsStored
<1>1. MenusInv => QuietMenusShowWhatIsStored
  BY DEF MenusInv, Undisputed, Agreement, QuietMenusShowWhatIsStored
<1>. QED
  BY MenusInvInit, MenusInvStep, <1>1, PTL DEF MenusSpec
=============================================================================
