----------------------------- MODULE JsonEditor -----------------------------
(***************************************************************************)
(* The JSON editor of the admin page (bigflappin/modules/editor.js and     *)
(* editorModel.js), in which configurations and documents are edited: an   *)
(* object and a list, one level of each standing for all.                  *)
(*                                                                         *)
(* What is saved is read from maps and lists kept beside the page, not     *)
(* from the page.  The map goes by the key under which a field was added,  *)
(* even after its label on the page was changed, and fields are told apart *)
(* by that key when they are added and removed.                            *)
(***************************************************************************)
EXTENDS Naturals, Sequences, FiniteSets

CONSTANTS
  FieldKeys, NoKey,  \* NoKey is a blank label
  Loaded,        \* what may be loaded: an object's keys with their values
  LoadedList,    \* and a list of values
  MaxRowsEver    \* bound: rows made

ValueTypes == {"string", "number", "boolean", "null"}

\* What an input holds, of its type.  Garbled is no number.
Garbled == 2
JsonValues == [type : ValueTypes, raw : {0, 1, Garbled}]

DefaultValue(type) == [type |-> type, raw |-> 0]

\* coerceValue, and getValue of a single value: null stays null, and what is no
\* number is 0.
ReadValue(v) ==
  CASE v.type = "null" -> DefaultValue("null")
    [] v.type = "number" /\ v.raw = Garbled -> DefaultValue("number")
    [] OTHER -> v

\* What is loaded is JSON: a number is one.
ASSUME JsonAssumption ==
  /\ NoKey \notin FieldKeys
  /\ \A object \in Loaded : DOMAIN object \subseteq FieldKeys /\ IsFiniteSet(DOMAIN object)
  /\ \A object \in Loaded : \A k \in DOMAIN object :
       object[k] \in JsonValues /\ ReadValue(object[k]) = object[k]
  /\ LoadedList \in Seq(JsonValues)
  /\ MaxRowsEver \in Nat

VARIABLES
  fields,    \* `children` of the object: rows by their keys, as they were added
  rowsShown, \* the rows of the object on the page, and their labels and inputs
  items,     \* `children` of the list
  itemsShown,
  loadedOnce, \* what was loaded
  typedIn,    \* history: the rows that were typed into
  made        \* rows made so far

jsonVars == <<fields, rowsShown, items, itemsShown, loadedOnce, typedIn, made>>
-----------------------------------------------------------------------------
\* Mutant: fields are told apart by what their labels say.
HasLabel(k) == \E i \in DOMAIN rowsShown : rowsShown[i].label = k

HasKey(k) == \E i \in DOMAIN fields : fields[i].key = k

NewRow(n, k, added, v) == [n |-> n, label |-> k, added |-> added, value |-> v]

RowOf(n) == rowsShown[CHOOSE i \in DOMAIN rowsShown : rowsShown[i].n = n]

OnPage(n) == \E i \in DOMAIN rowsShown : rowsShown[i].n = n

\* getValue of the object: only an added field's label can be edited, a blank
\* one is left out, and of equal ones the later field is taken.
SavedKeys == {RowOf(fields[i].n).label : i \in DOMAIN fields} \ {NoKey}

Saved ==
  [k \in SavedKeys |->
     LET claims == {i \in DOMAIN fields : RowOf(fields[i].n).label = k}
         last == CHOOSE i \in claims : \A j \in claims : j <= i
     IN  ReadValue(RowOf(fields[last].n).value)]

SavedList == [i \in DOMAIN items |-> ReadValue(items[i].value)]
-----------------------------------------------------------------------------
\* The entries of an object have an order.
Orders(S) ==
  {keys \in [1..Cardinality(S) -> S] : \A i, j \in DOMAIN keys : keys[i] = keys[j] => i = j}

JsonInit ==
  \E object \in Loaded :
    \E keys \in Orders(DOMAIN object) :
        /\ loadedOnce = object
        /\ fields = [i \in DOMAIN keys |-> [key |-> keys[i], n |-> i]]
        /\ rowsShown = [i \in DOMAIN keys |-> NewRow(i, keys[i], "no", object[keys[i]])]
        /\ items = [i \in DOMAIN LoadedList |-> [n |-> Len(keys) + i, value |-> LoadedList[i]]]
        /\ itemsShown = [i \in DOMAIN LoadedList |-> Len(keys) + i]
        /\ typedIn = {}
        /\ made = Len(keys) + Len(LoadedList)

\* addChild: a key is in the map once.
PutField(k, n) ==
  LET there == {i \in DOMAIN fields : fields[i].key = k}
  IN  IF there = {} THEN Append(fields, [key |-> k, n |-> n])
      ELSE [fields EXCEPT ![CHOOSE i \in there : TRUE].n = n]

\* The button Add field.
AddField(k, type) ==
  /\ made < MaxRowsEver
  /\ k # NoKey /\ ~HasKey(k)
  /\ fields' = PutField(k, made + 1)
  /\ rowsShown' = Append(rowsShown, NewRow(made + 1, k, "yes", DefaultValue(type)))
  /\ made' = made + 1
  /\ UNCHANGED <<items, itemsShown, loadedOnce, typedIn>>

\* A row is taken out of the page, a child out of its map or list.
TakenOut(list, i) == [j \in 1..(Len(list) - 1) |-> IF j < i THEN list[j] ELSE list[j + 1]]

\* The button Remove of a row takes its key out of the map.
RemoveField(i) ==
  /\ rowsShown' = TakenOut(rowsShown, CHOOSE j \in DOMAIN rowsShown : rowsShown[j].n = fields[i].n)
  /\ fields' = TakenOut(fields, i)
  /\ UNCHANGED <<items, itemsShown, loadedOnce, typedIn, made>>

Relabel(j, k) ==
  /\ rowsShown[j].added = "yes" /\ rowsShown[j].label # k
  /\ rowsShown' = [rowsShown EXCEPT ![j].label = k]
  /\ UNCHANGED <<fields, items, itemsShown, loadedOnce, typedIn, made>>

TypeValue(j, raw) ==
  /\ rowsShown[j].value.raw # raw
  /\ raw = Garbled => rowsShown[j].value.type \in {"number", "null"}
  /\ rowsShown' = [rowsShown EXCEPT ![j].value.raw = raw]
  /\ typedIn' = typedIn \cup {rowsShown[j].n}
  /\ UNCHANGED <<fields, items, itemsShown, loadedOnce, made>>

\* The button Append of a list.
AppendItem(type) ==
  /\ made < MaxRowsEver
  /\ items' = Append(items, [n |-> made + 1, value |-> DefaultValue(type)])
  /\ itemsShown' = Append(itemsShown, made + 1)
  /\ made' = made + 1
  /\ UNCHANGED <<fields, rowsShown, loadedOnce, typedIn>>

RemoveItem(i) ==
  /\ itemsShown' = TakenOut(itemsShown, CHOOSE j \in DOMAIN itemsShown : itemsShown[j] = items[i].n)
  /\ items' = TakenOut(items, i)
  /\ UNCHANGED <<fields, rowsShown, loadedOnce, typedIn, made>>

JsonNext ==
  \/ \E k \in FieldKeys \cup {NoKey}, type \in ValueTypes : AddField(k, type)
  \/ \E i \in DOMAIN fields : RemoveField(i)
  \/ \E j \in DOMAIN rowsShown :
       \/ \E k \in FieldKeys \cup {NoKey} : Relabel(j, k)
       \/ \E raw \in {0, 1, Garbled} : TypeValue(j, raw)
  \/ \E type \in ValueTypes : AppendItem(type)
  \/ \E i \in DOMAIN items : RemoveItem(i)

JsonSpec == JsonInit /\ [][JsonNext]_jsonVars
-----------------------------------------------------------------------------
\* What is saved is what is on the page, however its rows were added, labelled
\* and removed: every labelled row is among the fields, the list is as shown, and a
\* field that was loaded and neither removed nor typed into is saved as it was,
\* unless an added row has been given its name.
PageIsSaved ==
  /\ \A i \in DOMAIN fields : OnPage(fields[i].n)
  /\ \A j \in DOMAIN rowsShown : rowsShown[j].label # NoKey =>
       \E i \in DOMAIN fields : fields[i].n = rowsShown[j].n
  /\ itemsShown = [i \in DOMAIN items |-> items[i].n]
  /\ \A j \in DOMAIN rowsShown :
       LET row == rowsShown[j]
       IN  row.added = "no" /\ row.n \notin typedIn
             /\ (\A m \in DOMAIN rowsShown : rowsShown[m].label = row.label => m = j)
           => Saved[row.label] = loadedOnce[row.label]
=============================================================================
