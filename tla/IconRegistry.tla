---------------------------- MODULE IconRegistry ----------------------------
(***************************************************************************)
(* The icons that editors add and change: the collection icon_registry of  *)
(* db/mongo.cjs, the store in front of it (services/iconRegistryStore.cjs, *)
(* iconCatalog.cjs) and PUT /api/admin/icon-registry.                      *)
(*                                                                         *)
(* A catalog is replaced as a whole, document by document: the new icons   *)
(* are written, unordered, then whatever is not among them is deleted.     *)
(* Replacements may overlap, fail half way, and the process may die; the   *)
(* list in memory is set when a replacement is through.  At a start an     *)
(* empty registry takes over the icons of an old game configuration.       *)
(***************************************************************************)
EXTENDS Naturals

CONSTANTS
  Icons,     \* ids
  Styles,    \* everything else of an icon
  Absent,
  Builtin,   \* the base catalog, that the stored icons go over
  Legacy,    \* iconStyles.icons of the game configuration
  Editors    \* PUT requests that may be in flight at the same time

Catalogs == [Icons -> Styles \cup {Absent}]
Empty == [i \in Icons |-> Absent]

ASSUME RegistryAssumption ==
  Absent \notin Styles /\ Builtin \in Catalogs /\ Legacy \in Catalogs

VARIABLES
  server,    \* is the process up, and with which adapter
  stored,    \* the collection
  cached,    \* icons of the store
  editor,    \* the replacements under way
  intact     \* history: did the last replacement run alone and go through

registryVars == <<server, stored, cached, editor, intact>>

NoEdit == [at |-> "idle", list |-> Empty, left |-> {}]

RegistryTypeOK ==
  /\ server \in {"down", "loading", "migrating", "up", "memory"}
  /\ stored \in Catalogs /\ cached \in Catalogs
  /\ editor \in [Editors -> [at : {"idle", "writing", "deleting"}, list : Catalogs,
                             left : SUBSET Icons]]
  /\ intact \in {"no", "alone", "yes"}

RegistryInit ==
  /\ server = "down" /\ stored = Empty /\ cached = Empty
  /\ editor = [e \in Editors |-> NoEdit]
  /\ intact = "no"

\* resolveIconCatalog: the stored icons go over those of the base catalog.
Resolve(list) == [i \in Icons |-> IF list[i] # Absent THEN list[i] ELSE Builtin[i]]

Editing == {e \in Editors : editor[e].at # "idle"}
Ids(list) == {i \in Icons : list[i] # Absent}
-----------------------------------------------------------------------------
\* startServer: the adapter is set if the database answers, and not again later.
StartServer(database) ==
  /\ server = "down"
  /\ server' = IF database = "up" THEN "loading" ELSE "memory"
  /\ cached' = IF database = "up" THEN cached ELSE Legacy
  /\ UNCHANGED <<stored, editor, intact>>

\* The load of startServer: the collection, or nothing if it throws.  An empty list is
\* replaced by the old icons, through save.
Load(answer) ==
  /\ server = "loading"
  /\ LET loaded == IF answer = "icons" THEN stored ELSE Empty
     IN  /\ cached' = loaded
         /\ server' = IF loaded = Empty /\ Legacy # Empty THEN "migrating" ELSE "up"
         /\ intact' = IF answer = "icons" THEN "yes" ELSE "no"
  /\ UNCHANGED <<stored, editor>>

\* The migration writes before requests are served; it may fail half way.
Migrate(written) ==
  /\ server = "migrating" /\ written \subseteq Ids(Legacy)
  /\ server' = "up"
  /\ IF written = Ids(Legacy)
     THEN stored' = Legacy /\ cached' = Legacy /\ intact' = "yes"
     ELSE /\ stored' = [i \in Icons |-> IF i \in written THEN Legacy[i] ELSE stored[i]]
          /\ cached' = cached /\ intact' = "no"
  /\ UNCHANGED editor

Die ==
  /\ server # "down"
  /\ server' = "down" /\ cached' = Empty
  /\ editor' = [e \in Editors |-> NoEdit] /\ intact' = "no"
  /\ UNCHANGED stored
-----------------------------------------------------------------------------
\* A PUT whose body is a catalog: without an adapter it is in memory at once.
Put(e, list) ==
  /\ editor[e].at = "idle" /\ server \in {"up", "memory"}
  /\ IF server = "memory"
     THEN cached' = list /\ UNCHANGED editor
     ELSE /\ editor' = [editor EXCEPT ![e] = [at |-> IF Ids(list) = {} THEN "deleting" ELSE "writing",
                                              list |-> list, left |-> Ids(list)]]
          /\ UNCHANGED cached
  /\ intact' = IF server = "up" /\ Editing = {} THEN "alone" ELSE "no"
  /\ UNCHANGED <<server, stored>>

\* bulkWrite: one replaceOne after the other, in any order.
ReplaceOne(e) ==
  /\ editor[e].at = "writing"
  /\ \E i \in editor[e].left :
       /\ stored' = [stored EXCEPT ![i] = editor[e].list[i]]
       /\ editor' = [editor EXCEPT ![e] =
            [at |-> IF editor[e].left = {i} THEN "deleting" ELSE "writing",
             list |-> editor[e].list, left |-> editor[e].left \ {i}]]
  /\ UNCHANGED <<server, cached, intact>>

\* Mutant: an empty catalog deletes nothing.
DeleteNone(e) ==
  /\ editor[e].at = "deleting"
  /\ IF Ids(editor[e].list) = {} THEN stored' = stored
     ELSE stored' = [i \in Icons |-> IF i \in Ids(editor[e].list) THEN stored[i] ELSE Absent]
  /\ cached' = editor[e].list
  /\ editor' = [editor EXCEPT ![e] = NoEdit]
  /\ intact' = IF intact = "alone" THEN "yes" ELSE "no"
  /\ UNCHANGED server

\* deleteMany, and what save does after it.
DeleteMany(e) ==
  /\ editor[e].at = "deleting"
  /\ stored' = [i \in Icons |-> IF i \in Ids(editor[e].list) THEN stored[i] ELSE Absent]
  /\ cached' = editor[e].list
  /\ editor' = [editor EXCEPT ![e] = NoEdit]
  /\ intact' = IF intact = "alone" THEN "yes" ELSE "no"
  /\ UNCHANGED server

\* The database fails: 500, and what was written stays.
Refused(e) ==
  /\ editor[e].at # "idle"
  /\ editor' = [editor EXCEPT ![e] = NoEdit] /\ intact' = "no"
  /\ UNCHANGED <<server, stored, cached>>

RegistryNext ==
  \/ \E database \in {"up", "down"} : StartServer(database)
  \/ \E answer \in {"icons", "error"} : Load(answer)
  \/ \E written \in SUBSET Icons : Migrate(written)
  \/ Die
  \/ \E e \in Editors, list \in Catalogs : Put(e, list)
  \/ \E e \in Editors : ReplaceOne(e) \/ DeleteMany(e) \/ Refused(e)

RegistrySpec == RegistryInit /\ [][RegistryNext]_registryVars
-----------------------------------------------------------------------------
\* Once a replacement has run by itself and to its end, memory and collection hold the
\* same catalog, so that a restart would serve what is served, and they keep doing so
\* until somebody edits again: the icons are written and deleted one by one, after
\* replacements that overlapped, failed or died half way.
RestartServesTheSame ==
  intact = "yes" /\ server = "up" /\ Editing = {} => Resolve(stored) = Resolve(cached)
=============================================================================
