-------------------------------- MODULE Desk --------------------------------
(***************************************************************************)
(* The database editor of the admin page (renderDatabaseEditor of          *)
(* bigflappin/admin.js) and the collection endpoints behind it.            *)
(*                                                                         *)
(* The tool keeps one selected collection, one selected document and one   *)
(* editor for all its buttons.  The selection changes when a document is   *)
(* asked for, the editor when it arrives; nothing is disabled meanwhile,   *)
(* and an answer that comes late still takes effect, be it in a part of    *)
(* the page that is gone.                                                  *)
(***************************************************************************)
EXTENDS Naturals, Sequences

CONSTANTS
  Collections,      \* their names, in order of the numbers from 1
  DocIds,           \* numbers; a list comes in their order
  FirstDocs,        \* the documents of each collection at first
  MaxCalls,         \* bound: what the operator asks for
  Unselected

\* A document is told by where it was stored first; what an operator changes in
\* it does not matter here.  Unselected stands for none.
Places == Collections \X DocIds

ASSUME DeskAssumption ==
  /\ Collections \subseteq Nat /\ DocIds \subseteq Nat
  /\ FirstDocs \in [Collections -> SUBSET DocIds]
  /\ MaxCalls \in Nat
  /\ Unselected \notin Places \cup Collections \cup DocIds

VARIABLES
  kept,         \* what each collection has under each id
  section,      \* how often the collections were rendered
  wrap,         \* and lists of documents
  chosen,       \* collectionSelect of each rendering
  listed,       \* the documents to choose from
  selectedCollection, selectedId,
  editing,       \* the document in the editor
  visible,      \* the one in the editor that is on the page
  saveButton, insertButton,   \* are they on the page?
  calls,        \* what was asked for and has not been answered
  writes,       \* the saves on their way
  asked,
  astray        \* history: since the page was quiet, calls overlapped or failed

deskVars == <<kept, section, wrap, chosen, listed, selectedCollection, selectedId, editing,
              visible, saveButton, insertButton, calls, writes, asked, astray>>

pageParts == <<section, wrap, listed, visible, saveButton, insertButton>>

First(S) == CHOOSE x \in S : \A y \in S : x <= y

InCollection(c) == {i \in DocIds : kept[c][i] # Unselected}

\* How a call finds the page when it is answered.
NewCall(kind, s, w, c, i, first) ==
  [kind |-> kind, section |-> s, wrap |-> w, collection |-> c, id |-> i, first |-> first]

DeskInit ==
  /\ kept = [c \in Collections |-> [i \in DocIds |-> IF i \in FirstDocs[c] THEN <<c, i>>
                                                     ELSE Unselected]]
  /\ section = 0 /\ wrap = 0
  /\ chosen = <<>>
  /\ listed = {}
  /\ selectedCollection = Unselected /\ selectedId = Unselected
  /\ editing = Unselected /\ visible = Unselected
  /\ saveButton = "no" /\ insertButton = "no"
  /\ calls = {NewCall("collections", 0, 0, Unselected, Unselected, "no")}
  /\ writes = {}
  /\ asked = 0 /\ astray = "no"
-----------------------------------------------------------------------------
\* The operator asks for something.
Ask(call) ==
  /\ asked < MaxCalls
  /\ calls' = calls \cup {call}
  /\ asked' = asked + 1
  /\ astray' = IF calls = {} THEN "no" ELSE "yes"

ReloadCollections ==
  /\ Ask(NewCall("collections", section, wrap, Unselected, Unselected, "no"))
  /\ UNCHANGED <<kept, pageParts, chosen, selectedCollection, selectedId, editing, writes>>

\* The select of the collections loads nothing.
ChooseCollection(c) ==
  /\ section > 0 /\ chosen[section] # c
  /\ chosen' = [chosen EXCEPT ![section] = c]
  /\ UNCHANGED <<kept, pageParts, selectedCollection, selectedId, editing, calls, writes,
                 asked, astray>>

\* The button Load Documents.
LoadDocs ==
  /\ section > 0
  /\ selectedCollection' = chosen[section]
  /\ Ask(NewCall("documents", section, wrap, chosen[section], Unselected, "no"))
  /\ UNCHANGED <<kept, pageParts, chosen, selectedId, editing, writes>>

\* The button Edit.
OpenDocument(i) ==
  /\ i \in listed
  /\ selectedId' = i
  /\ Ask(NewCall("document", section, wrap, selectedCollection, i, "no"))
  /\ UNCHANGED <<kept, pageParts, chosen, selectedCollection, editing, writes>>

\* The button Insert.
CreateDocument ==
  /\ insertButton = "yes"
  /\ Ask(NewCall("insert", section, wrap, selectedCollection, Unselected, "no"))
  /\ UNCHANGED <<kept, pageParts, chosen, selectedCollection, selectedId, editing, writes>>

\* Mutant: the collection is the one in the select.
SaveTargetAsChosen == <<chosen[section], selectedId>>

\* Where the button Save Document saves to.
SaveTarget == <<selectedCollection, selectedId>>

SaveDocument ==
  /\ saveButton = "yes" /\ writes = {}
  /\ writes' = {[to |-> SaveTarget, what |-> editing.what]}
  /\ UNCHANGED <<kept, pageParts, chosen, selectedCollection, selectedId, editing, calls,
                 asked, astray>>
-----------------------------------------------------------------------------
\* The page is rendered anew, and the documents of the first collection are
\* asked for.
CollectionsArrive(call) ==
  /\ call.kind = "collections"
  /\ section' = section + 1
  /\ chosen' = Append(chosen, First(Collections))
  /\ selectedCollection' = First(Collections)
  /\ calls' = (calls \ {call}) \cup
       {NewCall("documents", section + 1, wrap, First(Collections), Unselected, "no")}
  /\ listed' = {} /\ visible' = Unselected
  /\ saveButton' = "no" /\ insertButton' = "no"
  /\ UNCHANGED <<kept, wrap, selectedId, editing, writes, asked, astray>>

\* A list replaces all that is below the selects of its own rendering, which
\* may not be on the page any more.  Its first document is opened.
DocumentsArrive(call) ==
  LET ids == InCollection(call.collection)
      here == call.section = section
  IN  /\ call.kind = "documents"
      /\ wrap' = IF here THEN wrap + 1 ELSE wrap
      /\ listed' = IF here THEN ids ELSE listed
      /\ visible' = IF here THEN Unselected ELSE visible
      /\ saveButton' = IF here THEN "no" ELSE saveButton
      /\ insertButton' = IF here THEN IF ids = {} THEN "yes" ELSE "no" ELSE insertButton
      /\ selectedId' = IF ids = {} THEN selectedId ELSE First(ids)
      /\ calls' = (calls \ {call}) \cup
           IF ids = {} THEN {}
           ELSE {NewCall("document", call.section, wrap', selectedCollection, First(ids), "yes")}
      /\ UNCHANGED <<kept, section, chosen, selectedCollection, editing, writes, asked, astray>>

\* The editor is the tool's from now on, on the page only if its list is.  A
\* Save button is added wherever the selects are.
DocumentArrives(call) ==
  LET doc == [from |-> <<call.collection, call.id>>, what |-> kept[call.collection][call.id]]
      here == call.section = section
  IN  /\ call.kind = "document"
      /\ doc.what # Unselected
      /\ editing' = doc
      /\ visible' = IF here /\ call.wrap = wrap THEN doc ELSE visible
      /\ saveButton' = IF here THEN "yes" ELSE saveButton
      /\ insertButton' = IF here /\ call.first = "yes" THEN "yes" ELSE insertButton
      /\ calls' = calls \ {call}
      /\ UNCHANGED <<kept, section, wrap, chosen, listed, selectedCollection, selectedId,
                     writes, asked, astray>>

\* The document is stored, and the list loaded again.
InsertArrives(call) ==
  /\ call.kind = "insert"
  /\ InCollection(call.collection) # DocIds
  /\ LET i == First(DocIds \ InCollection(call.collection))
     IN  kept' = [kept EXCEPT ![call.collection][i] = <<call.collection, i>>]
  /\ selectedCollection' = chosen[call.section]
  /\ calls' = (calls \ {call}) \cup
       {NewCall("documents", call.section, wrap, chosen[call.section], Unselected, "no")}
  /\ UNCHANGED <<pageParts, chosen, selectedId, editing, writes, asked, astray>>

\* A call fails, or there is no such document: what was to follow is not done.
CallFails(call) ==
  /\ calls' = calls \ {call}
  /\ astray' = "yes"
  /\ UNCHANGED <<kept, pageParts, chosen, selectedCollection, selectedId, editing, writes, asked>>

\* replaceDocument stores nothing where there is nothing; a save may be lost.
WriteArrives(write, arrives) ==
  LET c == write.to[1]
      i == write.to[2]
  IN  /\ kept' = IF arrives = "yes" /\ kept[c][i] # Unselected
                 THEN [kept EXCEPT ![c][i] = write.what] ELSE kept
      /\ writes' = writes \ {write}
      /\ UNCHANGED <<pageParts, chosen, selectedCollection, selectedId, editing, calls, asked, astray>>

DeskNext ==
  \/ ReloadCollections \/ LoadDocs \/ CreateDocument \/ SaveDocument
  \/ \E c \in Collections : ChooseCollection(c)
  \/ \E i \in DocIds : OpenDocument(i)
  \/ \E call \in calls :
       \/ CollectionsArrive(call) \/ DocumentsArrive(call) \/ DocumentArrives(call)
       \/ InsertArrives(call) \/ CallFails(call)
  \/ \E write \in writes, arrives \in {"yes", "no"} : WriteArrives(write, arrives)

DeskSpec == DeskInit /\ [][DeskNext]_deskVars
-----------------------------------------------------------------------------
\* Once everything is answered, a Save button on the page saves the editor that
\* is on the page over the document it was opened from, whatever has been chosen
\* and loaded since: if the last that was asked for was asked of a quiet page
\* and did not fail, however many answers were mixed up before.
QuietDeskSavesWhatItShows ==
  calls = {} /\ astray = "no" /\ saveButton = "yes" =>
    editing = visible /\ visible.from = SaveTarget
=============================================================================
