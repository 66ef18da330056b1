---------------------------- MODULE ConfigStore ----------------------------
(***************************************************************************)
(* The configuration stores, services/serverConfig.cjs and                 *)
(* services/gameConfigStore.cjs, with the handlers of server.cjs that edit *)
(* them.  The latter is the former without the reload: the store of which  *)
(* no request checks the file.                                             *)
(*                                                                         *)
(* A configuration has three copies: in the database, in the memory of the *)
(* process and in a file.  A save writes them in this order, an await      *)
(* apart.  The file is loaded again when its modification time has grown,  *)
(* before any request is served, so a reload can run between the awaits of *)
(* a save, and an operator may edit the file at any time.                  *)
(*                                                                         *)
(* A call of the file system takes effect at one step and is answered at a *)
(* later one.                                                              *)
(***************************************************************************)
EXTENDS Naturals

CONSTANTS
  Reqs,        \* requests that can be in flight at the same time
  Values,      \* what each half of a configuration can be
  Default,     \* the configuration when nothing is stored
  MayFail,     \* may the database and the file system refuse a write?
  MayBeDown,   \* may the database be unreachable when the server starts?
  MayEdit,     \* does an operator edit the file?
  MaxMtime,    \* bound: saves, edits and crashes come before this modification time
  NoConfig, Missing, Empty, Torn

\* The achievement definitions (the trail styles), and everything else.
Configs == [rest : Values, part : Values]

ASSUME ConfigAssumption ==
  /\ Default \in Configs
  /\ MayFail \in BOOLEAN
  /\ MayBeDown \in BOOLEAN
  /\ MayEdit \in BOOLEAN
  /\ MaxMtime \in Nat
  /\ NoConfig \notin Configs
  /\ Configs \cap {Missing, Empty, Torn} = {}
  /\ Missing # Empty /\ Missing # Torn /\ Empty # Torn

VARIABLES
  db,       \* the document "active" of the collection
  file,     \* the file's content
  mtime,    \* its modification time; files are never stamped 0
  up,       \* the server is listening
  adapter,  \* it has a persistence adapter
  current,  \* the configuration it serves
  seen,     \* lastMtimeMs, 0 for null
  req,      \* the requests in flight
  \* history, read by the properties only
  entered,  \* the configurations that were ever committed or typed in
  disturbed \* since the start, requests overlapped, an operator edited the
            \* file, or a write or the start itself failed

disk == <<file, mtime>>
memory == <<adapter, current, seen>>
history == <<entered, disturbed>>
vars == <<db, file, mtime, up, adapter, current, seen, req, entered, disturbed>>

Contents == Configs \cup {Missing, Empty, Torn}

\* Steps of a request: reloading, being handled, saving.
Steps ==
  {"idle", "compare", "readFile", "parse", "handle",
   "persist", "persisted", "open", "write", "restat", "stamp"}

Idle ==
  [at |-> "idle", partOnly |-> FALSE, config |-> Default, content |-> Missing, mtime |-> 0]

\* config is what is being saved, for a change of one part or not; content and
\* mtime are what was read.
Requests ==
  [at : Steps, partOnly : BOOLEAN, config : Configs, content : Contents, mtime : Nat]

TypeOK ==
  /\ db \in Configs \cup {NoConfig}
  /\ file \in Contents
  /\ mtime \in Nat \ {0}
  /\ up \in BOOLEAN
  /\ adapter \in BOOLEAN
  /\ current \in Configs
  /\ seen \in Nat
  /\ req \in [Reqs -> Requests]
  /\ entered \subseteq Configs
  /\ disturbed \in BOOLEAN

Init ==
  /\ db = NoConfig
  /\ file = Missing
  /\ mtime = 1
  /\ up = FALSE
  /\ adapter = FALSE
  /\ current = Default
  /\ seen = 0
  /\ req = [r \in Reqs |-> Idle]
  /\ entered = {}
  /\ disturbed = FALSE
-----------------------------------------------------------------------------
Respond(r) == req' = [req EXCEPT ![r] = Idle]

Proceed(r, step) == req' = [req EXCEPT ![r].at = step]

Handle(r) == req' = [req EXCEPT ![r] = [Idle EXCEPT !.at = "handle"]]

Touch(content) ==
  /\ file' = content
  /\ mtime' = mtime + 1

Arrive(r) ==
  /\ up
  /\ req[r].at = "idle"
  /\ disturbed' = (disturbed \/ \E s \in Reqs : req[s].at # "idle")

(***************************************************************************)
(* maybeReload, awaited at the head of every request; the interval only    *)
(* thins the checks out.  The request arrives when its stat is taken, or   *)
(* goes on without one.                                                    *)
(***************************************************************************)
SkipReload(r) ==
  /\ Arrive(r)
  /\ Handle(r)
  /\ UNCHANGED <<db, disk, up, memory, entered>>

Stat(r) ==
  /\ Arrive(r)
  /\ req' = [req EXCEPT ![r].at = "compare", ![r].content = file, ![r].mtime = mtime]
  /\ UNCHANGED <<db, disk, up, memory, entered>>

Compare(r) ==
  LET q == req[r]
  IN  /\ q.at = "compare"
      /\ \/ /\ q.content = Missing
            /\ current' = Default
            /\ seen' = 0
            /\ Handle(r)
         \/ /\ q.content # Missing
            /\ seen # 0 /\ q.mtime <= seen
            /\ Handle(r)
            /\ UNCHANGED <<current, seen>>
         \/ /\ q.content # Missing
            /\ seen = 0 \/ q.mtime > seen
            /\ seen' = q.mtime
            /\ Proceed(r, "readFile")
            /\ UNCHANGED current
      /\ UNCHANGED <<db, disk, up, adapter, history>>

ReadFile(r) ==
  /\ req[r].at = "readFile"
  /\ req' = [req EXCEPT ![r].at = "parse", ![r].content = file]
  /\ UNCHANGED <<db, disk, up, memory, history>>

\* A file that does not parse is reported, and the request is served anyhow.
Parse(r) ==
  LET content == req[r].content
  IN  /\ req[r].at = "parse"
      /\ current' = CASE content \in Configs -> content
                      [] content = Missing -> Default
                      [] OTHER -> current
      /\ seen' = IF content = Missing THEN 0 ELSE seen
      /\ Handle(r)
      /\ UNCHANGED <<db, disk, up, adapter, history>>
-----------------------------------------------------------------------------
\* Any request that does not edit the configuration.
Serve(r) ==
  /\ req[r].at = "handle"
  /\ Respond(r)
  /\ UNCHANGED <<db, disk, up, memory, history>>

\* Mutant: the configuration is served before it is committed.
SaveEagerly(r, config, partOnly) ==
  /\ req[r].at = "handle"
  /\ mtime < MaxMtime
  /\ req' = [req EXCEPT ![r] =
               [Idle EXCEPT !.at = IF adapter THEN "persist" ELSE "open",
                        !.config = config, !.partOnly = partOnly]]
  /\ current' = config
  /\ entered' = IF adapter THEN entered ELSE entered \cup {config}
  /\ UNCHANGED <<db, disk, up, adapter, seen, disturbed>>

\* A save up to its first write: to the database, or straight to memory.
Save(r, config, partOnly) ==
  /\ req[r].at = "handle"
  /\ mtime < MaxMtime
  /\ req' = [req EXCEPT ![r] =
               [Idle EXCEPT !.at = IF adapter THEN "persist" ELSE "open",
                        !.config = config, !.partOnly = partOnly]]
  /\ IF adapter
     THEN UNCHANGED <<current, entered>>
     ELSE current' = config /\ entered' = entered \cup {config}
  /\ UNCHANGED <<db, disk, up, adapter, seen, disturbed>>

\* PUT of the whole configuration.
PutConfig(r) == \E config \in Configs : Save(r, config, FALSE)

\* Mutant: the rest is that of the defaults.
PutPartAlone(r) == \E v \in Values : Save(r, [Default EXCEPT !.part = v], TRUE)

\* PUT of the achievement definitions, or of the trail styles: the rest is
\* that of the configuration in memory.
PutPart(r) == \E v \in Values : Save(r, [current EXCEPT !.part = v], TRUE)

\* replaceOne with upsert.
Persist(r) ==
  /\ req[r].at = "persist"
  /\ db' = req[r].config
  /\ entered' = entered \cup {req[r].config}
  /\ Proceed(r, "persisted")
  /\ UNCHANGED <<disk, up, memory, disturbed>>

Persisted(r) ==
  /\ req[r].at = "persisted"
  /\ current' = req[r].config
  /\ Proceed(r, "open")
  /\ UNCHANGED <<db, disk, up, adapter, seen, history>>

\* writeFile opens the file, which truncates it, and then writes from its start.
Open(r) ==
  /\ req[r].at = "open"
  /\ Touch(Empty)
  /\ Proceed(r, "write")
  /\ UNCHANGED <<db, up, memory, history>>

\* Over what another writer wrote meanwhile: the tail of a longer text stays.
Write(r) ==
  LET config == req[r].config
  IN  /\ req[r].at = "write"
      /\ \/ Touch(config)
         \/ file \notin {Empty, config} /\ Touch(Torn)
      /\ Proceed(r, "restat")
      /\ UNCHANGED <<db, up, memory, history>>

Restat(r) ==
  /\ req[r].at = "restat"
  /\ req' = [req EXCEPT ![r].at = "stamp", ![r].mtime = IF file = Missing THEN 0 ELSE mtime]
  /\ UNCHANGED <<db, disk, up, memory, history>>

\* The end of writeToDisk, and the answer.
Stamp(r) ==
  /\ req[r].at = "stamp"
  /\ seen' = req[r].mtime
  /\ Respond(r)
  /\ UNCHANGED <<db, disk, up, adapter, current, history>>

\* The write that is due is refused, or its answer is lost.
Fail(r) ==
  /\ MayFail
  /\ req[r].at \in {"persist", "persisted", "open", "write"}
  /\ Respond(r)
  /\ disturbed' = TRUE
  /\ UNCHANGED <<db, disk, up, memory, entered>>
-----------------------------------------------------------------------------
\* An operator saves the file in an editor, with a slip or not, or removes it.
Edit(content) ==
  /\ MayEdit
  /\ mtime < MaxMtime
  /\ Touch(content)
  /\ entered' = entered \cup ({content} \cap Configs)
  /\ disturbed' = TRUE
  /\ UNCHANGED <<db, up, memory, req>>

\* The process dies, and the requests with it.
Die ==
  /\ up
  /\ mtime < MaxMtime
  /\ up' = FALSE
  /\ req' = [r \in Reqs |-> Idle]
  /\ UNCHANGED <<db, disk, memory, history>>

\* Nothing is stored, or nothing can be asked: load reads the file.
LoadFromDisk ==
  /\ current' = IF file \in Configs THEN file ELSE Default
  /\ seen' = IF file # Missing THEN mtime ELSE 0
  /\ UNCHANGED disk

\* Mutant: the file is left as it is.
LoadAndLeaveFile ==
  /\ current' = db
  /\ seen' = IF file # Missing THEN mtime ELSE 0
  /\ UNCHANGED disk

\* What is stored is served, and copied to the file.
LoadFromDatabase ==
  /\ current' = db
  /\ Touch(db)
  /\ seen' = mtime'

\* load throws, at its read of the database or at its write of the file, and
\* the server starts all the same.
LoadFails ==
  /\ MayFail
  /\ current' \in {Default} \cup ({db} \ {NoConfig})
  /\ seen' = 0
  /\ UNCHANGED disk

(***************************************************************************)
(* startServer up to listen: nothing else runs.  The adapter is set for    *)
(* the life of the process if the database could be reached.               *)
(***************************************************************************)
Start ==
  /\ ~up
  /\ up' = TRUE
  /\ adapter' \in {TRUE} \cup (IF MayBeDown THEN {FALSE} ELSE {})
  /\ \/ adapter' /\ db # NoConfig /\ LoadFromDatabase /\ disturbed' = FALSE
     \/ ~(adapter' /\ db # NoConfig) /\ LoadFromDisk /\ disturbed' = ~adapter'
     \/ adapter' /\ LoadFails /\ disturbed' = TRUE
  /\ UNCHANGED <<db, req, entered>>

\* The process dies while it copies the configuration to the file.
StartDies ==
  /\ ~up
  /\ mtime < MaxMtime
  /\ db # NoConfig
  /\ Touch(Empty)
  /\ UNCHANGED <<db, up, memory, req, history>>

Reload(r) == SkipReload(r) \/ Stat(r) \/ Compare(r) \/ ReadFile(r) \/ Parse(r)

Saving(r) ==
  Persist(r) \/ Persisted(r) \/ Open(r) \/ Write(r) \/ Restat(r) \/ Stamp(r) \/ Fail(r)

Next ==
  \/ \E r \in Reqs : Reload(r) \/ Serve(r) \/ PutConfig(r) \/ PutPart(r) \/ Saving(r)
  \/ \E content \in Contents \ {Empty} : Edit(content)
  \/ Die
  \/ Start
  \/ StartDies

Spec == Init /\ [][Next]_vars
-----------------------------------------------------------------------------
Quiet == up /\ \A r \in Reqs : req[r].at = "idle"

\* An idle server has the same configuration in memory, database and file.  This
\* does not hold when requests overlap.
NeverDrifts == Quiet /\ db # NoConfig => current = db /\ file = db

\* As long as requests do not overlap and nothing fails, the three copies agree
\* whenever the server is idle, wherever the process died before.
CopiesAgree == ~disturbed => NeverDrifts

\* What the next start will load.
Durable ==
  CASE db # NoConfig -> db
    [] db = NoConfig /\ file \in Configs -> file
    [] OTHER -> Default

\* And the commit of an edited part leaves the rest as it was, although it is
\* written whole, from the copy in memory.
EditsOnePart ==
  [][~disturbed => \A r \in Reqs :
       req[r].at = "persist" /\ req[r].partOnly /\ db' # db => db'.rest = Durable.rest]_vars

\* Whatever saves, reloads and failures interleave, the server serves, and has
\* in its file, only what was committed to the database or typed in by an
\* operator: an edit that was refused is never served.
NothingRefusedIsServed ==
  /\ current \in entered \cup {Default}
  /\ file \in Configs => file \in entered
=============================================================================
