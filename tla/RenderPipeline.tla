--------------------------- MODULE RenderPipeline ---------------------------
(***************************************************************************)
(* Replays rendered to MP4 (services/replayMp4Pipeline.cjs) and the        *)
(* endpoints of server.cjs that drive it.                                  *)
(*                                                                         *)
(* The pipeline lives in the memory of the server process: the entries of  *)
(* its store under two keys, and a queue of jobs that one setImmediate     *)
(* callback after another feeds to processJob.  All of it but the encoder  *)
(* is synchronous.  A restart forgets the store and the queue and leaves   *)
(* the files and the best runs, which are in the database, where they are. *)
(***************************************************************************)
EXTENDS Naturals, Sequences, FiniteSets

CONSTANTS
  Players,     \* the keys of the best_runs collection
  Ids,         \* replay ids: user names, as they are spelled in the URL
  KeyOf,       \* the player each id names, whatever its case
  Hashes,      \* replays, identified by their hash
  Renderable,  \* those that validateReplayForRender accepts
  Profiles,    \* render profiles
  Reqs,        \* requests that can be in flight at the same time
  MayStop,     \* may the pipeline's stop be called?
  MayRestart,  \* may the server process die and come back?
  NoRun, NoEntry, Nothing

Keys == Ids \X Profiles
HashKeys == Hashes \X Profiles

\* mp4Path is buildMp4Path of the entry from the moment it is complete.
Entries ==
  [replayId : Ids, hash : Hashes, profile : Profiles,
   status : {"queued", "running", "complete", "failed"}]

ASSUME PipelineAssumption ==
  /\ KeyOf \in [Ids -> Players]
  /\ Renderable \subseteq Hashes
  /\ MayStop \in BOOLEAN
  /\ MayRestart \in BOOLEAN
  /\ NoRun \notin Hashes
  /\ NoEntry \notin Entries
  /\ Nothing \notin Keys \cup Hashes
-----------------------------------------------------------------------------
VARIABLES
  best,       \* the replay each player has in best_runs
  files,      \* what is at each path below the storage directory
  entries,    \* the store by replay id and profile
  hashIndex,  \* the store by replay hash and profile
  jobs,       \* the queue
  started,    \* it has a handler
  running,    \* its flag: the handler is busy
  encoding,   \* the entries, as processJob holds them, of the jobs in the handler
  wakeups,    \* setImmediate callbacks due to call runNext
  req,        \* the requests in flight
  encodings   \* history: how often each replay was encoded in this life

memory == <<entries, hashIndex, jobs, started, running, encoding, wakeups, encodings>>
vars == <<best, files, entries, hashIndex, jobs, started, running, encoding,
          wakeups, req, encodings>>

Idle == [at |-> "idle", key |-> Nothing, hash |-> Nothing]

Requests ==
  [at : {"idle", "request", "reading"}, key : Keys \cup {Nothing},
   hash : Hashes \cup {Nothing}]

TypeOK ==
  /\ best \in [Players -> Hashes \cup {NoRun}]
  /\ files \in [Ids \X HashKeys -> {"absent", "partial", "whole"}]
  /\ entries \in [Keys -> Entries \cup {NoEntry}]
  /\ hashIndex \in [HashKeys -> Entries \cup {NoEntry}]
  /\ jobs \in Seq(Keys)
  /\ started \in BOOLEAN
  /\ running \in BOOLEAN
  /\ encoding \subseteq Entries
  /\ wakeups \in Nat
  /\ req \in [Reqs -> Requests]
  /\ encodings \in [HashKeys -> Nat]

Init ==
  /\ best = [u \in Players |-> NoRun]
  /\ files = [path \in Ids \X HashKeys |-> "absent"]
  /\ entries = [k \in Keys |-> NoEntry]
  /\ hashIndex = [k \in HashKeys |-> NoEntry]
  /\ jobs = <<>>
  /\ started = TRUE
  /\ running = FALSE
  /\ encoding = {}
  /\ wakeups = 0
  /\ req = [r \in Reqs |-> Idle]
  /\ encodings = [k \in HashKeys |-> 0]
-----------------------------------------------------------------------------
KeyFor(entry) == <<entry.replayId, entry.profile>>
HashKey(entry) == <<entry.hash, entry.profile>>
BuildMp4Path(entry) == <<entry.replayId, HashKey(entry)>>

Upsert(entry) ==
  /\ entries' = [entries EXCEPT ![KeyFor(entry)] = entry]
  /\ hashIndex' = [hashIndex EXCEPT ![HashKey(entry)] = entry]

Respond(r) == req' = [req EXCEPT ![r] = Idle]

\* POST /api/run/best, seen from here: a player's best run is another one.
StoreBestRun(u, h) ==
  /\ best[u] # h
  /\ best' = [best EXCEPT ![u] = h]
  /\ UNCHANGED <<files, memory, req>>

(***************************************************************************)
(* POST /api/replays/:username/render-mp4: the best run is read, and by    *)
(* the time it is rendered the player may have a better one.               *)
(***************************************************************************)
GetBestRun(r, k) ==
  /\ req[r].at = "idle"
  /\ best[KeyOf[k[1]]] # NoRun
  /\ req' = [req EXCEPT ![r] = [at |-> "request", key |-> k, hash |-> best[KeyOf[k[1]]]]]
  /\ UNCHANGED <<best, files, memory>>

\* Mutant: only the hash is looked up.
ExistingByHash(key, hash) == hashIndex[hash, key[2]]

\* What requestRender finds for a request: by hash, then by replay id.
Existing(key, hash) ==
  IF hashIndex[hash, key[2]] # NoEntry THEN hashIndex[hash, key[2]] ELSE entries[key]

RequestRender(r) ==
  LET q == req[r]
      entry == [replayId |-> q.key[1], hash |-> q.hash, profile |-> q.key[2],
                status |-> "queued"]
  IN  /\ q.at = "request"
      /\ IF q.hash \in Renderable /\ Existing(q.key, q.hash) = NoEntry
         THEN /\ Upsert(entry)
              /\ jobs' = Append(jobs, q.key)
              /\ wakeups' = IF started THEN wakeups + 1 ELSE wakeups
         ELSE UNCHANGED <<entries, hashIndex, jobs, wakeups>>
      /\ Respond(r)
      /\ UNCHANGED <<best, files, started, running, encoding, encodings>>

(***************************************************************************)
(* GET /api/replays/:username/mp4: getMp4 gives the path, the file is read *)
(* at the next await.                                                      *)
(***************************************************************************)
GetMp4(r, k) ==
  /\ req[r].at = "idle"
  /\ entries[k] # NoEntry
  /\ entries[k].status = "complete"
  /\ req' = [req EXCEPT ![r] = [at |-> "reading", key |-> k, hash |-> entries[k].hash]]
  /\ UNCHANGED <<best, files, memory>>

ReadFile(r) ==
  /\ req[r].at = "reading"
  /\ Respond(r)
  /\ UNCHANGED <<best, files, memory>>
-----------------------------------------------------------------------------
MayStart == ~running /\ started /\ jobs # <<>>

\* Mutant: the entry is completed when its encoding starts.
TakenComplete(entry) == [entry EXCEPT !.status = "complete"]

\* The copy of its entry that processJob writes and holds.
Taken(entry) == [entry EXCEPT !.status = "running"]

(***************************************************************************)
(* A setImmediate callback calls runNext, which takes a job into           *)
(* processJob up to its await of the encoder.  Entries are never deleted,  *)
(* so the job's entry is there.  ffmpeg overwrites the file at the path.   *)
(***************************************************************************)
RunNext ==
  /\ wakeups > 0
  /\ wakeups' = wakeups - 1
  /\ IF MayStart
     THEN LET entry == Taken(entries[Head(jobs)])
          IN  /\ running' = TRUE
              /\ jobs' = Tail(jobs)
              /\ Upsert(entry)
              /\ encoding' = encoding \cup {entry}
              /\ files' = [files EXCEPT ![BuildMp4Path(entry)] = "partial"]
              /\ encodings' = [encodings EXCEPT ![HashKey(entry)] = @ + 1]
     ELSE UNCHANGED <<running, jobs, entries, hashIndex, encoding, files, encodings>>
  /\ UNCHANGED <<best, started, req>>

\* Mutant: runNext leaves the jobs that wait to the callbacks of enqueue.
JobEndsQuietly(entry) ==
  /\ encoding' = encoding \ {entry}
  /\ running' = FALSE
  /\ UNCHANGED <<best, jobs, wakeups, started, req, encodings>>

\* The rest of processJob and of runNext, once the entry is written.
JobEnds(entry) ==
  /\ encoding' = encoding \ {entry}
  /\ running' = FALSE
  /\ wakeups' = IF jobs # <<>> THEN wakeups + 1 ELSE wakeups
  /\ UNCHANGED <<best, jobs, started, req, encodings>>

(***************************************************************************)
(* encodeMp4 resolves when ffmpeg exits with code 0, and rejects when it   *)
(* exits with another, cannot be started or fed, or runs for longer than   *)
(* the timeout.  Then the file is whatever ffmpeg left.  What processJob   *)
(* writes is the entry it took, with its outcome.                          *)
(***************************************************************************)
EncodeSucceeds(entry) ==
  /\ entry \in encoding
  /\ Upsert([entry EXCEPT !.status = "complete"])
  /\ files' = [files EXCEPT ![BuildMp4Path(entry)] = "whole"]
  /\ JobEnds(entry)

EncodeFails(entry) ==
  /\ entry \in encoding
  /\ Upsert([entry EXCEPT !.status = "failed"])
  /\ UNCHANGED files
  /\ JobEnds(entry)

\* stop: the handler is gone and the jobs that wait are dropped.  The one
\* that runs is not interrupted.
Stop ==
  /\ MayStop
  /\ started
  /\ started' = FALSE
  /\ jobs' = <<>>
  /\ UNCHANGED <<best, files, entries, hashIndex, running, encoding, wakeups, req, encodings>>

(***************************************************************************)
(* The process dies (so does an ffmpeg whose input ends) and a new one     *)
(* starts.                                                                 *)
(***************************************************************************)
Restart ==
  /\ MayRestart
  /\ entries' = [k \in Keys |-> NoEntry]
  /\ hashIndex' = [k \in HashKeys |-> NoEntry]
  /\ jobs' = <<>>
  /\ started' = TRUE
  /\ running' = FALSE
  /\ encoding' = {}
  /\ wakeups' = 0
  /\ req' = [r \in Reqs |-> Idle]
  /\ encodings' = [k \in HashKeys |-> 0]
  /\ UNCHANGED <<best, files>>

EncodeEnds == \E entry \in encoding : EncodeSucceeds(entry) \/ EncodeFails(entry)

Next ==
  \/ \E u \in Players, h \in Hashes : StoreBestRun(u, h)
  \/ \E r \in Reqs, k \in Keys : GetBestRun(r, k) \/ GetMp4(r, k)
  \/ \E r \in Reqs : RequestRender(r) \/ ReadFile(r)
  \/ RunNext
  \/ EncodeEnds
  \/ Stop
  \/ Restart

(***************************************************************************)
(* The event loop calls every callback it was given, and the timeout of    *)
(* encodeMp4 ends an encoder that does not end by itself.                  *)
(***************************************************************************)
Fairness == WF_vars(RunNext) /\ WF_vars(EncodeEnds)

Spec == Init /\ [][Next]_vars
FairSpec == Spec /\ Fairness
-----------------------------------------------------------------------------
\* However callbacks pile up (enqueue posts one per job and the end of a job
\* posts another), at most one ffmpeg runs.
OneAtATime == Cardinality(encoding) <= 1

\* The store's two indexes hold the same entries, although processJob writes
\* back after an await the copy of the entry it took before.
IndexesAgree ==
  /\ \A k \in Keys : entries[k] # NoEntry =>
       KeyFor(entries[k]) = k /\ hashIndex[HashKey(entries[k])] = entries[k]
  /\ \A k \in HashKeys : hashIndex[k] # NoEntry =>
       HashKey(hashIndex[k]) = k /\ entries[KeyFor(hashIndex[k])] = hashIndex[k]

\* Jobs that wait while nothing runs have a callback under way that will take
\* them: enqueue's callback may have fired in vain while another job ran.
NoLostWakeup == started /\ ~running /\ jobs # <<>> => wakeups > 0

\* A replay is encoded at most once per profile in the life of a process,
\* whichever spellings of whichever players ask for it and how often.
RenderedOnce == \A k \in HashKeys : encodings[k] <= 1

\* Renders are taken from the queue one at a time, and it never stalls.
QueueIsServed == OneAtATime /\ NoLostWakeup

\* What the indexes say of a replay is the same, and said of a single render.
StoreIsSound == IndexesAgree /\ RenderedOnce

\* The file that is being read for a download is a whole MP4: no encoder has
\* overwritten it since getMp4 found its entry complete.
ServedIsWhole ==
  \A r \in Reqs : req[r].at = "reading" =>
    files[req[r].key[1], <<req[r].hash, req[r].key[2]>>] = "whole"

Unsettled(k) == entries[k] # NoEntry /\ entries[k].status \in {"queued", "running"}

\* A render that was accepted ends, complete or failed, unless a restart
\* forgets it or the pipeline is stopped.
QueuedSettles == \A k \in Keys : Unsettled(k) ~> ~Unsettled(k) \/ ~started

\* What a handler is about to be answered is the replay it asked for.
AnswersWhatWasAsked ==
  \A r \in Reqs : req[r].at = "request" =>
    LET answer == Existing(req[r].key, req[r].hash)
    IN  answer # NoEntry => answer.hash = req[r].hash
=============================================================================
