------------------------ MODULE RenderPipelineProofs ------------------------
(***************************************************************************)
(* Proofs about the render pipeline, for any number of players, replays,   *)
(* profiles and requests.                                                  *)
(***************************************************************************)
EXTENDS RenderPipeline, FiniteSetTheorems, TLAPS

\* The flag tells whether there is a job in the handler, and there is one.
OneRuns ==
  /\ running <=> encoding # {}
  /\ \A e, f \in encoding : e = f

\* The copy that processJob holds is still the stored entry.
HeldIsStored ==
  \A e \in encoding : entries[KeyFor(e)] = e /\ e.status = "running"

\* The jobs that wait are different ones, and their entries are queued.
JobsAreQueued ==
  /\ \A i \in 1..Len(jobs) : /\ entries[jobs[i]] # NoEntry
                             /\ entries[jobs[i]].status = "queued"
  /\ \A i, j \in 1..Len(jobs) : jobs[i] = jobs[j] => i = j

\* A replay was encoded, once, when its entry has left the queue.
EncodingsCounted ==
  \A k \in HashKeys :
    /\ hashIndex[k] = NoEntry => encodings[k] = 0
    /\ hashIndex[k] # NoEntry =>
         encodings[k] = IF hashIndex[k].status = "queued" THEN 0 ELSE 1

\* What is complete is on disk, and a download reads what is complete.
CompleteIsWhole ==
  \A k \in Keys : entries[k] # NoEntry /\ entries[k].status = "complete" =>
    files[BuildMp4Path(entries[k])] = "whole"

ReadersReadComplete ==
  \A r \in Reqs : req[r].at = "reading" =>
    /\ req[r].key \in Keys
    /\ entries[req[r].key] # NoEntry
    /\ entries[req[r].key].status = "complete"
    /\ entries[req[r].key].hash = req[r].hash

\* A handler that is about to ask for a render asks for a replay of a user.
AskersAsk ==
  \A r \in Reqs : req[r].at = "request" => req[r].key \in Keys /\ req[r].hash \in Hashes

PipelineInv ==
  /\ TypeOK
  /\ IndexesAgree
  /\ OneRuns
  /\ HeldIsStored
  /\ JobsAreQueued
  /\ EncodingsCounted
  /\ NoLostWakeup
  /\ CompleteIsWhole
  /\ ReadersReadComplete
  /\ AskersAsk
-----------------------------------------------------------------------------
\* The parts of an entry, and the keys made of them.
LEMMA EntryParts ==
  ASSUME NEW e \in Entries
  PROVE  /\ e.replayId \in Ids
         /\ e.hash \in Hashes
         /\ e.profile \in Profiles
         /\ e.status \in {"queued", "running", "complete", "failed"}
         /\ KeyFor(e) \in Keys
         /\ HashKey(e) \in HashKeys
         /\ BuildMp4Path(e) \in Ids \X HashKeys
BY DEF Entries, KeyFor, HashKey, BuildMp4Path, Keys, HashKeys

\* A new status changes neither the keys nor the path of an entry.
LEMMA SameKeys ==
  ASSUME NEW e \in Entries,
         NEW status \in {"queued", "running", "complete", "failed"}
  PROVE  /\ [e EXCEPT !.status = status] \in Entries
         /\ [e EXCEPT !.status = status].status = status
         /\ [e EXCEPT !.status = status].hash = e.hash
         /\ KeyFor([e EXCEPT !.status = status]) = KeyFor(e)
         /\ HashKey([e EXCEPT !.status = status]) = HashKey(e)
         /\ BuildMp4Path([e EXCEPT !.status = status]) = BuildMp4Path(e)
BY DEF Entries, KeyFor, HashKey, BuildMp4Path

(***************************************************************************)
(* An upsert keeps the indexes in agreement when the entry is new in both, *)
(* or replaces an entry with the same keys.                                *)
(***************************************************************************)
LEMMA UpsertKeepsIndexes ==
  ASSUME TypeOK, IndexesAgree, NEW e \in Entries, Upsert(e),
         \/ entries[KeyFor(e)] = NoEntry /\ hashIndex[HashKey(e)] = NoEntry
         \/ entries[KeyFor(e)] # NoEntry /\ HashKey(entries[KeyFor(e)]) = HashKey(e)
  PROVE  /\ entries' \in [Keys -> Entries \cup {NoEntry}]
         /\ hashIndex' \in [HashKeys -> Entries \cup {NoEntry}]
         /\ entries'[KeyFor(e)] = e
         /\ hashIndex'[HashKey(e)] = e
         /\ \A k \in Keys : k # KeyFor(e) => entries'[k] = entries[k]
         /\ \A k \in HashKeys : k # HashKey(e) => hashIndex'[k] = hashIndex[k]
         /\ IndexesAgree'
<1>1. /\ entries' = [entries EXCEPT ![KeyFor(e)] = e]
      /\ hashIndex' = [hashIndex EXCEPT ![HashKey(e)] = e]
  BY DEF Upsert
<1>2. KeyFor(e) \in Keys /\ HashKey(e) \in HashKeys
  BY EntryParts
<1>3. /\ entries' \in [Keys -> Entries \cup {NoEntry}]
      /\ hashIndex' \in [HashKeys -> Entries \cup {NoEntry}]
      /\ entries'[KeyFor(e)] = e
      /\ hashIndex'[HashKey(e)] = e
      /\ \A k \in Keys : k # KeyFor(e) => entries'[k] = entries[k]
      /\ \A k \in HashKeys : k # HashKey(e) => hashIndex'[k] = hashIndex[k]
  BY <1>1, <1>2 DEF TypeOK
<1>4. ASSUME NEW k \in Keys, entries'[k] # NoEntry
      PROVE  KeyFor(entries'[k]) = k /\ hashIndex'[HashKey(entries'[k])] = entries'[k]
  <2>1. CASE k = KeyFor(e)
    BY <2>1, <1>3
  <2>2. CASE k # KeyFor(e)
    <3>1. /\ entries'[k] = entries[k]
          /\ entries[k] \in Entries
          /\ KeyFor(entries[k]) = k
          /\ hashIndex[HashKey(entries[k])] = entries[k]
      BY <2>2, <1>3, <1>4 DEF IndexesAgree, TypeOK
    <3>2. HashKey(entries[k]) \in HashKeys
      BY <3>1, EntryParts
    <3>3. HashKey(entries[k]) # HashKey(e)
      <4>1. CASE hashIndex[HashKey(e)] = NoEntry
        BY SMTT(30), <4>1, <3>1, PipelineAssumption
      <4>2. CASE entries[KeyFor(e)] # NoEntry /\ HashKey(entries[KeyFor(e)]) = HashKey(e)
        <5>1. hashIndex[HashKey(e)] = entries[KeyFor(e)] /\ KeyFor(entries[KeyFor(e)]) = KeyFor(e)
          BY <4>2, <1>2 DEF IndexesAgree
        <5> QED
          BY <5>1, <3>1, <2>2
      <4> QED
        BY <4>1, <4>2
    <3> QED
      BY <3>1, <3>2, <3>3, <1>3
  <2> QED
    BY <2>1, <2>2
<1>5. ASSUME NEW k \in HashKeys, hashIndex'[k] # NoEntry
      PROVE  HashKey(hashIndex'[k]) = k /\ entries'[KeyFor(hashIndex'[k])] = hashIndex'[k]
  <2>1. CASE k = HashKey(e)
    BY <2>1, <1>3
  <2>2. CASE k # HashKey(e)
    <3>1. /\ hashIndex'[k] = hashIndex[k]
          /\ hashIndex[k] \in Entries
          /\ HashKey(hashIndex[k]) = k
          /\ entries[KeyFor(hashIndex[k])] = hashIndex[k]
      BY <2>2, <1>3, <1>5 DEF IndexesAgree, TypeOK
    <3>2. KeyFor(hashIndex[k]) \in Keys
      BY <3>1, EntryParts
    <3>3. KeyFor(hashIndex[k]) # KeyFor(e)
      BY <3>1, <2>2, <1>5
    <3> QED
      BY <3>1, <3>2, <3>3, <1>3
  <2> QED
    BY <2>1, <2>2
<1> QED
  BY <1>3, <1>4, <1>5 DEF IndexesAgree
-----------------------------------------------------------------------------
LEMMA InitEstablishes == Init => PipelineInv
<1> SUFFICES ASSUME Init PROVE PipelineInv
  OBVIOUS
<1>1. TypeOK
  <2>1. req \in [Reqs -> Requests]
    BY DEF Init, Requests, Idle
  <2>2. jobs \in Seq(Keys) /\ encoding \subseteq Entries /\ wakeups \in Nat
    BY DEF Init
  <2>3. /\ best \in [Players -> Hashes \cup {NoRun}]
        /\ files \in [Ids \X HashKeys -> {"absent", "partial", "whole"}]
        /\ started \in BOOLEAN
        /\ running \in BOOLEAN
    BY DEF Init
  <2>4. /\ entries \in [Keys -> Entries \cup {NoEntry}]
        /\ hashIndex \in [HashKeys -> Entries \cup {NoEntry}]
        /\ encodings \in [HashKeys -> Nat]
    BY DEF Init
  <2> QED
    BY <2>1, <2>2, <2>3, <2>4 DEF TypeOK
<1>2. IndexesAgree /\ HeldIsStored /\ CompleteIsWhole
  BY DEF Init, IndexesAgree, HeldIsStored, CompleteIsWhole
<1>3. OneRuns /\ NoLostWakeup /\ EncodingsCounted
  BY DEF Init, OneRuns, NoLostWakeup, EncodingsCounted
<1>4. JobsAreQueued
  BY DEF Init, JobsAreQueued
<1>5. ReadersReadComplete /\ AskersAsk
  BY DEF Init, ReadersReadComplete, AskersAsk, Idle
<1> QED
  BY <1>1, <1>2, <1>3, <1>4, <1>5 DEF PipelineInv

\* A handler that only reads the store keeps the invariant.
LEMMA ReadingKeeps ==
  ASSUME PipelineInv, UNCHANGED <<files, memory>>,
         best' \in [Players -> Hashes \cup {NoRun}],
         req' \in [Reqs -> Requests], ReadersReadComplete', AskersAsk'
  PROVE  PipelineInv'
<1>1. TypeOK'
  BY DEF PipelineInv, TypeOK, memory
<1>2. IndexesAgree' /\ HeldIsStored' /\ CompleteIsWhole'
  BY DEF PipelineInv, IndexesAgree, HeldIsStored, CompleteIsWhole, memory
<1>3. OneRuns' /\ NoLostWakeup' /\ EncodingsCounted' /\ JobsAreQueued'
  BY DEF PipelineInv, OneRuns, NoLostWakeup, EncodingsCounted, JobsAreQueued, memory
<1> QED
  BY <1>1, <1>2, <1>3 DEF PipelineInv

LEMMA StoreBestRunKeeps ==
  ASSUME PipelineInv, NEW u \in Players, NEW h \in Hashes, StoreBestRun(u, h)
  PROVE  PipelineInv'
<1>1. /\ best' \in [Players -> Hashes \cup {NoRun}]
      /\ req' \in [Reqs -> Requests]
  BY DEF StoreBestRun, PipelineInv, TypeOK
<1>2. ReadersReadComplete' /\ AskersAsk'
  BY DEF StoreBestRun, PipelineInv, ReadersReadComplete, AskersAsk, memory
<1> QED
  BY <1>1, <1>2, ReadingKeeps DEF StoreBestRun

LEMMA GetBestRunKeeps ==
  ASSUME PipelineInv, NEW r \in Reqs, NEW k \in Keys, GetBestRun(r, k)
  PROVE  PipelineInv'
<1>1. best[KeyOf[k[1]]] \in Hashes
  BY PipelineAssumption DEF GetBestRun, PipelineInv, TypeOK, Keys
<1>2. /\ best' \in [Players -> Hashes \cup {NoRun}]
      /\ req' \in [Reqs -> Requests]
  BY <1>1 DEF GetBestRun, PipelineInv, TypeOK, Requests
<1>3. ReadersReadComplete' /\ AskersAsk'
  BY <1>1 DEF GetBestRun, PipelineInv, ReadersReadComplete, AskersAsk, TypeOK, memory
<1> QED
  BY <1>2, <1>3, ReadingKeeps DEF GetBestRun

LEMMA GetMp4Keeps ==
  ASSUME PipelineInv, NEW r \in Reqs, NEW k \in Keys, GetMp4(r, k)
  PROVE  PipelineInv'
<1>1. entries[k] \in Entries /\ entries[k].hash \in Hashes
  BY EntryParts DEF GetMp4, PipelineInv, TypeOK
<1>2. /\ best' \in [Players -> Hashes \cup {NoRun}]
      /\ req' \in [Reqs -> Requests]
  BY <1>1 DEF GetMp4, PipelineInv, TypeOK, Requests
<1>3. ReadersReadComplete' /\ AskersAsk'
  BY <1>1 DEF GetMp4, PipelineInv, ReadersReadComplete, AskersAsk, TypeOK, memory
<1> QED
  BY <1>2, <1>3, ReadingKeeps DEF GetMp4

\* Answering a request.
LEMMA RespondKeeps ==
  ASSUME PipelineInv, NEW r \in Reqs, Respond(r)
  PROVE  /\ req' \in [Reqs -> Requests]
         /\ \A s \in Reqs : req'[s].at # "idle" => req'[s] = req[s]
BY DEF PipelineInv, TypeOK, Respond, Requests, Idle

LEMMA ReadFileKeeps ==
  ASSUME PipelineInv, NEW r \in Reqs, ReadFile(r)
  PROVE  PipelineInv'
<1>1. /\ req' \in [Reqs -> Requests]
      /\ \A s \in Reqs : req'[s].at # "idle" => req'[s] = req[s]
  BY RespondKeeps DEF ReadFile
<1>2. ReadersReadComplete' /\ AskersAsk'
  BY <1>1 DEF ReadFile, PipelineInv, ReadersReadComplete, AskersAsk, memory
<1>3. best' \in [Players -> Hashes \cup {NoRun}]
  BY DEF ReadFile, PipelineInv, TypeOK
<1> QED
  BY <1>1, <1>2, <1>3, ReadingKeeps DEF ReadFile

-----------------------------------------------------------------------------
(***************************************************************************)
(* A render is asked for: an entry new in both indexes joins the queue.    *)
(***************************************************************************)
LEMMA RequestRenderKeeps ==
  ASSUME PipelineInv, NEW r \in Reqs, RequestRender(r)
  PROVE  PipelineInv'
<1> DEFINE q == req[r]
           entry == [replayId |-> q.key[1], hash |-> q.hash, profile |-> q.key[2],
                     status |-> "queued"]
<1>1. q.key \in Keys /\ q.hash \in Hashes /\ entry \in Entries
      /\ KeyFor(entry) = q.key /\ HashKey(entry) = <<q.hash, q.key[2]>>
  BY DEF RequestRender, PipelineInv, AskersAsk, Entries, Keys, KeyFor, HashKey
<1>2. /\ req' \in [Reqs -> Requests]
      /\ \A s \in Reqs : req'[s].at # "idle" => req'[s] = req[s]
      /\ UNCHANGED <<best, files, started, running, encoding, encodings>>
  BY RespondKeeps DEF RequestRender
<1>3. CASE ~(q.hash \in Renderable /\ Existing(q.key, q.hash) = NoEntry)
  <2>1. UNCHANGED <<files, memory>>
    BY <1>2, <1>3 DEF RequestRender, memory
  <2>2. ReadersReadComplete' /\ AskersAsk'
    BY <1>2, <2>1 DEF PipelineInv, ReadersReadComplete, AskersAsk, memory
  <2>3. best' \in [Players -> Hashes \cup {NoRun}]
    BY <1>2 DEF PipelineInv, TypeOK
  <2> QED
    BY <1>2, <2>1, <2>2, <2>3, ReadingKeeps
<1>4. CASE q.hash \in Renderable /\ Existing(q.key, q.hash) = NoEntry
  <2>1. /\ Upsert(entry)
        /\ jobs' = Append(jobs, q.key)
        /\ wakeups' = IF started THEN wakeups + 1 ELSE wakeups
    BY SMTT(30), <1>4 DEF RequestRender
  <2>2. entries[KeyFor(entry)] = NoEntry /\ hashIndex[HashKey(entry)] = NoEntry
    BY <1>1, <1>4 DEF Existing
  <2> HIDE DEF entry, q
  <2>3. /\ entries' \in [Keys -> Entries \cup {NoEntry}]
        /\ hashIndex' \in [HashKeys -> Entries \cup {NoEntry}]
        /\ entries'[KeyFor(entry)] = entry
        /\ hashIndex'[HashKey(entry)] = entry
        /\ \A k \in Keys : k # KeyFor(entry) => entries'[k] = entries[k]
        /\ \A k \in HashKeys : k # HashKey(entry) => hashIndex'[k] = hashIndex[k]
        /\ IndexesAgree'
    BY <1>1, <2>1, <2>2, UpsertKeepsIndexes DEF PipelineInv
  <2>4. entry # NoEntry /\ entry.status = "queued"
    BY <1>1, PipelineAssumption DEF entry
  <2>5. \A k \in Keys : entries[k] # NoEntry => k # KeyFor(entry) /\ entries'[k] = entries[k]
    BY <2>2, <2>3
  <2>6. TypeOK'
    <3>1. jobs' \in Seq(Keys) /\ wakeups' \in Nat
      BY <1>1, <2>1 DEF PipelineInv, TypeOK
    <3> QED
      BY <3>1, <1>2, <2>3 DEF PipelineInv, TypeOK
  <2>7. HeldIsStored'
    <3> SUFFICES ASSUME NEW e \in encoding
                 PROVE  entries'[KeyFor(e)] = e /\ e.status = "running"
      BY <1>2 DEF HeldIsStored
    <3>1. e \in Entries /\ KeyFor(e) \in Keys /\ entries[KeyFor(e)] = e /\ e.status = "running"
      BY EntryParts DEF PipelineInv, TypeOK, HeldIsStored
    <3> QED
      BY <3>1, <2>5, PipelineAssumption
  <2>8. JobsAreQueued'
    <3>1. /\ Len(jobs) \in Nat
          /\ Len(jobs') = Len(jobs) + 1
          /\ \A i \in 1..Len(jobs) : jobs'[i] = jobs[i] /\ jobs[i] \in Keys
          /\ jobs'[Len(jobs) + 1] = q.key
      BY <1>1, <2>1 DEF PipelineInv, TypeOK
    <3>2. \A i \in 1..Len(jobs) : jobs[i] # q.key /\ entries'[jobs[i]] = entries[jobs[i]]
      BY <3>1, <1>1, <2>5 DEF PipelineInv, JobsAreQueued
    <3>3. ASSUME NEW i \in 1..Len(jobs')
          PROVE  entries'[jobs'[i]] # NoEntry /\ entries'[jobs'[i]].status = "queued"
      <4>1. CASE i = Len(jobs) + 1
        BY <4>1, <3>1, <1>1, <2>3, <2>4
      <4>2. CASE i \in 1..Len(jobs)
        BY <4>2, <3>1, <3>2 DEF PipelineInv, JobsAreQueued
      <4> QED
        BY <4>1, <4>2, <3>1
    <3>4. ASSUME NEW i \in 1..Len(jobs'), NEW j \in 1..Len(jobs'), jobs'[i] = jobs'[j]
          PROVE  i = j
      <4>1. CASE i \in 1..Len(jobs) /\ j \in 1..Len(jobs)
        BY <4>1, <3>1, <3>4 DEF PipelineInv, JobsAreQueued
      <4>2. CASE i = Len(jobs) + 1 \/ j = Len(jobs) + 1
        BY <4>2, <3>1, <3>2, <3>4
      <4> QED
        BY <4>1, <4>2, <3>1
    <3> QED
      BY <3>3, <3>4 DEF JobsAreQueued
  <2>9. EncodingsCounted'
    <3> SUFFICES ASSUME NEW k \in HashKeys
                 PROVE  /\ hashIndex'[k] = NoEntry => encodings[k] = 0
                        /\ hashIndex'[k] # NoEntry =>
                             encodings[k] = IF hashIndex'[k].status = "queued" THEN 0 ELSE 1
      BY <1>2 DEF EncodingsCounted
    <3>1. CASE k = HashKey(entry)
      BY <3>1, <2>2, <2>3, <2>4 DEF PipelineInv, EncodingsCounted
    <3>2. CASE k # HashKey(entry)
      BY <3>2, <2>3 DEF PipelineInv, EncodingsCounted
    <3> QED
      BY <3>1, <3>2
  <2>10. NoLostWakeup' /\ OneRuns'
    BY <1>2, <2>1 DEF PipelineInv, TypeOK, NoLostWakeup, OneRuns
  <2>11. CompleteIsWhole'
    <3> SUFFICES ASSUME NEW k \in Keys, entries'[k] # NoEntry, entries'[k].status = "complete"
                 PROVE  files[BuildMp4Path(entries'[k])] = "whole"
      BY <1>2 DEF CompleteIsWhole, BuildMp4Path, HashKey
    <3>1. entries'[k] = entries[k]
      BY <2>3, <2>4
    <3> QED
      BY <3>1 DEF PipelineInv, CompleteIsWhole
  <2>12. ReadersReadComplete' /\ AskersAsk'
    BY <1>2, <2>5 DEF PipelineInv, ReadersReadComplete, AskersAsk
  <2> QED
    BY <2>3, <2>6, <2>7, <2>8, <2>9, <2>10, <2>11, <2>12 DEF PipelineInv
<1> QED
  BY <1>3, <1>4

\* Entries of the same file are under the same keys.
LEMMA PathGivesKeys ==
  ASSUME NEW e \in Entries, NEW f \in Entries, BuildMp4Path(e) = BuildMp4Path(f)
  PROVE  KeyFor(e) = KeyFor(f) /\ HashKey(e) = HashKey(f)
BY DEF BuildMp4Path, KeyFor, HashKey

(***************************************************************************)
(* A callback fires: it takes the first job, or finds nothing to do.       *)
(***************************************************************************)
LEMMA RunNextKeeps ==
  ASSUME PipelineInv, RunNext
  PROVE  PipelineInv'
<1>1. wakeups' \in Nat /\ UNCHANGED <<best, started, req>>
  BY DEF RunNext, PipelineInv, TypeOK
<1>2. CASE ~MayStart
  <2>1. UNCHANGED <<running, jobs, entries, hashIndex, encoding, files, encodings>>
    BY <1>2 DEF RunNext
  <2>2. TypeOK'
    BY <1>1, <2>1 DEF PipelineInv, TypeOK
  <2>3. IndexesAgree' /\ HeldIsStored' /\ CompleteIsWhole'
    BY <2>1 DEF PipelineInv, IndexesAgree, HeldIsStored, CompleteIsWhole
  <2>4. OneRuns' /\ EncodingsCounted' /\ JobsAreQueued'
    BY <2>1 DEF PipelineInv, OneRuns, EncodingsCounted, JobsAreQueued
  <2>5. NoLostWakeup'
    BY <1>1, <1>2, <2>1 DEF NoLostWakeup, MayStart
  <2>6. ReadersReadComplete' /\ AskersAsk'
    BY <1>1, <2>1 DEF PipelineInv, ReadersReadComplete, AskersAsk
  <2> QED
    BY <2>2, <2>3, <2>4, <2>5, <2>6 DEF PipelineInv
<1>3. CASE MayStart
  <2> DEFINE old == entries[Head(jobs)]
             entry == Taken(old)
  <2>1. /\ running' = TRUE
        /\ jobs' = Tail(jobs)
        /\ Upsert(entry)
        /\ encoding' = encoding \cup {entry}
        /\ files' = [files EXCEPT ![BuildMp4Path(entry)] = "partial"]
        /\ encodings' = [encodings EXCEPT ![HashKey(entry)] = @ + 1]
    BY <1>3 DEF RunNext
  <2>2. /\ Len(jobs) \in Nat \ {0}
        /\ Head(jobs) = jobs[1]
        /\ jobs[1] \in Keys
        /\ jobs' \in Seq(Keys)
        /\ Len(jobs') = Len(jobs) - 1
        /\ \A i \in 1..Len(jobs') : jobs'[i] = jobs[i + 1]
    BY <1>3, <2>1 DEF MayStart, PipelineInv, TypeOK
  <2>3. old \in Entries /\ old.status = "queued" /\ KeyFor(old) = jobs[1]
        /\ hashIndex[HashKey(old)] = old
    BY <2>2 DEF PipelineInv, TypeOK, JobsAreQueued, IndexesAgree
  <2>4. /\ entry \in Entries
        /\ entry.status = "running"
        /\ KeyFor(entry) = KeyFor(old)
        /\ HashKey(entry) = HashKey(old)
    BY <2>3, SameKeys DEF Taken
  <2>5. KeyFor(old) \in Keys /\ HashKey(old) \in HashKeys /\ BuildMp4Path(entry) \in Ids \X HashKeys
    BY <2>3, <2>4, EntryParts
  <2>6. entries[KeyFor(old)] = old /\ old # NoEntry
    BY <2>2, <2>3, PipelineAssumption
  <2> HIDE DEF entry, old
  <2>7. /\ entries' \in [Keys -> Entries \cup {NoEntry}]
        /\ hashIndex' \in [HashKeys -> Entries \cup {NoEntry}]
        /\ entries'[KeyFor(old)] = entry
        /\ hashIndex'[HashKey(old)] = entry
        /\ \A k \in Keys : k # KeyFor(old) => entries'[k] = entries[k]
        /\ \A k \in HashKeys : k # HashKey(old) => hashIndex'[k] = hashIndex[k]
        /\ IndexesAgree'
    <3>1. entries[KeyFor(entry)] # NoEntry /\ HashKey(entries[KeyFor(entry)]) = HashKey(entry)
      BY <2>4, <2>6
    <3> HIDE DEF IndexesAgree
    <3> QED
      BY <3>1, <2>1, <2>4, UpsertKeepsIndexes DEF PipelineInv
  <2>8. encoding = {} /\ encoding' = {entry}
    BY <1>3, <2>1 DEF PipelineInv, OneRuns, MayStart
  <2>9. encodings[HashKey(old)] = 0
    BY <2>3, <2>5, <2>6 DEF PipelineInv, EncodingsCounted
  <2>10. TypeOK'
    <3>1. files' \in [Ids \X HashKeys -> {"absent", "partial", "whole"}]
      BY <2>1, <2>5 DEF PipelineInv, TypeOK
    <3>2. encodings' \in [HashKeys -> Nat]
      BY <2>1, <2>4, <2>5 DEF PipelineInv, TypeOK
    <3>3. encoding' \subseteq Entries
      BY <2>8, <2>4
    <3> QED
      BY <3>1, <3>2, <3>3, <1>1, <2>1, <2>2, <2>7 DEF PipelineInv, TypeOK
  <2>11. HeldIsStored' /\ OneRuns' /\ NoLostWakeup'
    <3>1. HeldIsStored'
      BY <2>4, <2>7, <2>8 DEF HeldIsStored
    <3>2. OneRuns'
      BY <2>1, <2>8 DEF OneRuns
    <3>3. NoLostWakeup'
      BY <2>1 DEF NoLostWakeup
    <3> QED
      BY <3>1, <3>2, <3>3
  <2>12. JobsAreQueued'
    <3>1. \A i \in 1..Len(jobs') : i + 1 \in 1..Len(jobs) /\ i + 1 # 1 /\ 1 \in 1..Len(jobs)
      BY <2>2
    <3>2. ASSUME NEW i \in 1..Len(jobs')
          PROVE  entries'[jobs'[i]] # NoEntry /\ entries'[jobs'[i]].status = "queued"
      <4>1. jobs'[i] = jobs[i + 1] /\ jobs[i + 1] \in Keys
        BY <2>2, <3>1 DEF PipelineInv, TypeOK
      <4>2. jobs[i + 1] # jobs[1]
        BY <3>1 DEF PipelineInv, JobsAreQueued
      <4> QED
        BY <4>1, <4>2, <3>1, <2>3, <2>7 DEF PipelineInv, JobsAreQueued
    <3>3. ASSUME NEW i \in 1..Len(jobs'), NEW j \in 1..Len(jobs'), jobs'[i] = jobs'[j]
          PROVE  i = j
      <4>1. jobs[i + 1] = jobs[j + 1]
        BY <3>3, <2>2
      <4>2. i + 1 = j + 1
        BY <4>1, <3>1 DEF PipelineInv, JobsAreQueued
      <4> QED
        BY <4>2, <2>2
    <3> QED
      BY <3>2, <3>3 DEF JobsAreQueued
  <2>13. EncodingsCounted'
    <3> SUFFICES ASSUME NEW k \in HashKeys
                 PROVE  /\ hashIndex'[k] = NoEntry => encodings'[k] = 0
                        /\ hashIndex'[k] # NoEntry =>
                             encodings'[k] = IF hashIndex'[k].status = "queued" THEN 0 ELSE 1
      BY DEF EncodingsCounted
    <3>1. CASE k = HashKey(old)
      <4>1. encodings'[k] = 1
        BY <3>1, <2>1, <2>4, <2>5, <2>9 DEF PipelineInv, TypeOK
      <4> QED
        BY <4>1, <3>1, <2>4, <2>7, PipelineAssumption
    <3>2. CASE k # HashKey(old)
      BY <3>2, <2>1, <2>4, <2>7 DEF PipelineInv, EncodingsCounted, TypeOK
    <3> QED
      BY <3>1, <3>2
  <2>14. CompleteIsWhole'
    <3> SUFFICES ASSUME NEW k \in Keys, entries'[k] # NoEntry, entries'[k].status = "complete"
                 PROVE  files'[BuildMp4Path(entries'[k])] = "whole"
      BY DEF CompleteIsWhole, BuildMp4Path, HashKey
    <3>1. k # KeyFor(old) /\ entries'[k] = entries[k]
      BY <2>4, <2>7
    <3>2. entries[k] \in Entries /\ KeyFor(entries[k]) = k /\ files[BuildMp4Path(entries[k])] = "whole"
      BY <3>1 DEF PipelineInv, TypeOK, CompleteIsWhole, IndexesAgree
    <3>3. BuildMp4Path(entries[k]) # BuildMp4Path(entry)
      BY <3>1, <3>2, <2>4, PathGivesKeys
    <3>4. BuildMp4Path(entries[k]) \in Ids \X HashKeys
      BY <3>2, EntryParts
    <3> QED
      BY <3>1, <3>2, <3>3, <3>4, <2>1 DEF PipelineInv, TypeOK
  <2>15. ReadersReadComplete' /\ AskersAsk'
    <3>1. \A k \in Keys : entries[k].status = "complete" => k # KeyFor(old)
      BY <2>3, <2>6
    <3> QED
      BY <3>1, <1>1, <2>7 DEF PipelineInv, ReadersReadComplete, AskersAsk
  <2> QED
    BY <2>7, <2>10, <2>11, <2>12, <2>13, <2>14, <2>15 DEF PipelineInv
<1> QED
  BY <1>2, <1>3

(***************************************************************************)
(* A job ends with either outcome: the copy processJob holds, which is     *)
(* still what is stored, is written back with its new status.              *)
(***************************************************************************)
LEMMA JobEndsKeeps ==
  ASSUME PipelineInv, NEW e \in encoding, NEW status \in {"complete", "failed"},
         Upsert([e EXCEPT !.status = status]), JobEnds(e),
         files' \in [Ids \X HashKeys -> {"absent", "partial", "whole"}],
         \A path \in Ids \X HashKeys : path # BuildMp4Path(e) => files'[path] = files[path],
         status = "complete" => files'[BuildMp4Path(e)] = "whole"
  PROVE  PipelineInv'
<1> DEFINE entry == [e EXCEPT !.status = status]
<1>1. /\ encoding' = encoding \ {e}
      /\ running' = FALSE
      /\ wakeups' = IF jobs # <<>> THEN wakeups + 1 ELSE wakeups
      /\ UNCHANGED <<best, jobs, started, req, encodings>>
  BY DEF JobEnds
<1>2. /\ e \in Entries
      /\ e.status = "running"
      /\ entries[KeyFor(e)] = e
  BY DEF PipelineInv, TypeOK, HeldIsStored
<1>3. /\ KeyFor(e) \in Keys
      /\ HashKey(e) \in HashKeys
      /\ BuildMp4Path(e) \in Ids \X HashKeys
      /\ e # NoEntry
  BY <1>2, EntryParts, PipelineAssumption
<1>4. /\ entry \in Entries
      /\ entry.status = status
      /\ entry.hash = e.hash
      /\ KeyFor(entry) = KeyFor(e)
      /\ HashKey(entry) = HashKey(e)
      /\ BuildMp4Path(entry) = BuildMp4Path(e)
  <2>1. status \in {"queued", "running", "complete", "failed"}
    OBVIOUS
  <2> HIDE DEF PipelineInv
  <2> QED
    BY <1>2, <2>1, SameKeys
<1>5. Upsert(entry)
  OBVIOUS
<1> HIDE DEF entry
<1>6. hashIndex[HashKey(e)] = e
  BY <1>2, <1>3 DEF PipelineInv, IndexesAgree
<1>7. /\ entries' \in [Keys -> Entries \cup {NoEntry}]
      /\ hashIndex' \in [HashKeys -> Entries \cup {NoEntry}]
      /\ entries'[KeyFor(e)] = entry
      /\ hashIndex'[HashKey(e)] = entry
      /\ \A k \in Keys : k # KeyFor(e) => entries'[k] = entries[k]
      /\ \A k \in HashKeys : k # HashKey(e) => hashIndex'[k] = hashIndex[k]
      /\ IndexesAgree'
  <2>1. entries[KeyFor(entry)] # NoEntry /\ HashKey(entries[KeyFor(entry)]) = HashKey(entry)
    BY <1>2, <1>3, <1>4
  <2> HIDE DEF IndexesAgree
  <2> QED
    BY <2>1, <1>4, <1>5, UpsertKeepsIndexes DEF PipelineInv
<1>8. encoding' = {}
  BY <1>1 DEF PipelineInv, OneRuns
<1>9. TypeOK'
  <2>1. encoding' \subseteq Entries /\ running' \in BOOLEAN
    BY <1>1, <1>8
  <2>2. wakeups' \in Nat
    <3>1. wakeups \in Nat
      BY DEF PipelineInv, TypeOK
    <3> QED
      BY <3>1, <1>1
  <2> QED
    BY <2>1, <2>2, <1>1, <1>7 DEF PipelineInv, TypeOK
<1>10. HeldIsStored' /\ OneRuns' /\ NoLostWakeup'
  <2>1. HeldIsStored' /\ OneRuns'
    BY <1>1, <1>8 DEF HeldIsStored, OneRuns
  <2>2. NoLostWakeup'
    BY <1>1 DEF PipelineInv, TypeOK, NoLostWakeup
  <2> QED
    BY <2>1, <2>2
<1>11. JobsAreQueued'
  <2>1. \A i \in 1..Len(jobs) : jobs[i] \in Keys /\ jobs[i] # KeyFor(e)
    BY <1>2 DEF PipelineInv, TypeOK, JobsAreQueued
  <2> QED
    BY <2>1, <1>1, <1>7 DEF PipelineInv, JobsAreQueued
<1>12. EncodingsCounted'
  <2> SUFFICES ASSUME NEW k \in HashKeys
               PROVE  /\ hashIndex'[k] = NoEntry => encodings[k] = 0
                      /\ hashIndex'[k] # NoEntry =>
                           encodings[k] = IF hashIndex'[k].status = "queued" THEN 0 ELSE 1
    BY <1>1 DEF EncodingsCounted
  <2>1. CASE k = HashKey(e)
    <3>1. encodings[k] = 1
      BY <2>1, <1>2, <1>3, <1>6 DEF PipelineInv, EncodingsCounted
    <3> QED
      BY <3>1, <2>1, <1>4, <1>7, PipelineAssumption
  <2>2. CASE k # HashKey(e)
    BY <2>2, <1>7 DEF PipelineInv, EncodingsCounted
  <2> QED
    BY <2>1, <2>2
<1>13. CompleteIsWhole'
  <2> SUFFICES ASSUME NEW k \in Keys, entries'[k] # NoEntry, entries'[k].status = "complete"
               PROVE  files'[BuildMp4Path(entries'[k])] = "whole"
    BY DEF CompleteIsWhole, BuildMp4Path, HashKey
  <2>1. CASE k = KeyFor(e)
    BY <2>1, <1>4, <1>7
  <2>2. CASE k # KeyFor(e)
    <3>1. entries'[k] = entries[k]
      BY <2>2, <1>7
    <3>2. entries[k] \in Entries /\ KeyFor(entries[k]) = k /\ files[BuildMp4Path(entries[k])] = "whole"
      BY <3>1 DEF PipelineInv, TypeOK, CompleteIsWhole, IndexesAgree
    <3>3. BuildMp4Path(entries[k]) # BuildMp4Path(e)
      BY <2>2, <3>2, <1>2, PathGivesKeys
    <3>4. BuildMp4Path(entries[k]) \in Ids \X HashKeys
      BY <3>2, EntryParts
    <3> QED
      BY <3>1, <3>2, <3>3, <3>4
  <2> QED
    BY <2>1, <2>2
<1>14. ReadersReadComplete' /\ AskersAsk'
  <2>1. \A k \in Keys : entries[k].status = "complete" => k # KeyFor(e)
    BY <1>2
  <2> QED
    BY <2>1, <1>1, <1>7 DEF PipelineInv, ReadersReadComplete, AskersAsk
<1> QED
  BY <1>7, <1>9, <1>10, <1>11, <1>12, <1>13, <1>14 DEF PipelineInv

LEMMA EncodeEndsKeeps ==
  ASSUME PipelineInv, EncodeEnds
  PROVE  PipelineInv'
<1>1. PICK e \in encoding : EncodeSucceeds(e) \/ EncodeFails(e)
  BY DEF EncodeEnds
<1>2. BuildMp4Path(e) \in Ids \X HashKeys
  BY EntryParts DEF PipelineInv, TypeOK
<1>3. CASE EncodeSucceeds(e)
  <2>1. /\ files' \in [Ids \X HashKeys -> {"absent", "partial", "whole"}]
        /\ \A path \in Ids \X HashKeys : path # BuildMp4Path(e) => files'[path] = files[path]
        /\ files'[BuildMp4Path(e)] = "whole"
    BY <1>2, <1>3 DEF EncodeSucceeds, PipelineInv, TypeOK
  <2>2. Upsert([e EXCEPT !.status = "complete"]) /\ JobEnds(e)
    BY <1>3 DEF EncodeSucceeds
  <2> QED
    BY <2>1, <2>2, JobEndsKeeps
<1>4. CASE EncodeFails(e)
  <2>1. /\ files' \in [Ids \X HashKeys -> {"absent", "partial", "whole"}]
        /\ \A path \in Ids \X HashKeys : path # BuildMp4Path(e) => files'[path] = files[path]
    BY <1>4 DEF EncodeFails, PipelineInv, TypeOK
  <2>2. Upsert([e EXCEPT !.status = "failed"]) /\ JobEnds(e)
    BY <1>4 DEF EncodeFails
  <2> QED
    BY <2>1, <2>2, JobEndsKeeps
<1> QED
  BY <1>1, <1>3, <1>4

LEMMA StopKeeps ==
  ASSUME PipelineInv, Stop
  PROVE  PipelineInv'
<1>1. TypeOK'
  <2>1. jobs' = <<>> /\ started' = FALSE
    BY DEF Stop
  <2>2. UNCHANGED <<best, files, entries, hashIndex, running, encoding, wakeups, req, encodings>>
    BY DEF Stop
  <2>3. jobs' \in Seq(Keys)
    BY <2>1
  <2> QED
    BY <2>1, <2>2, <2>3 DEF PipelineInv, TypeOK
<1>2. IndexesAgree' /\ HeldIsStored' /\ CompleteIsWhole'
  BY DEF Stop, PipelineInv, IndexesAgree, HeldIsStored, CompleteIsWhole
<1>3. OneRuns' /\ EncodingsCounted' /\ NoLostWakeup'
  BY DEF Stop, PipelineInv, OneRuns, EncodingsCounted, NoLostWakeup
<1>4. JobsAreQueued'
  BY DEF Stop, JobsAreQueued
<1>5. ReadersReadComplete' /\ AskersAsk'
  BY DEF Stop, PipelineInv, ReadersReadComplete, AskersAsk
<1> QED
  BY <1>1, <1>2, <1>3, <1>4, <1>5 DEF PipelineInv

LEMMA RestartKeeps ==
  ASSUME PipelineInv, Restart
  PROVE  PipelineInv'
<1>1. TypeOK'
  <2>1. req' \in [Reqs -> Requests]
    BY DEF Restart, Requests, Idle
  <2>2. jobs' \in Seq(Keys) /\ encoding' \subseteq Entries /\ wakeups' \in Nat
    BY DEF Restart
  <2>3. /\ started' \in BOOLEAN
        /\ running' \in BOOLEAN
        /\ entries' \in [Keys -> Entries \cup {NoEntry}]
        /\ hashIndex' \in [HashKeys -> Entries \cup {NoEntry}]
        /\ encodings' \in [HashKeys -> Nat]
    BY DEF Restart
  <2>4. UNCHANGED <<best, files>>
    BY DEF Restart
  <2> QED
    BY <2>1, <2>2, <2>3, <2>4 DEF PipelineInv, TypeOK
<1>2. IndexesAgree' /\ HeldIsStored' /\ CompleteIsWhole'
  BY DEF Restart, IndexesAgree, HeldIsStored, CompleteIsWhole
<1>3. OneRuns' /\ NoLostWakeup' /\ EncodingsCounted'
  BY DEF Restart, OneRuns, NoLostWakeup, EncodingsCounted
<1>4. JobsAreQueued'
  BY DEF Restart, JobsAreQueued
<1>5. ReadersReadComplete' /\ AskersAsk'
  BY DEF Restart, ReadersReadComplete, AskersAsk, Idle
<1> QED
  BY <1>1, <1>2, <1>3, <1>4, <1>5 DEF PipelineInv
-----------------------------------------------------------------------------
LEMMA StepKeeps == PipelineInv /\ [Next]_vars => PipelineInv'
<1> SUFFICES ASSUME PipelineInv, [Next]_vars PROVE PipelineInv'
  OBVIOUS
<1>1. ASSUME NEW u \in Players, NEW h \in Hashes, StoreBestRun(u, h)
      PROVE  PipelineInv'
  BY <1>1, StoreBestRunKeeps
<1>2. ASSUME NEW r \in Reqs, NEW k \in Keys, GetBestRun(r, k)
      PROVE  PipelineInv'
  BY <1>2, GetBestRunKeeps
<1>3. ASSUME NEW r \in Reqs, NEW k \in Keys, GetMp4(r, k)
      PROVE  PipelineInv'
  BY <1>3, GetMp4Keeps
<1>4. ASSUME NEW r \in Reqs, RequestRender(r)
      PROVE  PipelineInv'
  BY <1>4, RequestRenderKeeps
<1>5. ASSUME NEW r \in Reqs, ReadFile(r)
      PROVE  PipelineInv'
  BY <1>5, ReadFileKeeps
<1>6. CASE RunNext
  BY <1>6, RunNextKeeps
<1>7. CASE EncodeEnds
  BY <1>7, EncodeEndsKeeps
<1>8. CASE Stop
  BY <1>8, StopKeeps
<1>9. CASE Restart
  BY <1>9, RestartKeeps
<1>10. CASE UNCHANGED vars
  <2>1. UNCHANGED <<files, memory>> /\ UNCHANGED <<best, req>>
    BY <1>10 DEF vars, memory
  <2>2. ReadersReadComplete' /\ AskersAsk'
    BY <2>1 DEF PipelineInv, ReadersReadComplete, AskersAsk, memory
  <2>3. best' \in [Players -> Hashes \cup {NoRun}] /\ req' \in [Reqs -> Requests]
    BY <2>1 DEF PipelineInv, TypeOK
  <2> QED
    BY <2>1, <2>2, <2>3, ReadingKeeps
<1> QED
  BY <1>1, <1>2, <1>3, <1>4, <1>5, <1>6, <1>7, <1>8, <1>9, <1>10 DEF Next

\* The invariant holds in every reachable state of the pipeline.
THEOREM PipelineInvariant == Spec => []PipelineInv
BY InitEstablishes, StepKeeps, PTL DEF Spec

\* Every variable keeps its type.
THEOREM PipelineTypes == Spec => []TypeOK
<1>1. PipelineInv => TypeOK
  BY DEF PipelineInv
<1> QED
  BY <1>1, PipelineInvariant, PTL

\* At most one ffmpeg runs, however many callbacks are pending: the flag is
\* set exactly while the handler has a job (runNext).
THEOREM OneEncoderAtATime == Spec => []OneAtATime
<1>1. PipelineInv => OneAtATime
  <2> SUFFICES ASSUME PipelineInv PROVE OneAtATime
    OBVIOUS
  <2>1. CASE encoding = {}
    BY <2>1, FS_EmptySet DEF OneAtATime
  <2>2. CASE encoding # {}
    <3>1. PICK e \in encoding : encoding = {e}
      BY <2>2 DEF PipelineInv, OneRuns
    <3>2. Cardinality(encoding) = 1
      BY <3>1, FS_Singleton
    <3> QED
      BY <3>2 DEF OneAtATime
  <2> QED
    BY <2>1, <2>2
<1> QED
  BY <1>1, PipelineInvariant, PTL

\* The two indexes of the store hold the same entries: what processJob writes
\* back after its await replaces the very entry it took.
THEOREM IndexesStayInAgreement == Spec => []IndexesAgree
<1>1. PipelineInv => IndexesAgree
  BY DEF PipelineInv
<1> QED
  BY <1>1, PipelineInvariant, PTL

\* The queue never stalls: with jobs waiting and nothing running, a callback
\* that will take one is pending.
THEOREM NoWakeupIsLost == Spec => []NoLostWakeup
<1>1. PipelineInv => NoLostWakeup
  BY DEF PipelineInv
<1> QED
  BY <1>1, PipelineInvariant, PTL

\* A replay is encoded at most once per profile in the life of a process.
THEOREM ReplaysAreRenderedOnce == Spec => []RenderedOnce
<1>1. PipelineInv => RenderedOnce
  BY DEF PipelineInv, TypeOK, EncodingsCounted, RenderedOnce
<1> QED
  BY <1>1, PipelineInvariant, PTL

\* Renders are encoded one at a time and none waits in vain.
THEOREM QueueIsAlwaysServed == Spec => []QueueIsServed
<1>1. OneAtATime /\ NoLostWakeup => QueueIsServed
  BY DEF QueueIsServed
<1> QED
  BY <1>1, OneEncoderAtATime, NoWakeupIsLost, PTL

\* The indexes agree on every replay, and each is rendered once.
THEOREM StoreStaysSound == Spec => []StoreIsSound
<1>1. IndexesAgree /\ RenderedOnce => StoreIsSound
  BY DEF StoreIsSound
<1> QED
  BY <1>1, IndexesStayInAgreement, ReplaysAreRenderedOnce, PTL

\* Whatever is being sent to a client is a whole MP4.
THEOREM OnlyWholeFilesAreServed == Spec => []ServedIsWhole
<1>1. PipelineInv => ServedIsWhole
  <2> SUFFICES ASSUME PipelineInv, NEW r \in Reqs, req[r].at = "reading"
               PROVE  files[<<req[r].key[1], <<req[r].hash, req[r].key[2]>>>>] = "whole"
    BY DEF ServedIsWhole
  <2>1. /\ req[r].key \in Keys
        /\ entries[req[r].key] # NoEntry
        /\ entries[req[r].key].status = "complete"
        /\ entries[req[r].key].hash = req[r].hash
    BY DEF PipelineInv, ReadersReadComplete
  <2>2. KeyFor(entries[req[r].key]) = req[r].key
        /\ files[BuildMp4Path(entries[req[r].key])] = "whole"
    BY <2>1 DEF PipelineInv, IndexesAgree, CompleteIsWhole
  <2>3. /\ entries[req[r].key].replayId = req[r].key[1]
        /\ entries[req[r].key].profile = req[r].key[2]
    BY <2>1, <2>2 DEF KeyFor, Keys
  <2> QED
    BY <2>1, <2>2, <2>3 DEF BuildMp4Path, HashKey
<1> QED
  BY <1>1, PipelineInvariant, PTL
=============================================================================
