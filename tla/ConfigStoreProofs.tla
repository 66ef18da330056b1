-------------------------- MODULE ConfigStoreProofs --------------------------
(***************************************************************************)
(* Proofs about the configuration stores, for any configurations and any   *)
(* number of requests.                                                     *)
(***************************************************************************)
EXTENDS ConfigStore, TLAPS

\* What each step of a request has at hand was committed or typed in.
RequestsAreEntered ==
  \A r \in Reqs :
    /\ req[r].at \in {"persisted", "open", "write"} => req[r].config \in entered
    /\ req[r].at = "parse" /\ req[r].content \in Configs => req[r].content \in entered

CopiesAreEntered ==
  /\ db # NoConfig => db \in entered
  /\ NothingRefusedIsServed

ConfigInv == TypeOK /\ RequestsAreEntered /\ CopiesAreEntered
-----------------------------------------------------------------------------
LEMMA IdleIsRequest ==
  /\ Idle \in Requests /\ Idle.at = "idle"
  /\ [Idle EXCEPT !.at = "handle"] \in Requests
  /\ [Idle EXCEPT !.at = "handle"].at = "handle"
BY ConfigAssumption DEF Idle, Requests, Steps, Contents

LEMMA ConfigInit == Init => ConfigInv
<1> SUFFICES ASSUME Init PROVE ConfigInv
  OBVIOUS
<1>1. TypeOK
  <2>1. Idle \in Requests
    BY IdleIsRequest
  <2>2. req \in [Reqs -> Requests]
    BY <2>1 DEF Init
  <2>3. /\ db \in Configs \cup {NoConfig}
        /\ file \in Contents
        /\ mtime \in Nat \ {0}
        /\ current \in Configs
        /\ seen \in Nat
        /\ entered \subseteq Configs
    BY ConfigAssumption DEF Init, Contents
  <2>4. up \in BOOLEAN /\ adapter \in BOOLEAN /\ disturbed \in BOOLEAN
    BY DEF Init
  <2> QED
    BY <2>2, <2>3, <2>4 DEF TypeOK
<1>2. RequestsAreEntered /\ CopiesAreEntered
  BY ConfigAssumption
     DEF Init, RequestsAreEntered, CopiesAreEntered, NothingRefusedIsServed, Idle
<1> QED
  BY <1>1, <1>2 DEF ConfigInv

\* How a request that changes alone keeps the invariants of requests.
LEMMA OneRequestKeeps ==
  ASSUME ConfigInv, NEW r \in Reqs, NEW q \in Requests, req' = [req EXCEPT ![r] = q],
         entered \subseteq entered',
         q.at \in {"persisted", "open", "write"} => q.config \in entered',
         q.at = "parse" /\ q.content \in Configs => q.content \in entered'
  PROVE  /\ req' \in [Reqs -> Requests]
         /\ RequestsAreEntered'
         /\ req'[r] = q
         /\ \A s \in Reqs : s # r => req'[s] = req[s]
<1>1. /\ req' \in [Reqs -> Requests]
      /\ req'[r] = q
      /\ \A s \in Reqs : s # r => req'[s] = req[s]
  BY DEF ConfigInv, TypeOK
<1>2. RequestsAreEntered'
  <2> SUFFICES ASSUME NEW s \in Reqs
               PROVE  /\ req'[s].at \in {"persisted", "open", "write"} => req'[s].config \in entered'
                      /\ req'[s].at = "parse" /\ req'[s].content \in Configs
                           => req'[s].content \in entered'
    BY DEF RequestsAreEntered
  <2>1. CASE s = r
    BY <1>1, <2>1
  <2>2. CASE s # r
    BY <1>1, <2>2 DEF ConfigInv, RequestsAreEntered
  <2> QED
    BY <2>1, <2>2
<1> QED
  BY <1>1, <1>2

\* Moving on to another step.
LEMMA ProceedKeeps ==
  ASSUME ConfigInv, NEW r \in Reqs, NEW step \in Steps \ {"parse"}, Proceed(r, step),
         entered \subseteq entered',
         step \in {"persisted", "open", "write"} => req[r].config \in entered'
  PROVE  /\ req' \in [Reqs -> Requests]
         /\ RequestsAreEntered'
         /\ req'[r].at = step
         /\ req'[r].config = req[r].config
         /\ req'[r].partOnly = req[r].partOnly
         /\ \A s \in Reqs : s # r => req'[s] = req[s]
<1> DEFINE q == [req[r] EXCEPT !.at = step]
<1>1. req[r] \in Requests
  BY DEF ConfigInv, TypeOK
<1>2. /\ q \in Requests
      /\ q.at = step /\ q.config = req[r].config /\ q.partOnly = req[r].partOnly
      /\ req' = [req EXCEPT ![r] = q]
  BY <1>1 DEF Proceed, Requests, ConfigInv, TypeOK
<1> HIDE DEF q
<1>3. /\ req' \in [Reqs -> Requests]
      /\ RequestsAreEntered'
      /\ req'[r] = q
      /\ \A s \in Reqs : s # r => req'[s] = req[s]
  <2>1. q.at # "parse"
    BY <1>2
  <2>2. q.at \in {"persisted", "open", "write"} => q.config \in entered'
    BY <1>2
  <2> QED
    BY <1>2, <2>1, <2>2, OneRequestKeeps
<1> QED
  BY <1>2, <1>3
-----------------------------------------------------------------------------
(***************************************************************************)
(* Each lemma says what one action leaves of the invariant and, for the    *)
(* second invariant below, what it makes of its request.                   *)
(***************************************************************************)
Others(r) == \A s \in Reqs : s # r => req'[s] = req[s]

LEMMA ReloadKeeps ==
  ASSUME ConfigInv, NEW r \in Reqs, Reload(r)
  PROVE  ConfigInv' /\ Others(r)
<1> USE DEF memory, disk, history
<1>1. CASE SkipReload(r)
  <2>1. Others(r) /\ RequestsAreEntered' /\ req' \in [Reqs -> Requests]
    BY <1>1, OneRequestKeeps, IdleIsRequest DEF SkipReload, Handle, Others
  <2> QED
    BY <1>1, <2>1 DEF SkipReload, Arrive, ConfigInv, TypeOK, CopiesAreEntered,
                      NothingRefusedIsServed
<1>2. CASE Stat(r)
  <2> DEFINE q == [req[r] EXCEPT !.at = "compare", !.content = file, !.mtime = mtime]
  <2>1. q \in Requests /\ q.at = "compare" /\ req' = [req EXCEPT ![r] = q]
    BY <1>2 DEF Stat, ConfigInv, TypeOK, Requests, Steps
  <2>2. Others(r) /\ RequestsAreEntered' /\ req' \in [Reqs -> Requests]
    BY <1>2, <2>1, OneRequestKeeps DEF Stat, Others
  <2> QED
    BY <1>2, <2>2 DEF Stat, Arrive, ConfigInv, TypeOK, CopiesAreEntered,
                      NothingRefusedIsServed
<1>3. CASE Compare(r)
  <2>1. Others(r) /\ RequestsAreEntered' /\ req' \in [Reqs -> Requests]
    <3>1. CASE Handle(r)
      BY <1>3, <3>1, OneRequestKeeps, IdleIsRequest DEF Compare, Handle, Others
    <3>2. CASE Proceed(r, "readFile")
      BY <1>3, <3>2, ProceedKeeps DEF Compare, Steps, Others
    <3> QED
      BY <1>3, <3>1, <3>2 DEF Compare
  <2>2. current' \in {current, Default} /\ seen' \in Nat
    BY <1>3 DEF Compare, ConfigInv, TypeOK, Requests
  <2> QED
    BY <1>3, <2>1, <2>2, ConfigAssumption
       DEF Compare, ConfigInv, TypeOK, CopiesAreEntered, NothingRefusedIsServed
<1>4. CASE ReadFile(r)
  <2> DEFINE q == [req[r] EXCEPT !.at = "parse", !.content = file]
  <2>1. /\ q \in Requests /\ q.at = "parse" /\ q.content = file
        /\ req' = [req EXCEPT ![r] = q]
    BY <1>4 DEF ReadFile, ConfigInv, TypeOK, Requests, Steps
  <2>2. file \in Configs => file \in entered
    BY DEF ConfigInv, CopiesAreEntered, NothingRefusedIsServed
  <2>3. entered' = entered
    BY <1>4 DEF ReadFile
  <2> HIDE DEF q
  <2>4. Others(r) /\ RequestsAreEntered' /\ req' \in [Reqs -> Requests]
    BY <2>1, <2>2, <2>3, OneRequestKeeps DEF Others
  <2> QED
    BY <1>4, <2>4 DEF ReadFile, ConfigInv, TypeOK, CopiesAreEntered, NothingRefusedIsServed
<1>5. CASE Parse(r)
  <2>1. Others(r) /\ RequestsAreEntered' /\ req' \in [Reqs -> Requests]
    BY <1>5, OneRequestKeeps, IdleIsRequest DEF Parse, Handle, Others
  <2>2. current' \in Configs /\ current' \in entered \cup {Default} /\ seen' \in Nat
    BY <1>5, ConfigAssumption DEF Parse, ConfigInv, TypeOK, RequestsAreEntered,
       CopiesAreEntered, NothingRefusedIsServed
  <2> QED
    BY <1>5, <2>1, <2>2 DEF Parse, ConfigInv, TypeOK, CopiesAreEntered, NothingRefusedIsServed
<1> QED
  BY <1>1, <1>2, <1>3, <1>4, <1>5 DEF Reload

LEMMA ServeKeeps ==
  ASSUME ConfigInv, NEW r \in Reqs, Serve(r)
  PROVE  ConfigInv' /\ Others(r) /\ req'[r].at = "idle"
<1> USE DEF memory, disk, history
<1>1. Others(r) /\ RequestsAreEntered' /\ req' \in [Reqs -> Requests] /\ req'[r].at = "idle"
  BY OneRequestKeeps, IdleIsRequest DEF Serve, Respond, Others
<1> QED
  BY <1>1 DEF Serve, ConfigInv, TypeOK, CopiesAreEntered, NothingRefusedIsServed

LEMMA SaveKeeps ==
  ASSUME ConfigInv, NEW r \in Reqs, NEW config \in Configs, NEW partOnly \in BOOLEAN,
         Save(r, config, partOnly)
  PROVE  /\ ConfigInv' /\ Others(r)
         /\ adapter => /\ req'[r].at = "persist"
                       /\ req'[r].config = config
                       /\ req'[r].partOnly = partOnly
<1> USE DEF memory, disk, history
<1> DEFINE q == [Idle EXCEPT !.at = IF adapter THEN "persist" ELSE "open",
                             !.config = config, !.partOnly = partOnly]
<1>1. /\ q \in Requests
      /\ q.at = (IF adapter THEN "persist" ELSE "open")
      /\ q.config = config /\ q.partOnly = partOnly
      /\ req' = [req EXCEPT ![r] = q]
  BY IdleIsRequest DEF Save, Idle, Requests, Steps
<1>2. entered \subseteq entered' /\ (~adapter => config \in entered')
  BY DEF Save
<1> HIDE DEF q
<1>3. /\ Others(r) /\ RequestsAreEntered' /\ req' \in [Reqs -> Requests]
      /\ req'[r] = q
  BY <1>1, <1>2, OneRequestKeeps DEF Others
<1>4. current' \in Configs /\ current' \in entered' \cup {Default} /\ entered' \subseteq Configs
  BY DEF Save, ConfigInv, TypeOK, CopiesAreEntered, NothingRefusedIsServed
<1>5. ConfigInv'
  BY <1>2, <1>3, <1>4 DEF Save, ConfigInv, TypeOK, CopiesAreEntered, NothingRefusedIsServed
<1> QED
  BY <1>1, <1>3, <1>5

LEMMA PutKeeps ==
  ASSUME ConfigInv, NEW r \in Reqs, PutConfig(r) \/ PutPart(r)
  PROVE  ConfigInv' /\ Others(r)
<1>1. CASE PutConfig(r)
  BY <1>1, SaveKeeps DEF PutConfig
<1>2. CASE PutPart(r)
  <2>1. \A v \in Values : [current EXCEPT !.part = v] \in Configs
    BY DEF ConfigInv, TypeOK, Configs
  <2> QED
    BY <1>2, <2>1, SaveKeeps DEF PutPart
<1> QED
  BY <1>1, <1>2

LEMMA SavingKeeps ==
  ASSUME ConfigInv, NEW r \in Reqs, Saving(r)
  PROVE  ConfigInv' /\ Others(r)
<1> USE DEF memory, disk, history
<1>0. req[r] \in Requests /\ req[r].config \in Configs
  BY DEF ConfigInv, TypeOK, Requests
<1>1. CASE Persist(r)
  <2>1. Others(r) /\ RequestsAreEntered' /\ req' \in [Reqs -> Requests]
    BY <1>1, ProceedKeeps DEF Persist, Steps, Others
  <2> QED
    BY <1>0, <1>1, <2>1 DEF Persist, ConfigInv, TypeOK, CopiesAreEntered, NothingRefusedIsServed
<1>2. CASE Persisted(r)
  <2>1. req[r].config \in entered
    BY <1>2 DEF Persisted, ConfigInv, RequestsAreEntered
  <2>2. Others(r) /\ RequestsAreEntered' /\ req' \in [Reqs -> Requests]
    BY <1>2, <2>1, ProceedKeeps DEF Persisted, Steps, Others
  <2> QED
    BY <1>0, <1>2, <2>1, <2>2
       DEF Persisted, ConfigInv, TypeOK, CopiesAreEntered, NothingRefusedIsServed
<1>3. CASE Open(r)
  <2>1. req[r].config \in entered
    BY <1>3 DEF Open, ConfigInv, RequestsAreEntered
  <2>2. Others(r) /\ RequestsAreEntered' /\ req' \in [Reqs -> Requests]
    BY <1>3, <2>1, ProceedKeeps DEF Open, Steps, Others
  <2> QED
    BY <1>3, <2>2, ConfigAssumption
       DEF Open, Touch, Contents, ConfigInv, TypeOK, CopiesAreEntered, NothingRefusedIsServed
<1>4. CASE Write(r)
  <2>1. req[r].config \in entered
    BY <1>4 DEF Write, ConfigInv, RequestsAreEntered
  <2>2. Others(r) /\ RequestsAreEntered' /\ req' \in [Reqs -> Requests]
    BY <1>4, <2>1, ProceedKeeps DEF Write, Steps, Others
  <2> QED
    BY <1>0, <1>4, <2>1, <2>2, ConfigAssumption
       DEF Write, Touch, Contents, ConfigInv, TypeOK, CopiesAreEntered, NothingRefusedIsServed
<1>5. CASE Restat(r)
  <2> DEFINE q == [req[r] EXCEPT !.at = "stamp", !.mtime = IF file = Missing THEN 0 ELSE mtime]
  <2>1. q \in Requests /\ q.at = "stamp" /\ req' = [req EXCEPT ![r] = q]
    BY <1>5 DEF Restat, ConfigInv, TypeOK, Requests, Steps
  <2>2. Others(r) /\ RequestsAreEntered' /\ req' \in [Reqs -> Requests]
    BY <1>5, <2>1, OneRequestKeeps DEF Restat, Others
  <2> QED
    BY <1>5, <2>2 DEF Restat, ConfigInv, TypeOK, CopiesAreEntered, NothingRefusedIsServed
<1>6. CASE Stamp(r)
  <2>1. Others(r) /\ RequestsAreEntered' /\ req' \in [Reqs -> Requests]
    BY <1>6, OneRequestKeeps, IdleIsRequest DEF Stamp, Respond, Others
  <2>2. req[r].mtime \in Nat
    BY <1>0 DEF Requests
  <2> QED
    BY <1>6, <2>1, <2>2 DEF Stamp, ConfigInv, TypeOK, CopiesAreEntered, NothingRefusedIsServed
<1>7. CASE Fail(r)
  <2>1. Others(r) /\ RequestsAreEntered' /\ req' \in [Reqs -> Requests]
    BY <1>7, OneRequestKeeps, IdleIsRequest DEF Fail, Respond, Others
  <2> QED
    BY <1>7, <2>1 DEF Fail, ConfigInv, TypeOK, CopiesAreEntered, NothingRefusedIsServed
<1> QED
  BY <1>1, <1>2, <1>3, <1>4, <1>5, <1>6, <1>7 DEF Saving

LEMMA OutsideKeeps ==
  ASSUME ConfigInv,
         \/ \E content \in Contents \ {Empty} : Edit(content)
         \/ Die \/ Start \/ StartDies
  PROVE  ConfigInv'
<1> USE DEF memory, disk, history
<1>1. CASE \E content \in Contents \ {Empty} : Edit(content)
  <2>1. RequestsAreEntered'
    BY <1>1 DEF Edit, ConfigInv, RequestsAreEntered
  <2> QED
    BY <1>1, <2>1 DEF Edit, Touch, ConfigInv, TypeOK, CopiesAreEntered, NothingRefusedIsServed
<1>2. CASE Die
  <2>1. req' \in [Reqs -> Requests] /\ RequestsAreEntered'
    BY <1>2, IdleIsRequest DEF Die, RequestsAreEntered
  <2> QED
    BY <1>2, <2>1 DEF Die, ConfigInv, TypeOK, CopiesAreEntered, NothingRefusedIsServed
<1>3. CASE Start
  <2>1. adapter' \in BOOLEAN /\ disturbed' \in BOOLEAN /\ up'
    BY <1>3 DEF Start
  <2>2. /\ current' \in Configs /\ current' \in entered \cup {Default}
        /\ seen' \in Nat /\ mtime' \in Nat \ {0}
        /\ file' \in Contents /\ (file' \in Configs => file' \in entered)
    <3>1. CASE db # NoConfig /\ LoadFromDatabase
      BY <3>1 DEF LoadFromDatabase, Touch, Contents, ConfigInv, TypeOK, CopiesAreEntered
    <3>2. CASE LoadFromDisk
      BY <3>2, ConfigAssumption
         DEF LoadFromDisk, ConfigInv, TypeOK, CopiesAreEntered, NothingRefusedIsServed
    <3>3. CASE LoadFails
      BY <3>3, ConfigAssumption
         DEF LoadFails, ConfigInv, TypeOK, CopiesAreEntered, NothingRefusedIsServed
    <3> QED
      BY <1>3, <3>1, <3>2, <3>3 DEF Start
  <2>3. RequestsAreEntered'
    BY <1>3 DEF Start, ConfigInv, RequestsAreEntered
  <2> QED
    BY <1>3, <2>1, <2>2, <2>3 DEF Start, ConfigInv, TypeOK, CopiesAreEntered,
                                  NothingRefusedIsServed
<1>4. CASE StartDies
  <2>1. RequestsAreEntered'
    BY <1>4 DEF StartDies, ConfigInv, RequestsAreEntered
  <2> QED
    BY <1>4, <2>1, ConfigAssumption
       DEF StartDies, Touch, Contents, ConfigInv, TypeOK, CopiesAreEntered, NothingRefusedIsServed
<1> QED
  BY <1>1, <1>2, <1>3, <1>4

LEMMA ConfigStep == ConfigInv /\ [Next]_vars => ConfigInv'
<1> SUFFICES ASSUME ConfigInv, [Next]_vars PROVE ConfigInv'
  OBVIOUS
<1>1. CASE UNCHANGED vars
  BY <1>1 DEF vars, ConfigInv, TypeOK, RequestsAreEntered, CopiesAreEntered,
              NothingRefusedIsServed
<1>2. CASE \E r \in Reqs : Reload(r) \/ Serve(r) \/ PutConfig(r) \/ PutPart(r) \/ Saving(r)
  BY <1>2, ReloadKeeps, ServeKeeps, PutKeeps, SavingKeeps
<1>3. CASE (\E content \in Contents \ {Empty} : Edit(content)) \/ Die \/ Start \/ StartDies
  BY <1>3, OutsideKeeps
<1> QED
  BY <1>1, <1>2, <1>3 DEF Next

THEOREM ConfigInvariant == Spec => []ConfigInv
<1> QED
  BY ConfigInit, ConfigStep, PTL DEF Spec

\* Every variable keeps its type: what does not parse is never served.
THEOREM ConfigTypes == Spec => []TypeOK
<1>1. ConfigInv => TypeOK
  BY DEF ConfigInv
<1> QED
  BY <1>1, ConfigInvariant, PTL

\* Whatever interleaves and fails, only what was committed or typed in is served
\* or found in the file (save, maybeReload, load).
THEOREM RefusedEditsAreNeverServed == Spec => []NothingRefusedIsServed
<1>1. ConfigInv => NothingRefusedIsServed
  BY DEF ConfigInv, CopiesAreEntered
<1> QED
  BY <1>1, ConfigInvariant, PTL
-----------------------------------------------------------------------------
(***************************************************************************)
(* One request at a time.                                                  *)
(***************************************************************************)
Busy(r) == req[r].at # "idle"

\* The copies agree, or nothing is stored and the file's configuration, if it
\* has one, is served.
Settled == current = Durable /\ (db # NoConfig => file = db)

\* What holds at each step of the only request in flight.
At(r) ==
  /\ req[r].at \in {"handle", "compare", "readFile", "parse", "persist"} => Settled
  /\ req[r].at \in {"compare", "parse"} => req[r].content = file
  /\ req[r].at = "persist" /\ req[r].partOnly => req[r].config.rest = Durable.rest
  /\ req[r].at \in {"persisted", "open", "write", "restat", "stamp"} => db = req[r].config
  /\ req[r].at \in {"open", "write", "restat", "stamp"} => current = db
  /\ req[r].at = "write" => file = Empty
  /\ req[r].at \in {"restat", "stamp"} => file = db

OneByOne ==
  up /\ ~disturbed =>
    /\ adapter
    /\ \A r, s \in Reqs : Busy(r) /\ Busy(s) => r = s
    /\ \A r \in Reqs : Busy(r) => At(r)
    /\ (\A r \in Reqs : ~Busy(r)) => Settled

DownIsIdle == ~up => \A r \in Reqs : ~Busy(r)

LEMMA Alone ==
  ASSUME OneByOne, up, ~disturbed, NEW r \in Reqs, Busy(r)
  PROVE  adapter /\ At(r) /\ \A s \in Reqs : s # r => ~Busy(s)
BY DEF OneByOne

LEMMA Conclude ==
  ASSUME NEW r \in Reqs, \A s \in Reqs : s # r => ~Busy(s), Others(r), adapter',
         Busy(r)' => At(r)', ~Busy(r)' => Settled'
  PROVE  OneByOne'
<1>1. \A s \in Reqs : s # r => ~Busy(s)'
  BY DEF Others, Busy
<1>2. \A t, s \in Reqs : Busy(t)' /\ Busy(s)' => t = s
  BY <1>1
<1>3. \A s \in Reqs : Busy(s)' => At(s)'
  BY <1>1
<1>4. (\A s \in Reqs : ~Busy(s)') => Settled'
  OBVIOUS
<1> QED
  BY <1>2, <1>3, <1>4 DEF OneByOne

LEMMA UnchangedCopies ==
  ASSUME UNCHANGED <<db, file, current>>
  PROVE  Durable' = Durable /\ (Settled => Settled')
BY DEF Durable, Settled

\* The request that is handled next has the copies settled.
LEMMA HandledNext ==
  ASSUME NEW r \in Reqs, req'[r].at = "handle", Settled'
  PROVE  Busy(r)' /\ At(r)'
BY DEF Busy, At

LEMMA HandleHandles ==
  ASSUME ConfigInv, NEW r \in Reqs, Handle(r)
  PROVE  req'[r].at = "handle"
BY IdleIsRequest DEF Handle, ConfigInv, TypeOK

LEMMA ReloadAlone ==
  ASSUME ConfigInv, OneByOne, NEW r \in Reqs, Reload(r), up', ~disturbed'
  PROVE  OneByOne'
<1> USE DEF memory, disk, history
<1>0. Others(r)
  BY ReloadKeeps
<1>1. CASE SkipReload(r) \/ Stat(r)
  <2>1. up /\ ~disturbed /\ \A s \in Reqs : ~Busy(s)
    BY <1>1 DEF SkipReload, Stat, Arrive, Busy
  <2>2. Settled /\ adapter
    BY <2>1 DEF OneByOne
  <2>3. adapter' /\ UNCHANGED <<db, file, current>>
    BY <1>1, <2>2 DEF SkipReload, Stat
  <2>4. Settled'
    BY <2>2, <2>3, UnchangedCopies
  <2>5. Busy(r)' /\ At(r)'
    <3>1. CASE SkipReload(r)
      BY <3>1, <2>4, HandleHandles, HandledNext DEF SkipReload
    <3>2. CASE Stat(r)
      <4>1. req'[r].at = "compare" /\ req'[r].content = file'
        BY <3>2, <2>3 DEF Stat, ConfigInv, TypeOK, Requests
      <4> QED
        BY <4>1, <2>4 DEF Busy, At
    <3> QED
      BY <1>1, <3>1, <3>2
  <2> QED
    BY <1>0, <2>1, <2>3, <2>5, Conclude
<1>2. CASE Compare(r) \/ ReadFile(r) \/ Parse(r)
  <2>1. up /\ ~disturbed /\ Busy(r)
    <3>1. up' = up /\ disturbed' = disturbed
      BY <1>2 DEF Compare, ReadFile, Parse
    <3>2. req[r].at \in {"compare", "readFile", "parse"}
      BY <1>2 DEF Compare, ReadFile, Parse
    <3> QED
      BY <3>1, <3>2 DEF Busy
  <2>2. adapter /\ At(r) /\ \A s \in Reqs : s # r => ~Busy(s)
    BY <2>1, Alone
  <2>3. Settled /\ (req[r].at \in {"compare", "parse"} => req[r].content = file)
    BY <1>2, <2>2 DEF Compare, ReadFile, Parse, At
  <2>4. UNCHANGED <<db, file>> /\ adapter'
    BY <1>2, <2>2 DEF Compare, ReadFile, Parse
  <2>5. current' = current
    <3>1. CASE Compare(r)
      <4>1. req[r].content = file
        BY <2>3, <3>1 DEF Compare
      <4>2. file = Missing => Default = current
        BY <2>3, ConfigAssumption DEF Settled, Durable, ConfigInv, TypeOK
      <4> QED
        BY <3>1, <4>1, <4>2 DEF Compare
    <3>2. CASE ReadFile(r)
      BY <3>2 DEF ReadFile
    <3>3. CASE Parse(r)
      <4>1. req[r].content = file
        BY <2>3, <3>3 DEF Parse
      <4>2. file \in Configs => file = current
        BY <2>3 DEF Settled, Durable, ConfigInv, TypeOK
      <4>3. file = Missing => Default = current
        BY <2>3, ConfigAssumption DEF Settled, Durable, ConfigInv, TypeOK
      <4> QED
        BY <3>3, <4>1, <4>2, <4>3 DEF Parse
    <3> QED
      BY <1>2, <3>1, <3>2, <3>3
  <2>6. Settled'
    BY <2>3, <2>4, <2>5, UnchangedCopies
  <2>7. Busy(r)' /\ At(r)'
    <3>1. CASE Handle(r)
      BY <3>1, <2>6, HandleHandles, HandledNext
    <3>2. CASE Compare(r) /\ Proceed(r, "readFile")
      <4>1. req'[r].at = "readFile"
        BY <3>2 DEF Proceed, ConfigInv, TypeOK, Requests
      <4> QED
        BY <4>1, <2>6 DEF Busy, At
    <3>3. CASE ReadFile(r)
      <4>1. req'[r].at = "parse" /\ req'[r].content = file'
        BY <3>3, <2>4 DEF ReadFile, ConfigInv, TypeOK, Requests
      <4> QED
        BY <4>1, <2>6 DEF Busy, At
    <3> QED
      BY <1>2, <3>1, <3>2, <3>3 DEF Compare, Parse
  <2> QED
    BY <1>0, <2>2, <2>4, <2>7, Conclude
<1> QED
  BY <1>1, <1>2 DEF Reload

LEMMA HandlerAlone ==
  ASSUME ConfigInv, OneByOne, NEW r \in Reqs, Serve(r) \/ PutConfig(r) \/ PutPart(r),
         up', ~disturbed'
  PROVE  OneByOne'
<1> USE DEF memory, disk, history
<1>1. up /\ ~disturbed /\ Busy(r) /\ req[r].at = "handle"
  <2>1. up' = up /\ disturbed' = disturbed
    BY DEF Serve, PutConfig, PutPart, Save
  <2>2. req[r].at = "handle"
    BY DEF Serve, PutConfig, PutPart, Save
  <2> QED
    BY <2>1, <2>2 DEF Busy
<1>2. adapter /\ Settled /\ \A s \in Reqs : s # r => ~Busy(s)
  BY <1>1, Alone DEF At
<1>3. UNCHANGED <<db, file, current>> /\ adapter'
  BY <1>2 DEF Serve, PutConfig, PutPart, Save
<1>4. Settled' /\ Durable' = Durable
  BY <1>2, <1>3, UnchangedCopies
<1>5. Others(r)
  BY ServeKeeps, PutKeeps
<1>6. CASE Serve(r)
  <2>1. ~Busy(r)'
    BY <1>6, ServeKeeps DEF Busy
  <2> QED
    BY <1>2, <1>3, <1>4, <1>5, <2>1, Conclude
<1>7. CASE PutConfig(r)
  <2>1. req'[r].at = "persist" /\ req'[r].partOnly = FALSE
    BY <1>2, <1>7, SaveKeeps DEF PutConfig
  <2>2. Busy(r)' /\ At(r)'
    BY <2>1, <1>4 DEF Busy, At
  <2> QED
    BY <1>2, <1>3, <1>5, <2>2, Conclude
<1>8. CASE PutPart(r)
  <2>1. PICK v \in Values : Save(r, [current EXCEPT !.part = v], TRUE)
    BY <1>8 DEF PutPart
  <2>2. /\ [current EXCEPT !.part = v] \in Configs
        /\ [current EXCEPT !.part = v].rest = current.rest
    BY DEF ConfigInv, TypeOK, Configs
  <2>3. req'[r].at = "persist" /\ req'[r].config = [current EXCEPT !.part = v]
    BY <1>2, <2>1, <2>2, SaveKeeps
  <2>4. req'[r].config.rest = Durable'.rest
    BY <1>2, <1>4, <2>2, <2>3 DEF Settled
  <2>5. Busy(r)' /\ At(r)'
    BY <2>3, <2>4, <1>4 DEF Busy, At
  <2> QED
    BY <1>2, <1>3, <1>5, <2>5, Conclude
<1> QED
  BY <1>6, <1>7, <1>8

LEMMA SavingAlone ==
  ASSUME ConfigInv, OneByOne, NEW r \in Reqs, Saving(r), up', ~disturbed'
  PROVE  OneByOne'
<1> USE DEF memory, disk, history
<1>0. Others(r)
  BY SavingKeeps
<1>1. ~Fail(r)
  BY DEF Fail
<1>2. up /\ ~disturbed /\ Busy(r)
  <2>1. up' = up /\ disturbed' = disturbed
    BY <1>1 DEF Saving, Persist, Persisted, Open, Write, Restat, Stamp
  <2>2. req[r].at \in {"persist", "persisted", "open", "write", "restat", "stamp"}
    BY <1>1 DEF Saving, Persist, Persisted, Open, Write, Restat, Stamp
  <2> QED
    BY <2>1, <2>2 DEF Busy
<1>3. adapter /\ At(r) /\ \A s \in Reqs : s # r => ~Busy(s)
  BY <1>2, Alone
<1>4. adapter'
  BY <1>1, <1>3 DEF Saving, Persist, Persisted, Open, Write, Restat, Stamp
<1>5. req[r] \in Requests /\ req[r].config \in Configs
  BY DEF ConfigInv, TypeOK, Requests
<1>6. Busy(r)' => At(r)'
  <2>1. CASE Persist(r)
    <3>1. req'[r].at = "persisted" /\ req'[r].config = req[r].config
      BY <2>1 DEF Persist, Proceed, ConfigInv, TypeOK, Requests
    <3> QED
      BY <3>1, <2>1 DEF Persist, At
  <2>2. CASE Persisted(r)
    <3>1. req'[r].at = "open" /\ req'[r].config = req[r].config
      BY <2>2 DEF Persisted, Proceed, ConfigInv, TypeOK, Requests
    <3> QED
      BY <3>1, <2>2, <1>3 DEF Persisted, At
  <2>3. CASE Open(r)
    <3>1. req'[r].at = "write" /\ req'[r].config = req[r].config
      BY <2>3 DEF Open, Proceed, ConfigInv, TypeOK, Requests
    <3> QED
      BY <3>1, <2>3, <1>3 DEF Open, Touch, At
  <2>4. CASE Write(r)
    <3>1. req'[r].at = "restat" /\ req'[r].config = req[r].config
      BY <2>4 DEF Write, Proceed, ConfigInv, TypeOK, Requests
    <3>2. file = Empty
      BY <2>4, <1>3 DEF Write, At
    <3> QED
      BY <3>1, <3>2, <2>4, <1>3 DEF Write, Touch, At
  <2>5. CASE Restat(r)
    <3>1. req'[r].at = "stamp" /\ req'[r].config = req[r].config
      BY <2>5 DEF Restat, ConfigInv, TypeOK, Requests
    <3> QED
      BY <3>1, <2>5, <1>3 DEF Restat, At
  <2>6. CASE Stamp(r)
    <3>1. req'[r].at = "idle"
      BY <2>6, IdleIsRequest DEF Stamp, Respond, ConfigInv, TypeOK
    <3> QED
      BY <3>1 DEF Busy
  <2> QED
    BY <1>1, <2>1, <2>2, <2>3, <2>4, <2>5, <2>6 DEF Saving
<1>7. ~Busy(r)' => Settled'
  <2>1. CASE Stamp(r)
    <3>1. db = current /\ file = db /\ db # NoConfig
      BY <2>1, <1>3, <1>5, ConfigAssumption DEF Stamp, At
    <3>2. UNCHANGED <<db, file, current>>
      BY <2>1 DEF Stamp
    <3> QED
      BY <3>1, <3>2 DEF Settled, Durable
  <2>2. CASE ~Stamp(r)
    <3>1. req'[r].at # "idle"
      BY <2>2, <1>1 DEF Saving, Persist, Persisted, Open, Write, Restat, Proceed, ConfigInv,
                        TypeOK, Requests
    <3> QED
      BY <3>1 DEF Busy
  <2> QED
    BY <2>1, <2>2
<1> QED
  BY <1>0, <1>3, <1>4, <1>6, <1>7, Conclude

LEMMA DownStep == DownIsIdle /\ [Next]_vars => DownIsIdle'
<1> USE DEF memory, disk, history, Busy
<1> SUFFICES ASSUME DownIsIdle, [Next]_vars, ~up', NEW r \in Reqs
             PROVE  req'[r].at = "idle"
  BY DEF DownIsIdle
<1>1. CASE UNCHANGED vars
  BY <1>1 DEF vars, DownIsIdle
<1>2. CASE \E s \in Reqs : Reload(s) \/ Serve(s) \/ PutConfig(s) \/ PutPart(s) \/ Saving(s)
  <2>1. PICK s \in Reqs : Reload(s) \/ Serve(s) \/ PutConfig(s) \/ PutPart(s) \/ Saving(s)
    BY <1>2
  <2>2. up' = up
    BY <2>1 DEF Reload, SkipReload, Stat, Compare, ReadFile, Parse, Serve, PutConfig, PutPart,
                Save, Saving, Persist, Persisted, Open, Write, Restat, Stamp, Fail
  <2>3. req[s].at = "idle"
    BY <2>2 DEF DownIsIdle
  <2>4. up
    BY <2>1, <2>3 DEF Reload, SkipReload, Stat, Arrive, Compare, ReadFile, Parse, Serve,
       PutConfig, PutPart, Save, Saving, Persist, Persisted, Open, Write, Restat, Stamp, Fail
  <2> QED
    BY <2>2, <2>4
<1>3. CASE \E content \in Contents \ {Empty} : Edit(content)
  BY <1>3 DEF Edit, DownIsIdle
<1>4. CASE Die
  BY <1>4, IdleIsRequest DEF Die
<1>5. CASE Start
  BY <1>5 DEF Start
<1>6. CASE StartDies
  BY <1>6 DEF StartDies, DownIsIdle
<1> QED
  BY <1>1, <1>2, <1>3, <1>4, <1>5, <1>6 DEF Next

LEMMA OutsideAlone ==
  ASSUME ConfigInv, OneByOne, DownIsIdle, up', ~disturbed',
         \/ \E content \in Contents \ {Empty} : Edit(content)
         \/ Die \/ Start \/ StartDies
  PROVE  OneByOne'
<1> USE DEF memory, disk, history
<1>1. ~Die /\ ~\E content \in Contents \ {Empty} : Edit(content)
  BY DEF Die, Edit
<1>2. ~StartDies
  BY DEF StartDies
<1>3. CASE Start
  <2>1. \/ adapter' /\ db # NoConfig /\ LoadFromDatabase
        \/ adapter' /\ db = NoConfig /\ LoadFromDisk
    BY <1>3 DEF Start
  <2>2. db' = db /\ adapter'
    BY <1>3, <2>1 DEF Start
  <2>3. Settled'
    <3>1. CASE db # NoConfig /\ LoadFromDatabase
      BY <3>1, <2>2 DEF LoadFromDatabase, Touch, Settled, Durable
    <3>2. CASE db = NoConfig /\ LoadFromDisk
      BY <3>2, <2>2 DEF LoadFromDisk, Settled, Durable
    <3> QED
      BY <2>1, <3>1, <3>2
  <2>4. \A r \in Reqs : ~Busy(r)'
    BY <1>3 DEF Start, DownIsIdle, Busy
  <2> QED
    BY <2>2, <2>3, <2>4 DEF OneByOne
<1> QED
  BY <1>1, <1>2, <1>3

LEMMA OneByOneStep ==
  ConfigInv /\ OneByOne /\ DownIsIdle /\ [Next]_vars => OneByOne'
<1> SUFFICES ASSUME ConfigInv, OneByOne, DownIsIdle, [Next]_vars PROVE OneByOne'
  OBVIOUS
<1>1. CASE ~(up' /\ ~disturbed')
  BY <1>1 DEF OneByOne
<1>2. CASE up' /\ ~disturbed'
  <2>1. CASE UNCHANGED vars
    <3>1. /\ up' = up /\ disturbed' = disturbed /\ adapter' = adapter
          /\ req' = req /\ UNCHANGED <<db, file, current>>
      BY <2>1 DEF vars
    <3> QED
      BY <3>1 DEF OneByOne, Busy, At, Settled, Durable
  <2>2. CASE \E r \in Reqs : Reload(r) \/ Serve(r) \/ PutConfig(r) \/ PutPart(r) \/ Saving(r)
    BY <1>2, <2>2, ReloadAlone, HandlerAlone, SavingAlone
  <2>3. CASE (\E content \in Contents \ {Empty} : Edit(content)) \/ Die \/ Start \/ StartDies
    BY <1>2, <2>3, OutsideAlone
  <2> QED
    BY <2>1, <2>2, <2>3 DEF Next
<1> QED
  BY <1>1, <1>2

AloneInv == ConfigInv /\ OneByOne /\ DownIsIdle

THEOREM AloneInvariant == Spec => []AloneInv
<1>1. Init => AloneInv
  BY ConfigInit, IdleIsRequest DEF Init, AloneInv, OneByOne, DownIsIdle, Busy
<1>2. AloneInv /\ [Next]_vars => AloneInv'
  BY ConfigStep, OneByOneStep, DownStep DEF AloneInv
<1> QED
  BY <1>1, <1>2, PTL DEF Spec

\* As long as requests do not overlap and nothing fails, an idle server has the
\* same configuration in memory, database and file, wherever it died before
\* (save, load).
THEOREM CopiesStayInAgreement == Spec => []CopiesAgree
<1>1. AloneInv => CopiesAgree
  <2> SUFFICES ASSUME AloneInv, ~disturbed, Quiet, db # NoConfig
               PROVE  current = db /\ file = db
    BY DEF CopiesAgree, NeverDrifts
  <2>1. Settled
    BY DEF AloneInv, OneByOne, Quiet, Busy
  <2> QED
    BY <2>1 DEF Settled, Durable
<1> QED
  BY <1>1, AloneInvariant, PTL

\* And an edit of one part never loses another (the PUT of the achievement
\* definitions and of the trail styles).
THEOREM PartEditsKeepTheRest == Spec => EditsOnePart
<1> DEFINE Step == ~disturbed => \A r \in Reqs :
       req[r].at = "persist" /\ req[r].partOnly /\ db' # db => db'.rest = Durable.rest
<1>1. AloneInv /\ [Next]_vars => Step
  <2> SUFFICES ASSUME AloneInv, [Next]_vars, ~disturbed, NEW r \in Reqs,
                      req[r].at = "persist", req[r].partOnly, db' # db
               PROVE  db'.rest = Durable.rest
    OBVIOUS
  <2>1. up /\ Busy(r)
    BY DEF AloneInv, DownIsIdle, Busy
  <2>2. At(r) /\ \A s \in Reqs : s # r => ~Busy(s)
    BY <2>1, Alone DEF AloneInv
  <2>3. PICK s \in Reqs : Persist(s)
    BY DEF Next, vars, disk, Reload, SkipReload, Stat, Compare, ReadFile, Parse, Serve,
           PutConfig, PutPart, Save, Saving, Persisted, Open, Write, Restat, Stamp, Fail,
           Edit, Die, Start, StartDies
  <2>4. s = r
    BY <2>2, <2>3 DEF Persist, Busy
  <2> QED
    BY <2>2, <2>3, <2>4 DEF Persist, At
<1>2. AloneInv /\ [Next]_vars => [Step]_vars
  BY <1>1
<1> QED
  BY <1>2, AloneInvariant, PTL DEF Spec, EditsOnePart
=============================================================================
