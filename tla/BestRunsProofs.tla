--------------------------- MODULE BestRunsProofs ---------------------------
(***************************************************************************)
(* Proofs about the best runs, for any players, runs and uploads.          *)
(***************************************************************************)
EXTENDS BestRuns, TLAPS

\* What an upload has got by the time it compares and writes.
UploadsAreFilled ==
  \A r \in Reqs :
    /\ req[r].at # "idle" => req[r].who \in Users
    /\ req[r].at \in {"find", "save"} => req[r].replay \in Replays
    /\ req[r].at = "save" => req[r].snap <= Score[req[r].replay]

BestRunsInv == TypeOK /\ UploadsAreFilled /\ ScoreIsTheReplays

\* Served one at a time, an upload that is about to write knows what is stored.
SnapIsStored == \A r \in Reqs : req[r].at = "save" => req[r].snap = Stored(req[r].who)

SerialInv == BestRunsInv /\ SnapIsStored

OneUpload == \A r, s \in Reqs : r = s
-----------------------------------------------------------------------------
LEMMA LargerIsOneOfThem ==
  ASSUME NEW m \in Nat, NEW n \in Nat
  PROVE  /\ Larger(m, n) \in Nat
         /\ m <= n => Larger(m, n) = n
BY DEF Larger

LEMMA StoredIsNat ==
  ASSUME TypeOK, NEW u \in Users
  PROVE  Stored(u) \in Nat
BY DEF TypeOK, Stored, Documents

LEMMA BestRunsInit == Init => SerialInv
<1> SUFFICES ASSUME Init PROVE SerialInv
  OBVIOUS
<1>1. TypeOK
  BY DEF Init, TypeOK, Requests, Idle
<1>2. UploadsAreFilled /\ ScoreIsTheReplays /\ SnapIsStored
  BY DEF Init, UploadsAreFilled, ScoreIsTheReplays, SnapIsStored, Idle
<1> QED
  BY <1>1, <1>2 DEF SerialInv, BestRunsInv

\* The end of an upload that has written nothing.
LEMMA EndKeeps ==
  ASSUME BestRunsInv, NEW r \in Reqs, Respond(r)
  PROVE  /\ req' \in [Reqs -> Requests]
         /\ \A s \in Reqs : s = r \/ req'[s] = req[s]
         /\ req'[r].at = "idle"
         /\ UploadsAreFilled'
<1>1. /\ req' \in [Reqs -> Requests]
      /\ \A s \in Reqs : s = r \/ req'[s] = req[s]
      /\ req'[r].at = "idle"
  BY DEF BestRunsInv, TypeOK, Respond, Requests, Idle
<1> QED
  BY <1>1 DEF BestRunsInv, UploadsAreFilled

LEMMA SubmitScoreKeeps ==
  ASSUME BestRunsInv, NEW u \in Users, NEW replay \in Replays, SubmitScore(u, replay)
  PROVE  BestRunsInv'
<1>1. bestScore[u] \in Nat /\ Score[replay] \in Nat
  BY BestRunsAssumption DEF BestRunsInv, TypeOK
<1>2. Larger(bestScore[u], Score[replay]) \in Nat
  BY <1>1, LargerIsOneOfThem
<1>3. TypeOK'
  BY <1>2 DEF SubmitScore, BestRunsInv, TypeOK
<1> QED
  BY <1>3 DEF SubmitScore, BestRunsInv, UploadsAreFilled, ScoreIsTheReplays

LEMMA GetUserKeeps ==
  ASSUME BestRunsInv, NEW r \in Reqs, NEW u \in Users, GetUserFromReq(r, u)
  PROVE  BestRunsInv'
<1>1. bestScore[u] \in Nat
  BY DEF BestRunsInv, TypeOK
<1>2. TypeOK'
  BY <1>1 DEF GetUserFromReq, BestRunsInv, TypeOK, Requests, Idle
<1>3. UploadsAreFilled'
  BY DEF GetUserFromReq, BestRunsInv, TypeOK, UploadsAreFilled, Idle
<1> QED
  BY <1>2, <1>3 DEF GetUserFromReq, BestRunsInv, ScoreIsTheReplays

LEMMA NormalizeKeeps ==
  ASSUME BestRunsInv, NEW r \in Reqs, NEW replay \in Replays,
         NormalizeBestRunRequest(r, replay)
  PROVE  BestRunsInv'
<1>1. UNCHANGED <<bestScore, bestRuns>>
  BY DEF NormalizeBestRunRequest
<1>2. CASE Respond(r)
  BY <1>1, <1>2, EndKeeps DEF BestRunsInv, TypeOK, ScoreIsTheReplays
<1>3. CASE req' = [req EXCEPT ![r].at = "find", ![r].replay = replay]
  <2>1. req' = [req EXCEPT ![r] = [req[r] EXCEPT !.at = "find", !.replay = replay]]
    BY <1>3 DEF BestRunsInv, TypeOK, Requests
  <2>2. req[r] \in Requests /\ req[r].who \in Users
    BY DEF NormalizeBestRunRequest, BestRunsInv, TypeOK, UploadsAreFilled
  <2>3. req'[r] \in Requests /\ req'[r].who \in Users
        /\ req'[r].at = "find" /\ req'[r].replay = replay
    BY <2>1, <2>2 DEF Requests, BestRunsInv, TypeOK
  <2>4. \A s \in Reqs : s = r \/ req'[s] = req[s]
    BY <2>1 DEF BestRunsInv, TypeOK
  <2>5. TypeOK'
    BY <1>1, <2>1, <2>3 DEF BestRunsInv, TypeOK
  <2>6. UploadsAreFilled'
    BY <2>3, <2>4 DEF BestRunsInv, UploadsAreFilled
  <2> QED
    BY <1>1, <2>5, <2>6 DEF BestRunsInv, ScoreIsTheReplays
<1> QED
  BY <1>2, <1>3 DEF NormalizeBestRunRequest

LEMMA RecordBestRunKeeps ==
  ASSUME BestRunsInv, NEW r \in Reqs, RecordBestRun(r)
  PROVE  BestRunsInv'
<1>1. UNCHANGED <<bestScore, bestRuns>>
  BY DEF RecordBestRun
<1>2. /\ req[r] \in Requests
      /\ req[r].who \in Users
      /\ req[r].replay \in Replays
  BY DEF RecordBestRun, BestRunsInv, TypeOK, UploadsAreFilled
<1>3. Stored(req[r].who) \in Nat /\ Score[req[r].replay] \in Nat
  BY <1>2, StoredIsNat, BestRunsAssumption DEF BestRunsInv
<1>4. CASE Respond(r)
  BY <1>1, <1>4, EndKeeps DEF BestRunsInv, TypeOK, ScoreIsTheReplays
<1>5. CASE /\ ~(Stored(req[r].who) > Score[req[r].replay])
           /\ req' = [req EXCEPT ![r].at = "save", ![r].snap = Stored(req[r].who)]
  <2>1. req' = [req EXCEPT ![r] =
                  [req[r] EXCEPT !.at = "save", !.snap = Stored(req[r].who)]]
    BY <1>5 DEF BestRunsInv, TypeOK, Requests
  <2>2. /\ req'[r] \in Requests
        /\ req'[r].who = req[r].who
        /\ req'[r].replay = req[r].replay
        /\ req'[r].at = "save"
        /\ req'[r].snap = Stored(req[r].who)
    BY <2>1, <1>2, <1>3 DEF BestRunsInv, TypeOK, Requests
  <2>3. \A s \in Reqs : s = r \/ req'[s] = req[s]
    BY <2>1 DEF BestRunsInv, TypeOK
  <2>4. Stored(req[r].who) <= Score[req[r].replay]
    BY <1>3, <1>5
  <2>5. TypeOK'
    BY <1>1, <2>1, <2>2 DEF BestRunsInv, TypeOK
  <2>6. UploadsAreFilled'
    BY <1>2, <2>2, <2>3, <2>4 DEF BestRunsInv, UploadsAreFilled
  <2> QED
    BY <1>1, <2>5, <2>6 DEF BestRunsInv, ScoreIsTheReplays
<1> QED
  BY <1>4, <1>5 DEF RecordBestRun

\* The write stores a run with its own score.
LEMMA UpdateOneWrites ==
  ASSUME BestRunsInv, NEW r \in Reqs, UpdateOne(r)
  PROVE  /\ req[r].who \in Users
         /\ req[r].replay \in Replays
         /\ bestRuns' = [bestRuns EXCEPT ![req[r].who] =
              [bestScore |-> Score[req[r].replay], replay |-> req[r].replay]]
         /\ Score[req[r].replay] \in Nat
         /\ req[r].snap <= Score[req[r].replay]
<1>1. /\ req[r].at = "save"
      /\ req[r].who \in Users
      /\ req[r].replay \in Replays
      /\ req[r].snap \in Nat
      /\ req[r].snap <= Score[req[r].replay]
  BY DEF UpdateOne, BestRunsInv, TypeOK, UploadsAreFilled, Requests
<1>2. Score[req[r].replay] \in Nat
  BY <1>1, BestRunsAssumption
<1>3. Larger(req[r].snap, Score[req[r].replay]) = Score[req[r].replay]
  BY <1>1, <1>2, LargerIsOneOfThem
<1> QED
  BY <1>1, <1>2, <1>3 DEF UpdateOne

LEMMA UpdateOneKeeps ==
  ASSUME BestRunsInv, NEW r \in Reqs, UpdateOne(r)
  PROVE  BestRunsInv'
<1>1. [bestScore |-> Score[req[r].replay], replay |-> req[r].replay] \in Documents
  BY UpdateOneWrites DEF Documents
<1>2. bestRuns' \in [Users -> Documents \cup {NoDoc}]
  BY <1>1, UpdateOneWrites DEF BestRunsInv, TypeOK
<1>3. req' \in [Reqs -> Requests] /\ UploadsAreFilled' /\ bestScore' = bestScore
  BY EndKeeps DEF UpdateOne
<1>4. ScoreIsTheReplays'
  <2> SUFFICES ASSUME NEW u \in Users, bestRuns'[u] # NoDoc
               PROVE  bestRuns'[u].bestScore = Score[bestRuns'[u].replay]
    BY DEF ScoreIsTheReplays
  <2>1. CASE u = req[r].who
    <3>1. bestRuns'[u] = [bestScore |-> Score[req[r].replay], replay |-> req[r].replay]
      BY <2>1, UpdateOneWrites DEF BestRunsInv, TypeOK
    <3> QED
      BY <3>1
  <2>2. CASE u # req[r].who
    BY <2>2, UpdateOneWrites DEF BestRunsInv, TypeOK, ScoreIsTheReplays
  <2> QED
    BY <2>1, <2>2
<1> QED
  BY <1>2, <1>3, <1>4 DEF BestRunsInv, TypeOK

LEMMA FailKeeps ==
  ASSUME BestRunsInv, NEW r \in Reqs, Fail(r)
  PROVE  BestRunsInv'
BY EndKeeps DEF Fail, BestRunsInv, TypeOK, ScoreIsTheReplays

LEMMA BestRunsStep == BestRunsInv /\ [Next]_vars => BestRunsInv'
<1> SUFFICES ASSUME BestRunsInv, [Next]_vars PROVE BestRunsInv'
  OBVIOUS
<1>1. CASE UNCHANGED vars
  BY <1>1 DEF vars, BestRunsInv, TypeOK, UploadsAreFilled, ScoreIsTheReplays
<1>2. CASE \E u \in Users, replay \in Replays : SubmitScore(u, replay)
  BY <1>2, SubmitScoreKeeps
<1>3. CASE \E r \in Reqs, u \in Users : GetUserFromReq(r, u)
  BY <1>3, GetUserKeeps
<1>4. CASE \E r \in Reqs, replay \in Replays : NormalizeBestRunRequest(r, replay)
  BY <1>4, NormalizeKeeps
<1>5. CASE \E r \in Reqs : RecordBestRun(r) \/ UpdateOne(r) \/ Fail(r)
  BY <1>5, RecordBestRunKeeps, UpdateOneKeeps, FailKeeps
<1> QED
  BY <1>1, <1>2, <1>3, <1>4, <1>5 DEF Next

\* Every variable keeps its type, and the score stored with a best run is that
\* of the replay stored with it, however uploads interleave.
THEOREM BestRunsInvariant == Spec => []BestRunsInv
<1>1. Init => BestRunsInv
  BY BestRunsInit DEF SerialInv
<1> QED
  BY <1>1, BestRunsStep, PTL DEF Spec

THEOREM ScoresMatchReplays == Spec => []ScoreIsTheReplays
<1>1. BestRunsInv => ScoreIsTheReplays
  BY DEF BestRunsInv
<1> QED
  BY <1>1, BestRunsInvariant, PTL
-----------------------------------------------------------------------------
\* No other step touches the stored runs.
LEMMA OthersLeaveBestRuns ==
  ASSUME [Next]_vars, \A r \in Reqs : ~UpdateOne(r)
  PROVE  bestRuns' = bestRuns
BY DEF Next, vars, SubmitScore, GetUserFromReq, NormalizeBestRunRequest, RecordBestRun, Fail

\* A write that makes a stored run worse follows a comparison with another run.
LEMMA StaleWrite ==
  ASSUME BestRunsInv, NEW r \in Reqs, UpdateOne(r), NEW u \in Users, Stored(u)' < Stored(u)
  PROVE  /\ req[r].at = "save" /\ req'[r].at = "idle"
         /\ req[r].who = u
         /\ req[r].snap < Stored(u)
<1>1. req[r].at = "save" /\ req'[r].at = "idle"
  BY EndKeeps DEF UpdateOne
<1>2. Stored(u) \in Nat
  BY StoredIsNat DEF BestRunsInv
<1>3. req[r].who = u
  <2> SUFFICES ASSUME req[r].who # u PROVE FALSE
    OBVIOUS
  <2>1. bestRuns'[u] = bestRuns[u]
    BY UpdateOneWrites DEF BestRunsInv, TypeOK
  <2> QED
    BY <1>2, <2>1 DEF Stored
<1>4. Stored(u)' = Score[req[r].replay]
  <2>1. bestRuns'[u] = [bestScore |-> Score[req[r].replay], replay |-> req[r].replay]
    BY <1>3, UpdateOneWrites DEF BestRunsInv, TypeOK
  <2>2. bestRuns'[u] # NoDoc
    BY <2>1, UpdateOneWrites, BestRunsAssumption DEF Documents
  <2> QED
    BY <2>1, <2>2 DEF Stored
<1>5. req[r].snap \in Nat /\ Score[req[r].replay] \in Nat /\ req[r].snap <= Score[req[r].replay]
  BY UpdateOneWrites DEF BestRunsInv, TypeOK, Requests
<1> QED
  BY <1>1, <1>2, <1>3, <1>4, <1>5

\* However uploads interleave, a stored best run is only ever replaced by a worse
\* one by an upload that compared with a run that was replaced since
\* (recordBestRun).
THEOREM OnlyStaleUploadsWorsen == Spec => WorsensOnlyIfStale
<1> DEFINE Step == \A u \in Users : RunScore(u)' < RunScore(u) =>
                     \E r \in Reqs : /\ req[r].at = "save" /\ req'[r].at = "idle"
                                     /\ req[r].who = u
                                     /\ req[r].snap < RunScore(u)
<1>1. BestRunsInv /\ BestRunsInv' /\ [Next]_vars => Step
  <2> SUFFICES ASSUME BestRunsInv, BestRunsInv', [Next]_vars, NEW u \in Users,
                      RunScore(u)' < RunScore(u)
               PROVE  \E r \in Reqs : /\ req[r].at = "save" /\ req'[r].at = "idle"
                                      /\ req[r].who = u
                                      /\ req[r].snap < RunScore(u)
    OBVIOUS
  <2>0. RunScore(u) = Stored(u) /\ RunScore(u)' = Stored(u)'
    BY DEF BestRunsInv, ScoreIsTheReplays, RunScore, Stored
  <2>1. CASE \E r \in Reqs : UpdateOne(r)
    BY <2>0, <2>1, StaleWrite
  <2>2. CASE \A r \in Reqs : ~UpdateOne(r)
    <3>1. bestRuns' = bestRuns
      BY <2>2, OthersLeaveBestRuns
    <3>2. Stored(u)' = Stored(u) /\ Stored(u) \in Nat
      BY <3>1, StoredIsNat DEF Stored, BestRunsInv
    <3> QED
      BY <2>0, <3>2
  <2> QED
    BY <2>1, <2>2
<1>2. BestRunsInv /\ BestRunsInv' /\ [Next]_vars => [Step]_vars
  BY <1>1
<1> QED
  BY <1>2, BestRunsInvariant, PTL DEF Spec, WorsensOnlyIfStale
-----------------------------------------------------------------------------
\* The write of a lone upload replaces the very run it compared with.
LEMMA LoneUpdate ==
  ASSUME OneUpload, SerialInv, NEW r \in Reqs, UpdateOne(r), NEW u \in Users
  PROVE  Stored(u) <= Stored(u)'
<1>1. Stored(u) \in Nat
  BY StoredIsNat DEF SerialInv, BestRunsInv
<1>2. CASE u = req[r].who
  <2>1. Stored(u) <= Score[req[r].replay]
    BY <1>2, UpdateOneWrites DEF SerialInv, SnapIsStored, UpdateOne
  <2>2. bestRuns'[u] = [bestScore |-> Score[req[r].replay], replay |-> req[r].replay]
    BY <1>2, UpdateOneWrites DEF SerialInv, BestRunsInv, TypeOK
  <2>3. bestRuns'[u] # NoDoc
    BY <2>2, UpdateOneWrites, BestRunsAssumption DEF SerialInv, Documents
  <2> QED
    BY <2>1, <2>2, <2>3 DEF Stored
<1>3. CASE u # req[r].who
  <2>1. bestRuns'[u] = bestRuns[u]
    BY <1>3, UpdateOneWrites DEF SerialInv, BestRunsInv, TypeOK
  <2> QED
    BY <1>1, <2>1 DEF Stored
<1> QED
  BY <1>2, <1>3

LEMMA LoneStepKeeps ==
  ASSUME OneUpload, SerialInv, [Next]_vars
  PROVE  SerialInv' /\ \A u \in Users : Stored(u) <= Stored(u)'
<1>1. BestRunsInv'
  BY BestRunsStep DEF SerialInv
<1>2. CASE \E r \in Reqs : UpdateOne(r)
  <2>1. PICK r \in Reqs : UpdateOne(r)
    BY <1>2
  <2>2. req'[r].at = "idle"
    BY <2>1, EndKeeps DEF SerialInv, UpdateOne
  <2>3. SnapIsStored'
    BY <2>2 DEF OneUpload, SnapIsStored
  <2>4. \A u \in Users : Stored(u) <= Stored(u)'
    BY <2>1, LoneUpdate
  <2> QED
    BY <1>1, <2>3, <2>4 DEF SerialInv
<1>3. CASE \A r \in Reqs : ~UpdateOne(r)
  <2>1. bestRuns' = bestRuns
    BY <1>3, OthersLeaveBestRuns
  <2>2. \A u \in Users : Stored(u) \in Nat /\ Stored(u)' = Stored(u)
    BY <2>1, StoredIsNat DEF Stored, SerialInv, BestRunsInv
  <2>3. SnapIsStored'
    <3> SUFFICES ASSUME NEW r \in Reqs, req'[r].at = "save"
                 PROVE  req'[r].snap = (IF bestRuns[req'[r].who] = NoDoc THEN 0
                                        ELSE bestRuns[req'[r].who].bestScore)
      BY <2>1 DEF SnapIsStored, Stored
    <3>1. req'[r] = req[r] \/ RecordBestRun(r)
      <4>1. CASE \E s \in Reqs, u \in Users : GetUserFromReq(s, u)
        BY <4>1 DEF GetUserFromReq, SerialInv, BestRunsInv, TypeOK, Idle
      <4>2. CASE \E s \in Reqs, replay \in Replays : NormalizeBestRunRequest(s, replay)
        BY <4>2 DEF NormalizeBestRunRequest, Respond, SerialInv, BestRunsInv, TypeOK,
                    Requests, Idle
      <4>3. CASE \E s \in Reqs : Fail(s)
        BY <4>3 DEF Fail, Respond, SerialInv, BestRunsInv, TypeOK, Idle
      <4>4. CASE \E s \in Reqs : RecordBestRun(s)
        BY <4>4 DEF OneUpload
      <4>5. CASE UNCHANGED req
        BY <4>5
      <4> QED
        BY <4>1, <4>2, <4>3, <4>4, <4>5, <1>3 DEF Next, vars, SubmitScore
    <3>2. CASE req'[r] = req[r]
      BY <3>2 DEF SerialInv, SnapIsStored, Stored
    <3>3. CASE RecordBestRun(r)
      <4>1. req' = [req EXCEPT ![r].at = "save", ![r].snap = Stored(req[r].who)]
        BY <3>3, EndKeeps DEF RecordBestRun, SerialInv
      <4>2. req'[r].snap = Stored(req[r].who) /\ req'[r].who = req[r].who
        BY <4>1 DEF SerialInv, BestRunsInv, TypeOK, Requests
      <4> QED
        BY <4>2 DEF Stored
    <3> QED
      BY <3>1, <3>2, <3>3
  <2> QED
    BY <1>1, <2>2, <2>3 DEF SerialInv
<1> QED
  BY <1>2, <1>3

\* Served one upload at a time, a stored best run is never replaced by a worse
\* one: only the interleaving of two uploads can do that (recordBestRun).
THEOREM LoneUploadsNeverWorsen ==
  ASSUME OneUpload
  PROVE  Spec => NeverWorsens
<1>1. SerialInv /\ [Next]_vars => SerialInv'
  BY LoneStepKeeps
<1>2. SerialInv /\ [Next]_vars => [\A u \in Users : Stored(u) <= Stored(u)']_vars
  BY LoneStepKeeps
<1> QED
  BY <1>1, <1>2, BestRunsInit, PTL DEF Spec, NeverWorsens
=============================================================================
