------------------------------ MODULE BestRuns ------------------------------
(***************************************************************************)
(* The best run of each player: the `best_runs` collection and the upload  *)
(* handler POST /api/run/best (server.cjs, services/bestRuns.cjs,          *)
(* recordBestRun of db/mongo.cjs).                                         *)
(*                                                                         *)
(* An upload compares its score twice, with the best score of the account  *)
(* it looked up and with the run it finds stored, and awaits the database  *)
(* after each; the write at the end is unconditional.                      *)
(***************************************************************************)
EXTENDS Naturals

CONSTANTS
  Users,
  Reqs,      \* uploads that can be in flight at the same time
  Replays,   \* the runs a client can upload, identified by their replays
  Score,     \* the score of each
  NoDoc,     \* a player without a stored run
  Nobody, NoReplay

Documents == [bestScore : Nat, replay : Replays]

ASSUME BestRunsAssumption ==
  /\ Score \in [Replays -> Nat]
  /\ NoDoc \notin Documents
  /\ Nobody \notin Users
  /\ NoReplay \notin Replays

VARIABLES
  bestScore,  \* bestScore of the users' own documents
  bestRuns,   \* the document of each player in best_runs
  req         \* the uploads in flight

vars == <<bestScore, bestRuns, req>>

Idle == [at |-> "idle", who |-> Nobody, replay |-> NoReplay, snap |-> 0]

\* snap is the score the upload read last: the account's, then the stored run's.
Requests ==
  [at : {"idle", "body", "find", "save"}, who : Users \cup {Nobody},
   replay : Replays \cup {NoReplay}, snap : Nat]

TypeOK ==
  /\ bestScore \in [Users -> Nat]
  /\ bestRuns \in [Users -> Documents \cup {NoDoc}]
  /\ req \in [Reqs -> Requests]

Init ==
  /\ bestScore = [u \in Users |-> 0]
  /\ bestRuns = [u \in Users |-> NoDoc]
  /\ req = [r \in Reqs |-> Idle]
-----------------------------------------------------------------------------
Respond(r) == req' = [req EXCEPT ![r] = Idle]

Larger(m, n) == IF m > n THEN m ELSE n

Stored(u) == IF bestRuns[u] = NoDoc THEN 0 ELSE bestRuns[u].bestScore

\* POST /api/score, seen from here: the account's best score takes the run in.
SubmitScore(u, replay) ==
  /\ bestScore' = [bestScore EXCEPT ![u] = Larger(@, Score[replay])]
  /\ UNCHANGED <<bestRuns, req>>

GetUserFromReq(r, u) ==
  /\ req[r].at = "idle"
  /\ req' = [req EXCEPT ![r] = [Idle EXCEPT !.at = "body", !.who = u, !.snap = bestScore[u]]]
  /\ UNCHANGED <<bestScore, bestRuns>>

(***************************************************************************)
(* The body has arrived: a score of zero is refused, one below the best    *)
(* score that was looked up is skipped ("not_best").                       *)
(***************************************************************************)
NormalizeBestRunRequest(r, replay) ==
  /\ req[r].at = "body"
  /\ IF Score[replay] > 0 /\ Score[replay] >= req[r].snap
     THEN req' = [req EXCEPT ![r].at = "find", ![r].replay = replay]
     ELSE Respond(r)
  /\ UNCHANGED <<bestScore, bestRuns>>

\* Mutant: the stored run is not compared with.
FindAnything(r) ==
  /\ req[r].at = "find"
  /\ req' = [req EXCEPT ![r].at = "save", ![r].snap = Stored(req[r].who)]
  /\ UNCHANGED <<bestScore, bestRuns>>

\* recordBestRun up to its write: a better run that is stored is returned.
RecordBestRun(r) ==
  LET u == req[r].who
  IN  /\ req[r].at = "find"
      /\ IF Stored(u) > Score[req[r].replay]
         THEN Respond(r)
         ELSE req' = [req EXCEPT ![r].at = "save", ![r].snap = Stored(u)]
      /\ UNCHANGED <<bestScore, bestRuns>>

\* The write of recordBestRun.
UpdateOne(r) ==
  LET q == req[r]
  IN  /\ q.at = "save"
      /\ bestRuns' = [bestRuns EXCEPT ![q.who] =
                        [bestScore |-> Larger(q.snap, Score[q.replay]), replay |-> q.replay]]
      /\ Respond(r)
      /\ UNCHANGED bestScore

\* The body is refused, or the database fails.
Fail(r) ==
  /\ req[r].at # "idle"
  /\ Respond(r)
  /\ UNCHANGED <<bestScore, bestRuns>>

Next ==
  \/ \E u \in Users, replay \in Replays : SubmitScore(u, replay)
  \/ \E r \in Reqs, u \in Users : GetUserFromReq(r, u)
  \/ \E r \in Reqs, replay \in Replays : NormalizeBestRunRequest(r, replay)
  \/ \E r \in Reqs : RecordBestRun(r) \/ UpdateOne(r) \/ Fail(r)

Spec == Init /\ [][Next]_vars
-----------------------------------------------------------------------------
\* The score stored with a best run is the score of the replay stored with it,
\* although it is computed from a document read an await earlier.
ScoreIsTheReplays ==
  \A u \in Users : bestRuns[u] # NoDoc => bestRuns[u].bestScore = Score[bestRuns[u].replay]

\* What the run that is stored did score.
RunScore(u) == IF bestRuns[u] = NoDoc THEN 0 ELSE Score[bestRuns[u].replay]

\* A stored best run is only ever replaced by a worse one by an upload that has
\* compared with another run, which was replaced under its feet: the second
\* comparison of recordBestRun is right, its write is unconditional.
WorsensOnlyIfStale ==
  [][\A u \in Users : RunScore(u)' < RunScore(u) =>
       \E r \in Reqs : /\ req[r].at = "save" /\ req'[r].at = "idle"
                       /\ req[r].who = u
                       /\ req[r].snap < RunScore(u)]_vars

\* A stored best run is never replaced by a worse one (recordBestRun).  This
\* does not hold when two uploads of a player interleave.
NeverWorsens == [][\A u \in Users : Stored(u) <= Stored(u)']_vars
=============================================================================
