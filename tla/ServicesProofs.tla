--------------------------- MODULE ServicesProofs ---------------------------
(***************************************************************************)
(* What holds of the services around the accounts and of the operator's    *)
(* pages, for any sizes: of the rate limiter, the connection to the        *)
(* database, the icon registry, the database editor, the card of an icon,  *)
(* the replay browser, the operator's forms, the JSON editor and the       *)
(* sessions.  Each has its inductive invariant and its theorem.            *)
(***************************************************************************)
EXTENDS RateLimiter, MongoConnection, IconRegistry, Desk, IconCard, ReplayBrowser, Forms,
        JsonEditor, Sessions, FiniteSetTheorems, TLAPS

-----------------------------------------------------------------------------
(* The rate limiter: fixed windows keep to twice their limit in any span of a *)
(* window's length, for any limits, lengths and configurations, any sweep     *)
(* interval and without a bound on time.                                      *)

(* What is known of key k when its window is w, its last window was opened as o says,
   and g was granted. *)

\* A window is only forgotten when it has passed, and never holds more than the limit.
WindowStands(w, o) ==
  IF w = NoWindow THEN o.no = 0 \/ o.at + MinWindow <= clock
  ELSE /\ o.no > 0 /\ w.count <= MaxLimit /\ o.at + MinWindow <= w.reset

\* A grant belongs to a window that was opened; in the open one it has been counted.
GrantCounted(g, w, o) ==
  /\ g.at <= clock /\ g.no <= o.no
  /\ g.no = o.no /\ w # NoWindow => g.n <= w.count
  /\ g.no < o.no => g.at <= o.at
  /\ g.no + 1 < o.no => g.at + MinWindow <= o.at

\* Grants of windows that do not follow each other are a window's length apart, and no
\* two have the same place in the same window.
GrantsApart(g, h) ==
  /\ g.no + 1 < h.no => g.at + MinWindow <= h.at
  /\ g.no = h.no /\ g.n = h.n => g = h

WindowsInv == \A k \in Keys : opened[k].at <= clock /\ WindowStands(windows[k], opened[k])
GrantsInv ==
  /\ \A g \in granted : GrantCounted(g, windows[g.key], opened[g.key])
  /\ \A g, h \in granted : g.key = h.key => GrantsApart(g, h)

LimiterInv == LimiterTypeOK /\ WindowsInv /\ GrantsInv

LEMMA LimiterInvInit == LimiterInit => LimiterInv
  BY LimiterAssumption
  DEF LimiterInit, LimiterInv, LimiterTypeOK, WindowsInv, GrantsInv, WindowStands

LEMMA ConfigsAre ==
  \A c \in Configs : c.limit \in 1..MaxLimit /\ c.windowMs \in Nat /\ c.windowMs >= MinWindow
  BY LimiterAssumption

\* A sweep loses nothing that was still open.
LEMMA SweepIsSafe ==
  ASSUME LimiterInv, NEW k \in Keys
  PROVE  LET w == SweepRateLimits(windows)[k] IN
         /\ w \in Windows \cup {NoWindow} /\ WindowStands(w, opened[k])
         /\ w # NoWindow => w = windows[k]
<1>1. CASE k \in ServerKeys /\ Past(windows[k])
  <2>1. SweepRateLimits(windows)[k] = NoWindow
    BY <1>1 DEF SweepRateLimits
  <2>2. windows[k] # NoWindow => clock >= windows[k].reset
    BY <1>1 DEF Past
  <2>. QED
    BY <2>1, <2>2, LimiterAssumption
    DEF LimiterInv, LimiterTypeOK, WindowsInv, WindowStands, Windows
<1>2. CASE ~(k \in ServerKeys /\ Past(windows[k]))
  BY <1>2 DEF SweepRateLimits, LimiterInv, LimiterTypeOK, WindowsInv
<1>. QED
  BY <1>1, <1>2

\* A request is counted in windows that are those of before or what a sweep left of them.
LEMMA CountIsSafe ==
  ASSUME LimiterInv, NEW k \in Keys, NEW ws \in [Keys -> Windows \cup {NoWindow}],
         \A j \in Keys : WindowStands(ws[j], opened[j]) /\ (ws[j] # NoWindow => ws[j] = windows[j]),
         Count(k, ws), swept' \in Nat, UNCHANGED <<cfg, clock>>
  PROVE  LimiterInv'
<1>. USE LimiterAssumption, ConfigsAre DEF LimiterInv, LimiterTypeOK
<1>1. CASE Past(ws[k])
  <2>. DEFINE new == [key |-> k, at |-> clock, no |-> opened[k].no + 1, n |-> 1]
  <2>1. /\ windows' = [ws EXCEPT ![k] = [count |-> 1, reset |-> clock + cfg.windowMs]]
        /\ opened' = [opened EXCEPT ![k] = [no |-> opened[k].no + 1, at |-> clock]]
        /\ granted' = granted \cup {new}
    BY <1>1 DEF Count
  <2>2. LimiterTypeOK'
    BY <2>1 DEF Windows
  <2>3. opened[k].no = 0 \/ opened[k].at + MinWindow <= clock
    BY <1>1 DEF Past, WindowStands, Windows
  <2>4. WindowsInv'
    BY <2>1, <2>3 DEF WindowsInv, WindowStands, Windows
  <2>5. \A g \in granted' : GrantCounted(g, windows[g.key], opened[g.key])'
    <3>. TAKE g \in granted'
    <3>1. CASE g \in granted
      BY <2>1, <2>3, <3>1 DEF GrantsInv, GrantCounted, WindowsInv, Windows
    <3>2. CASE g = new
      BY <2>1, <2>3, <3>2 DEF GrantCounted, Windows
    <3>. QED
      BY <2>1, <3>1, <3>2
  <2>6. \A g, h \in granted' : g.key = h.key => GrantsApart(g, h)
    <3>. SUFFICES ASSUME NEW g \in granted', NEW h \in granted', g.key = h.key PROVE GrantsApart(g, h)
      OBVIOUS
    <3>1. CASE g \in granted /\ h \in granted
      BY <3>1 DEF GrantsInv
    <3>2. CASE g \in granted /\ h = new
      BY <2>1, <2>3, <3>2 DEF GrantsInv, GrantCounted, GrantsApart, WindowsInv
    <3>3. CASE g = new /\ h \in granted
      BY <2>1, <2>3, <3>3 DEF GrantsInv, GrantCounted, GrantsApart
    <3>4. CASE g = new /\ h = new
      BY <3>4 DEF GrantsApart
    <3>. QED
      BY <2>1, <3>1, <3>2, <3>3, <3>4
  <2>. QED
    BY <2>2, <2>4, <2>5, <2>6 DEF GrantsInv, GrantsApart
<1>2. CASE ~Past(ws[k]) /\ ws[k].count >= cfg.limit
  <2>1. windows' = ws /\ UNCHANGED <<opened, granted>>
    BY <1>2 DEF Count
  <2>. QED
    BY <2>1 DEF WindowsInv, WindowStands, GrantsInv, GrantCounted, GrantsApart, Windows
<1>3. CASE ~Past(ws[k]) /\ ~(ws[k].count >= cfg.limit)
  <2>. DEFINE new == [key |-> k, at |-> clock, no |-> opened[k].no, n |-> ws[k].count + 1]
  <2>1. /\ windows' = [ws EXCEPT ![k] = [count |-> ws[k].count + 1, reset |-> ws[k].reset]]
        /\ granted' = granted \cup {new} /\ UNCHANGED opened
    BY <1>3 DEF Count
  <2>2. ws[k] \in Windows /\ ws[k] = windows[k] /\ ws[k].count + 1 \in 1..MaxLimit
    BY <1>3 DEF Past, Windows
  <2>3. LimiterTypeOK'
    BY <2>1, <2>2 DEF Windows
  <2>4. WindowsInv'
    BY <2>1, <2>2 DEF WindowsInv, WindowStands, Windows
  <2>5. \A g \in granted' : GrantCounted(g, windows[g.key], opened[g.key])'
    <3>. TAKE g \in granted'
    <3>1. CASE g \in granted
      BY <2>1, <2>2, <3>1 DEF GrantsInv, GrantCounted, Windows
    <3>2. CASE g = new
      BY <2>1, <2>2, <3>2 DEF GrantCounted, Windows, WindowsInv
    <3>. QED
      BY <2>1, <3>1, <3>2
  <2>6. \A g, h \in granted' : g.key = h.key => GrantsApart(g, h)
    <3>. SUFFICES ASSUME NEW g \in granted', NEW h \in granted', g.key = h.key PROVE GrantsApart(g, h)
      OBVIOUS
    <3>1. CASE g \in granted /\ h \in granted
      BY <3>1 DEF GrantsInv
    <3>2. CASE g \in granted /\ h = new
      BY <2>1, <2>2, <3>2 DEF GrantsInv, GrantCounted, GrantsApart, WindowsInv, Windows
    <3>3. CASE g = new /\ h \in granted
      BY <2>1, <2>2, <3>3 DEF GrantsInv, GrantCounted, GrantsApart, Windows
    <3>4. CASE g = new /\ h = new
      BY <3>4 DEF GrantsApart
    <3>. QED
      BY <2>1, <3>1, <3>2, <3>3, <3>4
  <2>. QED
    BY <2>3, <2>4, <2>5, <2>6 DEF GrantsInv, GrantsApart
<1>. QED
  BY <1>1, <1>2, <1>3

LEMMA LimiterInvStep == LimiterInv /\ [LimiterNext]_limiterVars => LimiterInv'
<1>. SUFFICES ASSUME LimiterInv, [LimiterNext]_limiterVars PROVE LimiterInv'
  OBVIOUS
<1>1. /\ windows \in [Keys -> Windows \cup {NoWindow}]
      /\ \A j \in Keys : WindowStands(windows[j], opened[j])
  BY DEF LimiterInv, LimiterTypeOK, WindowsInv
<1>2. ASSUME NEW k \in Keys, TakeRateLimitToken(k) PROVE LimiterInv'
  <2>1. SweepRateLimits(windows) \in [Keys -> Windows \cup {NoWindow}]
    BY SweepIsSafe DEF SweepRateLimits
  <2>2. swept' \in Nat
    BY <1>2 DEF TakeRateLimitToken, LimiterInv, LimiterTypeOK
  <2>3. CASE Count(k, SweepRateLimits(windows))
    BY <1>2, <2>1, <2>2, <2>3, SweepIsSafe, CountIsSafe DEF TakeRateLimitToken
  <2>4. CASE Count(k, windows)
    BY <1>1, <1>2, <2>2, <2>4, CountIsSafe DEF TakeRateLimitToken
  <2>. QED
    BY <1>2, <2>3, <2>4 DEF TakeRateLimitToken
<1>3. ASSUME NEW k \in Keys, HitClientRateLimit(k) PROVE LimiterInv'
  BY <1>1, <1>3, CountIsSafe DEF HitClientRateLimit, LimiterInv, LimiterTypeOK
<1>4. ASSUME NEW c \in Configs, Reconfigure(c) PROVE LimiterInv'
  BY <1>4 DEF Reconfigure, LimiterInv, LimiterTypeOK, WindowsInv, WindowStands, GrantsInv,
              GrantCounted, GrantsApart
<1>5. CASE TimePasses
  BY <1>5, LimiterAssumption
  DEF TimePasses, LimiterInv, LimiterTypeOK, WindowsInv, WindowStands, GrantsInv,
      GrantCounted, GrantsApart, Windows
<1>6. CASE UNCHANGED limiterVars
  BY <1>6 DEF limiterVars, LimiterInv, LimiterTypeOK, WindowsInv, WindowStands, GrantsInv,
              GrantCounted, GrantsApart
<1>. QED
  BY <1>2, <1>3, <1>4, <1>5, <1>6 DEF LimiterNext

\* The grants of a span are of two windows at most, one after the other.
LEMMA TwoWindows ==
  ASSUME LimiterInv, NEW k \in Keys, NEW t \in Nat, Served(k, t) # {}
  PROVE  \E m \in Int : \A g \in Served(k, t) : g.no \in {m, m + 1}
<1>1. \A g \in Served(k, t) : g \in granted /\ g.key = k /\ g.no \in Nat /\ g.at \in Nat
                              /\ t <= g.at /\ g.at < t + MinWindow
  BY LimiterAssumption DEF Served, LimiterInv, LimiterTypeOK
<1>2. \A g, h \in Served(k, t) : g.no <= h.no + 1
  BY <1>1, LimiterAssumption DEF LimiterInv, GrantsInv, GrantsApart
<1>3. PICK s \in Served(k, t) : TRUE
  OBVIOUS
<1>4. CASE \E h \in Served(k, t) : h.no + 1 = s.no
  <2>1. PICK h \in Served(k, t) : h.no + 1 = s.no
    BY <1>4
  <2>2. \A g \in Served(k, t) : g.no \in {h.no, h.no + 1}
    BY <1>1, <1>2, <1>3, <2>1
  <2>. QED
    BY <1>1, <2>1, <2>2
<1>5. CASE ~\E h \in Served(k, t) : h.no + 1 = s.no
  <2>1. \A g \in Served(k, t) : g.no \in {s.no, s.no + 1}
    BY <1>1, <1>2, <1>3, <1>5
  <2>. QED
    BY <1>1, <1>3, <2>1
<1>. QED
  BY <1>4, <1>5

\* Placing the grants of the second window after those of the first numbers them.
LEMMA TwiceTheLimit ==
  ASSUME LimiterInv, NEW k \in Keys, NEW t \in Nat
  PROVE  Cardinality(Served(k, t)) <= 2 * MaxLimit
<1>1. CASE Served(k, t) = {}
  BY <1>1, FS_EmptySet, LimiterAssumption
<1>2. CASE Served(k, t) # {}
  <2>1. PICK m \in Int : \A g \in Served(k, t) : g.no \in {m, m + 1}
    BY <1>2, TwoWindows
  <2>. DEFINE S == Served(k, t)
              place == [g \in S |-> IF g.no = m THEN g.n ELSE g.n + MaxLimit]
  <2>2. \A g \in S : g \in granted /\ g.key = k /\ g.no \in Nat /\ g.n \in 1..MaxLimit
    BY DEF Served, LimiterInv, LimiterTypeOK
  <2>3. place \in [S -> 1..(2 * MaxLimit)]
    BY <2>2, LimiterAssumption
  <2>4. ASSUME NEW g \in S, NEW h \in S, place[g] = place[h] PROVE g = h
    <3>1. g.no = h.no /\ g.n = h.n
      BY <2>1, <2>2, <2>4, LimiterAssumption
    <3>. QED
      BY <2>2, <3>1 DEF LimiterInv, GrantsInv, GrantsApart
  <2>5. place \in Injection(S, 1..(2 * MaxLimit))
    BY <2>3, <2>4 DEF Injection, IsInjective
  <2>6. IsFiniteSet(1..(2 * MaxLimit)) /\ Cardinality(1..(2 * MaxLimit)) = 2 * MaxLimit
    BY FS_Interval, LimiterAssumption
  <2>. QED
    BY <2>5, <2>6, FS_Injection
<1>. QED
  BY <1>1, <1>2

\* Whatever is swept and reconfigured, in a span of the shortest window's length no key is
\* let through more often than twice the highest limit (server.cjs: takeRateLimitToken,
\* sweepRateLimits; api.js: hitClientRateLimit).
THEOREM LimitIsKept == LimiterSpec => []AtMostTwiceTheLimit
<1>1. LimiterInv => AtMostTwiceTheLimit
  BY TwiceTheLimit DEF AtMostTwiceTheLimit, LimiterInv, LimiterTypeOK
<1>. QED
  BY LimiterInvInit, LimiterInvStep, <1>1, PTL DEF LimiterSpec
-----------------------------------------------------------------------------
(* The connection to the database.  The invariant says whose each client is:  *)
(* one that is being made belongs to the attempt that makes it, alone, until  *)
(* it is the store's; so that an attempt that fails closes what nobody else   *)
(* has.                                                                       *)

Trying == {c \in Callers : caller[c].at \in {"dialling", "indexing", "closing"}}

\* A client under construction has been made, is not the store's, and is not another
\* attempt's nor any operation's.
OwnClients ==
  /\ client \notin unused
  /\ \A c \in Trying :
       /\ caller[c].with \in Clients \ unused /\ caller[c].with # client
       /\ \A d \in Callers \ {c} :
            d \in Trying \/ caller[d].at = "using" => caller[d].with # caller[c].with
  /\ \A c \in Callers : caller[c].at = "indexing" => caller[c].with \in open
  /\ \A c \in Callers : caller[c].at = "using" => caller[c].with \in Clients \ unused

ConnectionInv == ConnectionTypeOK /\ HandedOutIsOpen /\ OwnClients

LEMMA ConnectionInvInit == ConnectionInit => ConnectionInv
  BY ConnectionAssumption
  DEF ConnectionInit, ConnectionInv, ConnectionTypeOK, HandedOutIsOpen, OwnClients, Trying, Away

LEMMA ConnectionInvStep == ConnectionInv /\ [ConnectionNext]_connectionVars => ConnectionInv'
<1>. SUFFICES ASSUME ConnectionInv, [ConnectionNext]_connectionVars PROVE ConnectionInv'
  OBVIOUS
<1>. USE ConnectionAssumption
     DEF ConnectionInv, ConnectionTypeOK, HandedOutIsOpen, OwnClients, Trying, At, Away
<1>1. ASSUME NEW c \in Callers, Reuse(c) PROVE ConnectionInv'
  BY <1>1 DEF Reuse
<1>2. ASSUME NEW c \in Callers, Dial(c) PROVE ConnectionInv'
  BY <1>2 DEF Dial
<1>3. ASSUME NEW c \in Callers, Dialled(c) PROVE ConnectionInv'
  BY <1>3 DEF Dialled
<1>4. ASSUME NEW c \in Callers, Connected(c) PROVE ConnectionInv'
  BY <1>4 DEF Connected
<1>5. ASSUME NEW c \in Callers, Throws(c) PROVE ConnectionInv'
  BY <1>5 DEF Throws
<1>6. ASSUME NEW c \in Callers, Closed(c) PROVE ConnectionInv'
  BY <1>6 DEF Closed
<1>7. ASSUME NEW c \in Callers, Unavailable(c) PROVE ConnectionInv'
  BY <1>7 DEF Unavailable
<1>8. ASSUME NEW c \in Callers, Use(c) PROVE ConnectionInv'
  BY <1>8 DEF Use
<1>9. CASE UNCHANGED connectionVars
  BY <1>9 DEF connectionVars
<1>. QED
  BY <1>1, <1>2, <1>3, <1>4, <1>5, <1>6, <1>7, <1>8, <1>9 DEF ConnectionNext

\* However attempts to connect overlap, fail and clear each other's client, what an
\* operation is handed is open, and so is what the store holds (mongo.cjs: connect,
\* ensureConnected).
THEOREM ClientsStayOpen == ConnectionSpec => []HandedOutIsOpen
<1>1. ConnectionInv => HandedOutIsOpen
  BY DEF ConnectionInv
<1>. QED
  BY ConnectionInvInit, ConnectionInvStep, <1>1, PTL DEF ConnectionSpec
-----------------------------------------------------------------------------
(* The icon registry.  The invariant says how far a replacement that runs     *)
(* alone has got: all of its icons but those left to write are stored.        *)

WrittenSoFar(e) ==
  \A i \in Ids(editor[e].list) \ editor[e].left : stored[i] = editor[e].list[i]

RegistryInv ==
  /\ RegistryTypeOK
  /\ server # "up" => Editing = {}
  /\ \A e \in Editors : editor[e].at = "deleting" => editor[e].left = {}
  /\ intact = "alone" => \A e \in Editing : Editing = {e} /\ WrittenSoFar(e)
  /\ intact = "yes" => Editing = {} /\ (server = "up" => stored = cached)

LEMMA RegistryInvInit == RegistryInit => RegistryInv
  BY DEF RegistryInit, RegistryInv, RegistryTypeOK, Editing, NoEdit, Empty, Catalogs

LEMMA RegistryInvStep == RegistryInv /\ [RegistryNext]_registryVars => RegistryInv'
<1>. SUFFICES ASSUME RegistryInv, [RegistryNext]_registryVars PROVE RegistryInv'
  OBVIOUS
<1>. USE RegistryAssumption
     DEF RegistryInv, RegistryTypeOK, Editing, WrittenSoFar, Ids, NoEdit, Empty, Catalogs
<1>1. ASSUME NEW database \in {"up", "down"}, StartServer(database) PROVE RegistryInv'
  BY <1>1 DEF StartServer
<1>2. ASSUME NEW answer \in {"icons", "error"}, Load(answer) PROVE RegistryInv'
  BY <1>2 DEF Load
<1>3. ASSUME NEW written \in SUBSET Icons, Migrate(written) PROVE RegistryInv'
  BY <1>3 DEF Migrate
<1>4. CASE Die
  BY <1>4 DEF Die
<1>5. ASSUME NEW e \in Editors, NEW list \in Catalogs, Put(e, list) PROVE RegistryInv'
  <2>1. CASE server = "memory"
    BY <1>5, <2>1 DEF Put
  <2>2. CASE server = "up"
    <3>. DEFINE new == [at |-> IF Ids(list) = {} THEN "deleting" ELSE "writing",
                        list |-> list, left |-> Ids(list)]
    <3>1. editor' = [editor EXCEPT ![e] = new] /\ UNCHANGED <<server, stored, cached>>
      BY <1>5, <2>2 DEF Put
    <3>2. /\ new \in [at : {"idle", "writing", "deleting"}, list : Catalogs, left : SUBSET Icons]
          /\ new.at # "idle" /\ new.list = list /\ new.left = Ids(list)
          /\ new.at = "deleting" => new.left = {}
      OBVIOUS
    <3>. HIDE DEF new
    <3>3. (intact' = "alone" /\ Editing = {}) \/ intact' = "no"
      BY <1>5, <2>2 DEF Put
    <3>. QED
      BY <2>2, <3>1, <3>2, <3>3
  <2>. QED
    BY <1>5, <2>1, <2>2 DEF Put
<1>6. ASSUME NEW e \in Editors, ReplaceOne(e) PROVE RegistryInv'
  BY <1>6 DEF ReplaceOne
<1>7. ASSUME NEW e \in Editors, DeleteMany(e) PROVE RegistryInv'
  BY <1>7 DEF DeleteMany
<1>8. ASSUME NEW e \in Editors, Refused(e) PROVE RegistryInv'
  BY <1>8 DEF Refused
<1>9. CASE UNCHANGED registryVars
  BY <1>9 DEF registryVars
<1>. QED
  BY <1>1, <1>2, <1>3, <1>4, <1>5, <1>6, <1>7, <1>8, <1>9 DEF RegistryNext

\* After a replacement that ran alone and to its end, or a load, the collection holds what
\* is served, until the next edit: for any icons, catalogs and number of editors
\* (iconRegistryStore.cjs: load, save; db/mongo.cjs: the icon_registry collection).
THEOREM RestartsServeTheSame == RegistrySpec => []RestartServesTheSame
<1>1. RegistryInv => RestartServesTheSame
  BY DEF RegistryInv, RestartServesTheSame
<1>. QED
  BY RegistryInvInit, RegistryInvStep, <1>1, PTL DEF RegistrySpec
-----------------------------------------------------------------------------
(* The database editor.  While nothing has gone astray, one call at most is   *)
(* on its way, and it will find the page and the tool's selection as they     *)
(* were when it was made.                                                     *)

\* What the answer of a call is about is what the tool has selected and shows.
FindsItsPlace(call) ==
  /\ call.kind \in {"collections", "documents", "document", "insert"}
  /\ call.kind # "collections" => call.section = section
  /\ call.kind \in {"documents", "document"} => call.collection = selectedCollection
  /\ call.kind = "document" => call.id = selectedId /\ call.wrap = wrap

DeskInv ==
  astray = "no" =>
    /\ \A call \in calls : calls = {call} /\ FindsItsPlace(call)
    /\ calls = {} /\ saveButton = "yes" => editing = visible /\ visible.from = SaveTarget

\* Something is asked for: of a quiet page, it is all that is on its way.
LEMMA AskingIsSafe ==
  ASSUME NEW call, Ask(call), FindsItsPlace(call)'
  PROVE  DeskInv'
  BY DEF Ask, DeskInv

\* The only call is answered and followed by another one.
LEMMA FollowingIsSafe ==
  ASSUME DeskInv, UNCHANGED astray, NEW call \in calls, NEW next,
         calls' = (calls \ {call}) \cup {next},
         astray = "no" => FindsItsPlace(next)'
  PROVE  DeskInv'
  BY DEF DeskInv

LEMMA DeskInvInit == DeskInit => DeskInv
  BY DEF DeskInit, DeskInv, FindsItsPlace, NewCall

LEMMA DeskInvStep == DeskInv /\ [DeskNext]_deskVars => DeskInv'
<1>. SUFFICES ASSUME DeskInv, [DeskNext]_deskVars PROVE DeskInv'
  OBVIOUS
<1>. USE DEF FindsItsPlace, NewCall, SaveTarget, pageParts
<1>1. CASE ReloadCollections
  BY <1>1, AskingIsSafe DEF ReloadCollections
<1>2. CASE LoadDocs
  BY <1>2, AskingIsSafe DEF LoadDocs
<1>3. CASE CreateDocument
  BY <1>3, AskingIsSafe DEF CreateDocument
<1>4. CASE SaveDocument
  BY <1>4 DEF DeskInv, SaveDocument
<1>5. ASSUME NEW c \in Collections, ChooseCollection(c) PROVE DeskInv'
  BY <1>5 DEF DeskInv, ChooseCollection
<1>6. ASSUME NEW i \in DocIds, OpenDocument(i) PROVE DeskInv'
  BY <1>6, AskingIsSafe DEF OpenDocument
<1>7. ASSUME NEW call \in calls, CollectionsArrive(call) PROVE DeskInv'
  BY <1>7 DEF DeskInv, CollectionsArrive
<1>8. ASSUME NEW call \in calls, DocumentsArrive(call) PROVE DeskInv'
  BY <1>8 DEF DeskInv, DocumentsArrive
<1>9. ASSUME NEW call \in calls, DocumentArrives(call) PROVE DeskInv'
  BY <1>9 DEF DeskInv, DocumentArrives
<1>10. ASSUME NEW call \in calls, InsertArrives(call) PROVE DeskInv'
  <2>. PICK next : next = NewCall("documents", call.section, wrap, chosen[call.section],
                                  Unselected, "no")
    OBVIOUS
  <2>1. astray = "no" => FindsItsPlace(call)
    BY DEF DeskInv
  <2>2. astray = "no" => FindsItsPlace(next)'
    BY <1>10, <2>1 DEF InsertArrives
  <2>3. calls' = (calls \ {call}) \cup {next} /\ UNCHANGED astray
    BY <1>10 DEF InsertArrives
  <2>. QED
    BY <2>2, <2>3, FollowingIsSafe
<1>11. ASSUME NEW call \in calls, CallFails(call) PROVE DeskInv'
  BY <1>11 DEF DeskInv, CallFails
<1>12. ASSUME NEW write \in writes, NEW arrives \in {"yes", "no"}, WriteArrives(write, arrives)
       PROVE DeskInv'
  BY <1>12 DEF DeskInv, WriteArrives
<1>13. CASE UNCHANGED deskVars
  BY <1>13 DEF DeskInv, deskVars
<1>. QED
  BY <1>1, <1>2, <1>3, <1>4, <1>5, <1>6, <1>7, <1>8, <1>9, <1>10, <1>11, <1>12, <1>13
  DEF DeskNext

\* Whatever was mixed up before, an operation that was begun on a quiet page and did not
\* fail leaves a Save button that saves what is shown to where it came from: for any
\* collections and documents, and any number of calls (admin.js: renderDatabaseEditor).
THEOREM QuietDeskSaves == DeskSpec => []QuietDeskSavesWhatItShows
<1>1. DeskInv => QuietDeskSavesWhatItShows
  BY DEF DeskInv, QuietDeskSavesWhatItShows
<1>. QED
  BY DeskInvInit, DeskInvStep, <1>1, PTL DEF DeskSpec
-----------------------------------------------------------------------------
(* The card of an icon.  Every row has the index at which it stands, and an   *)
(* animation's options are those for its target.                              *)

RowTypes == {"outline", "vignette", "pulseUniform", "colorShift", "patternRotate", "slowSpin"}
CardRows == [tag : Nat, type : RowTypes, target : Targets, params : {0, 1, Wrong},
             enabled : SUBSET RowTypes]
WellGuided(row) ==
  Guidance(row.target) # <<>> =>
    row.enabled = GuidedTypes(row.target) /\ row.type \in row.enabled
RowsFor(list) == IF list = "effects" THEN CardRows ELSE {row \in CardRows : WellGuided(row)}
InPlace(list) == \A i \in DOMAIN list : list[i].tag = i

CardInv ==
  /\ DOMAIN rows = RowLists
  /\ \A list \in RowLists : rows[list] \in Seq(RowsFor(list)) /\ InPlace(rows[list])
  /\ text # NotJSON => IsStyle(text.style)

LEMMA RowEntriesAre == RowEntries = [type : RowTypes, target : Targets, params : {0, 1}]
<1>1. UNION {TypeOptions(list) : list \in RowLists} = RowTypes
  BY DEF TypeOptions, RowLists, RowTypes
<1>. QED
  BY <1>1 DEF RowEntries

LEMMA GuidanceOffers ==
  ASSUME NEW target
  PROVE  LET types == GuidedTypes(target) IN
         /\ types \subseteq RowTypes
         /\ types = {} <=> Guidance(target) = <<>>
         /\ types # {} => Guidance(target)[1] \in types
<1>1. CASE target = "pattern.rotationDeg"
  <2>1. Guidance(target) = <<"patternRotate", "slowSpin">>
    BY <1>1 DEF Guidance
  <2>2. GuidedTypes(target) = {"patternRotate", "slowSpin"}
    BY <2>1 DEF GuidedTypes
  <2>. QED
    BY <2>1, <2>2 DEF RowTypes
<1>2. CASE target = "palette.fill"
  <2>1. Guidance(target) = <<"colorShift">>
    BY <1>2 DEF Guidance
  <2>2. GuidedTypes(target) = {"colorShift"}
    BY <2>1 DEF GuidedTypes
  <2>. QED
    BY <2>1, <2>2 DEF RowTypes
<1>3. CASE target \notin {"pattern.rotationDeg", "palette.fill"}
  <2>1. Guidance(target) = <<>>
    BY <1>3 DEF Guidance
  <2>2. GuidedTypes(target) = {}
    BY <2>1 DEF GuidedTypes
  <2>. QED
    BY <2>1, <2>2
<1>. QED
  BY <1>1, <1>2, <1>3

LEMMA GuidingIsSafe ==
  ASSUME NEW row \in CardRows
  PROVE  /\ Guided(row) \in RowsFor("animations")
         /\ Guided(row).tag = row.tag /\ Guided(row).target = row.target
         /\ Guided(row).params = row.params
         /\ (Guidance(row.target) # <<>> => row.type \in GuidedTypes(row.target))
              => Guided(row).type = row.type
<1>1. CASE GuidedTypes(row.target) = {}
  BY <1>1, GuidanceOffers DEF Guided, RowsFor, CardRows, WellGuided, TypeOptions, RowTypes
<1>2. CASE GuidedTypes(row.target) # {}
  <2>1. /\ GuidedTypes(row.target) \subseteq RowTypes
        /\ Guidance(row.target)[1] \in GuidedTypes(row.target)
    BY <1>2, GuidanceOffers
  <2>. DEFINE types == GuidedTypes(row.target)
              type == IF row.type \in types THEN row.type ELSE Guidance(row.target)[1]
  <2>2. Guided(row) = [row EXCEPT !.enabled = types, !.type = type]
    BY <1>2 DEF Guided
  <2>3. types \in SUBSET RowTypes /\ type \in types /\ type \in RowTypes
        /\ (row.type \in types => type = row.type)
    BY <2>1
  <2>. HIDE DEF type
  <2>4. /\ Guided(row) \in CardRows /\ Guided(row).target = row.target
        /\ Guided(row).tag = row.tag /\ Guided(row).params = row.params
        /\ Guided(row).enabled = types /\ Guided(row).type = type
    BY <2>2, <2>3 DEF CardRows
  <2>. QED
    BY <1>2, <2>1, <2>3, <2>4, GuidanceOffers DEF RowsFor, WellGuided
<1>. QED
  BY <1>1, <1>2

LEMMA RowIsSafe ==
  ASSUME NEW list \in RowLists, NEW e \in RowEntries, NEW index \in Nat
  PROVE  /\ Row(list, e, index) \in RowsFor(list)
         /\ Row(list, e, index).tag = index
         /\ Row(list, e, index).target = e.target /\ Row(list, e, index).params = e.params
         /\ (list = "effects" \/ Guidance(e.target) = <<>> \/ e.type \in GuidedTypes(e.target))
              => Row(list, e, index).type = e.type
<1>. DEFINE row == [tag |-> index, type |-> e.type, target |-> e.target, params |-> e.params,
                    enabled |-> TypeOptions(list)]
<1>1. row \in CardRows
  BY RowEntriesAre DEF CardRows, TypeOptions, RowTypes
<1>2. /\ row.tag = index /\ row.type = e.type /\ row.target = e.target /\ row.params = e.params
      /\ Row(list, e, index) = IF list = "effects" THEN row ELSE Guided(row)
  BY DEF Row
<1>. HIDE DEF row
<1>. QED
  BY <1>1, <1>2, GuidingIsSafe DEF RowLists, RowsFor

LEMMA MadeSequence ==
  ASSUME NEW S, NEW n \in Nat, NEW s, s = [i \in 1..n |-> s[i]], \A i \in 1..n : s[i] \in S
  PROVE  s \in Seq(S) /\ Len(s) = n /\ DOMAIN s = 1..n
  OBVIOUS

LEMMA ReindexingIsSafe ==
  ASSUME NEW list \in RowLists, NEW s \in Seq(RowsFor(list))
  PROVE  Reindexed(s) \in Seq(RowsFor(list)) /\ InPlace(Reindexed(s))
<1>1. ASSUME NEW i \in 1..Len(s)
      PROVE  [s[i] EXCEPT !.tag = i] \in RowsFor(list) /\ [s[i] EXCEPT !.tag = i].tag = i
  <2>1. s[i] \in RowsFor(list) /\ s[i] \in CardRows
    BY DEF RowsFor
  <2>2. /\ [s[i] EXCEPT !.tag = i] \in CardRows /\ [s[i] EXCEPT !.tag = i].tag = i
        /\ [s[i] EXCEPT !.tag = i].type = s[i].type
        /\ [s[i] EXCEPT !.tag = i].target = s[i].target
        /\ [s[i] EXCEPT !.tag = i].enabled = s[i].enabled
    BY <2>1 DEF CardRows
  <2>. QED
    BY <2>1, <2>2 DEF RowsFor, WellGuided
<1>2. Reindexed(s) = [i \in 1..Len(s) |-> [s[i] EXCEPT !.tag = i]]
  BY DEF Reindexed
<1>. DEFINE r == Reindexed(s)
<1>3. /\ r = [i \in 1..Len(s) |-> r[i]]
      /\ \A i \in 1..Len(s) : r[i] \in RowsFor(list) /\ r[i].tag = i
  BY <1>1, <1>2
<1>. HIDE DEF r
<1>4. r \in Seq(RowsFor(list)) /\ DOMAIN r = 1..Len(s)
  BY <1>3, MadeSequence
<1>. QED
  BY <1>3, <1>4 DEF r, InPlace

LEMMA RowsOfAreSafe ==
  ASSUME NEW list \in RowLists, NEW entries \in Seq(RowEntries)
  PROVE  RowsOf(list, entries) \in Seq(RowsFor(list)) /\ InPlace(RowsOf(list, entries))
<1>1. \A i \in 1..Len(entries) : Row(list, entries[i], i) \in RowsFor(list)
                                 /\ Row(list, entries[i], i).tag = i
  BY RowIsSafe
<1>. QED
  BY <1>1 DEF RowsOf, InPlace

LEMMA ReadingIsSafe ==
  ASSUME CardInv, NEW list \in RowLists
  PROVE  /\ ReadStyle[list] \in Seq(RowEntries) /\ Len(ReadStyle[list]) = Len(rows[list])
         /\ \A i \in DOMAIN rows[list] : ReadStyle[list][i] = ShownRow(rows[list][i])
<1>1. ReadStyle[list] = ReadRows(list)
  BY DEF ReadStyle, DefaultStyle, RowLists
<1>2. \A i \in DOMAIN rows[list] : ReadRow(list, rows[list][i], i) = ShownRow(rows[list][i])
  BY DEF CardInv, InPlace, ReadRow, ShownRow
<1>3. rows[list] \in Seq(CardRows)
  <2>1. rows[list] \in Seq(RowsFor(list)) /\ RowsFor(list) \subseteq CardRows
    BY DEF CardInv, RowsFor
  <2>. QED
    BY <2>1
<1>4. \A row \in CardRows : ShownRow(row) \in RowEntries
  BY RowEntriesAre DEF ShownRow, CardRows, Wrong
<1>5. \A i \in 1..Len(rows[list]) : ReadRow(list, rows[list][i], i) \in RowEntries
  BY <1>2, <1>3, <1>4
<1>. QED
  BY <1>1, <1>2, <1>3, <1>5 DEF ReadRows


\* Of an icon as it is kept, the rows are made.
LEMMA ApplyingIsSafe ==
  ASSUME CardInv, NEW s, \A list \in RowLists : s[list] \in Seq(RowEntries), ApplyStyle(s)
  PROVE  /\ DOMAIN rows' = RowLists
         /\ \A list \in RowLists : rows'[list] \in Seq(RowsFor(list)) /\ InPlace(rows'[list])
<1>1. rows' = [list \in RowLists |-> RowsOf(list, s[list])]
  BY DEF ApplyStyle
<1>. QED
  BY <1>1, RowsOfAreSafe

LEMMA ResolvingIsSafe ==
  ASSUME NEW s, IsStyle(s)
  PROVE  /\ IsStyle(ResolveStyle(s))
         /\ \A list \in RowLists : ResolveStyle(s)[list] \in Seq(RowEntries)
<1>1. CASE s.v2 = "yes"
  BY <1>1 DEF ResolveStyle, IsStyle
<1>2. CASE s.v2 # "yes"
  <2>1. ResolveStyle(s) = [v2 |-> "yes", look |-> s.look, texture |-> 0,
                           effects |-> <<>>, animations |-> <<>>]
    BY <1>2 DEF ResolveStyle, DefaultStyle
  <2>2. <<>> \in Seq(RowEntries)
    OBVIOUS
  <2>. QED
    BY <2>1, <2>2 DEF IsStyle, RowLists
<1>. QED
  BY <1>1, <1>2

\* A preset is laid over what is read.
LEMMA PresetsSay ==
  ASSUME CardInv, NEW preset \in Presets
  PROVE  /\ \A list \in RowLists : Merge(ReadStyle, preset)[list] \in Seq(RowEntries)
         /\ \A list \in RowLists :
              preset[list] = Unsaid => Merge(ReadStyle, preset)[list] = ReadStyle[list]
         /\ preset.look = Unsaid => Merge(ReadStyle, preset).look = look
<1>. DEFINE merged == Merge(ReadStyle, preset)
<1>. DEFINE effects == ReadRows("effects")
            animations == ReadRows("animations")
<1>1. ReadStyle = [v2 |-> "yes", look |-> look, texture |-> 0, effects |-> effects,
                   animations |-> animations]
  <2>1. ReadStyle = [DefaultStyle EXCEPT !.look = look, !.effects = effects,
                                         !.animations = animations]
    BY DEF ReadStyle
  <2>. HIDE DEF effects, animations
  <2>. QED
    BY <2>1 DEF DefaultStyle
<1>. HIDE DEF effects, animations
<1>2. /\ \A list \in RowLists :
           merged[list] = IF preset[list] = Unsaid THEN ReadStyle[list] ELSE preset[list]
      /\ merged.look = IF preset.look = Unsaid THEN look ELSE preset.look
  BY <1>1 DEF Merge, RowLists
<1>. HIDE DEF merged
<1>3. \A list \in RowLists : ReadStyle[list] \in Seq(RowEntries)
  BY ReadingIsSafe
<1>4. \A list \in RowLists : merged[list] \in Seq(RowEntries)
  BY <1>2, <1>3, IconCardAssumption
<1>. QED
  BY <1>2, <1>4 DEF merged

\* The rows made anew of what the rows show, show it again.
LEMMA ReappliedShowsTheSame ==
  ASSUME CardInv, NEW list \in RowLists
  PROVE  LET reapplied == RowsOf(list, ReadStyle[list]) IN
         /\ Len(reapplied) = Len(rows[list])
         /\ \A i \in DOMAIN rows[list] : ShownRow(reapplied[i]) = ShownRow(rows[list][i])
<1>1. /\ ReadStyle[list] \in Seq(RowEntries) /\ Len(ReadStyle[list]) = Len(rows[list])
      /\ \A i \in DOMAIN rows[list] : ReadStyle[list][i] = ShownRow(rows[list][i])
  BY ReadingIsSafe
<1>2. rows[list] \in Seq(RowsFor(list))
  BY DEF CardInv
<1>3. /\ Len(RowsOf(list, ReadStyle[list])) = Len(rows[list])
      /\ \A i \in DOMAIN rows[list] :
           RowsOf(list, ReadStyle[list])[i] = Row(list, ShownRow(rows[list][i]), i)
  BY <1>1, <1>2 DEF RowsOf
<1>4. ASSUME NEW i \in DOMAIN rows[list]
      PROVE  ShownRow(Row(list, ShownRow(rows[list][i]), i)) = ShownRow(rows[list][i])
  <2>. DEFINE row == rows[list][i]
              e == ShownRow(row)
              anew == Row(list, e, i)
  <2>1. row \in RowsFor(list) /\ row \in CardRows /\ i \in Nat
    BY <1>2 DEF RowsFor
  <2>2. /\ e \in RowEntries /\ e.type = row.type /\ e.target = row.target
        /\ e = [type |-> e.type, target |-> e.target, params |-> e.params]
        /\ e.params \in {0, 1}
    BY <2>1, RowEntriesAre DEF ShownRow, CardRows, Wrong
  <2>3. list = "effects" \/ Guidance(e.target) = <<>> \/ e.type \in GuidedTypes(e.target)
    BY <2>1, <2>2 DEF RowsFor, WellGuided
  <2>. HIDE DEF e, row
  <2>4. anew.target = e.target /\ anew.params = e.params /\ anew.type = e.type
    BY <2>1, <2>2, <2>3, RowIsSafe
  <2>. HIDE DEF anew
  <2>5. ShownRow(anew) = e
    BY <2>2, <2>4 DEF ShownRow, Wrong
  <2>. QED
    BY <2>5 DEF anew, e, row
<1>. QED
  BY <1>3, <1>4

LEMMA CardInvInit == CardInit => CardInv
<1>. SUFFICES ASSUME CardInit PROVE CardInv
  OBVIOUS
<1>1. PICK icon \in Icons0 :
        /\ rows = [list \in RowLists |-> RowsOf(list, ResolveStyle(icon.style)[list])]
        /\ text = [id |-> icon.id, style |-> ResolveStyle(icon.style)]
  BY DEF CardInit
<1>2. /\ IsStyle(text.style)
      /\ \A list \in RowLists : ResolveStyle(icon.style)[list] \in Seq(RowEntries)
  BY <1>1, ResolvingIsSafe, IconCardAssumption
<1>. QED
  BY <1>1, <1>2, RowsOfAreSafe DEF CardInv

\* What is put in place of one list, safe as it is, leaves the card safe.
LEMMA SettingIsSafe ==
  ASSUME CardInv, NEW list \in RowLists, NEW new \in Seq(RowsFor(list)), InPlace(new),
         SetRows(list, new)
  PROVE  CardInv'
<1>1. rows' = [rows EXCEPT ![list] = new] /\ text' = text
  BY DEF SetRows
<1>2. /\ DOMAIN rows' = RowLists /\ rows'[list] = new
      /\ \A l \in RowLists \ {list} : rows'[l] = rows[l]
  BY <1>1 DEF CardInv
<1>3. \A l \in RowLists : rows'[l] \in Seq(RowsFor(l)) /\ InPlace(rows'[l])
  BY <1>2 DEF CardInv
<1>. QED
  BY <1>1, <1>2, <1>3 DEF CardInv

LEMMA RowOfCard ==
  ASSUME CardInv, NEW list \in RowLists, NEW i \in DOMAIN rows[list]
  PROVE  /\ rows[list][i] \in RowsFor(list) /\ rows[list][i] \in CardRows
         /\ rows[list][i].tag = i
<1>1. rows[list] \in Seq(RowsFor(list)) /\ InPlace(rows[list])
  BY DEF CardInv
<1>2. rows[list][i] \in RowsFor(list) /\ rows[list][i].tag = i
  BY <1>1 DEF InPlace
<1>. QED
  BY <1>2 DEF RowsFor

\* A row changed where it stands, to one that has its index and is safe.
LEMMA ChangingIsSafe ==
  ASSUME CardInv, NEW list \in RowLists, NEW i \in DOMAIN rows[list], NEW row \in RowsFor(list),
         row.tag = i, SetRows(list, [rows[list] EXCEPT ![i] = row])
  PROVE  CardInv'
<1>. DEFINE new == [rows[list] EXCEPT ![i] = row]
<1>1. rows[list] \in Seq(RowsFor(list)) /\ InPlace(rows[list])
  BY DEF CardInv
<1>2. new \in Seq(RowsFor(list)) /\ InPlace(new)
  BY <1>1 DEF InPlace
<1>. QED
  BY <1>2, SettingIsSafe

LEMMA CardInvStep == CardInv /\ [CardNext]_cardVars => CardInv'
<1>. SUFFICES ASSUME CardInv, [CardNext]_cardVars PROVE CardInv'
  OBVIOUS
<1>1. CASE UNCHANGED <<rows, text>>
  BY <1>1 DEF CardInv, InPlace
<1>2. ASSUME NEW list \in RowLists, AddRow(list) PROVE CardInv'
  <2>1. NewEntry(list) \in RowEntries
    BY RowEntriesAre DEF NewEntry, RowTypes, Targets
  <2>2. rows[list] \in Seq(RowsFor(list))
    BY DEF CardInv
  <2>3. Len(rows[list]) + 1 \in Nat
    BY <2>2
  <2>4. Row(list, NewEntry(list), Len(rows[list]) + 1) \in RowsFor(list)
    BY <2>1, <2>3, RowIsSafe
  <2>5. Append(rows[list], Row(list, NewEntry(list), Len(rows[list]) + 1)) \in Seq(RowsFor(list))
    BY <2>2, <2>4
  <2>. QED
    BY <1>2, <2>5, ReindexingIsSafe, SettingIsSafe DEF AddRow
<1>3. ASSUME NEW list \in RowLists, NEW i \in DOMAIN rows[list], RemoveRow(list, i)
      PROVE  CardInv'
  <2>1. rows[list] \in Seq(RowsFor(list))
    BY DEF CardInv
  <2>. DEFINE new == Without(rows[list], i)
  <2>2. /\ Len(rows[list]) - 1 \in Nat
        /\ new = [j \in 1..(Len(rows[list]) - 1) |-> new[j]]
        /\ \A j \in 1..(Len(rows[list]) - 1) : new[j] \in RowsFor(list)
    BY <2>1 DEF Without
  <2>. HIDE DEF new
  <2>3. new \in Seq(RowsFor(list))
    BY <2>2, MadeSequence
  <2>. QED
    BY <1>3, <2>3, ReindexingIsSafe, SettingIsSafe DEF RemoveRow, new
<1>4. ASSUME NEW list \in RowLists, NEW i \in DOMAIN rows[list], NEW j \in {i - 1, i + 1},
             MoveRow(list, i, j)
      PROVE  CardInv'
  <2>1. rows[list] \in Seq(RowsFor(list)) /\ j \in DOMAIN rows[list]
    BY <1>4 DEF CardInv, MoveRow
  <2>2. [rows[list] EXCEPT ![i] = rows[list][j], ![j] = rows[list][i]] \in Seq(RowsFor(list))
    BY <2>1
  <2>. QED
    BY <1>4, <2>2, ReindexingIsSafe, SettingIsSafe DEF MoveRow
<1>5. ASSUME NEW list \in RowLists, NEW i \in DOMAIN rows[list], NEW type \in TypeOptions(list),
             ChooseType(list, i, type)
      PROVE  CardInv'
  <2>1. /\ rows[list][i] \in RowsFor(list) /\ rows[list][i] \in CardRows
        /\ rows[list][i].tag = i /\ type \in rows[list][i].enabled
    BY <1>5, RowOfCard DEF ChooseType
  <2>. DEFINE row == [rows[list][i] EXCEPT !.type = type]
  <2>2. /\ row \in CardRows /\ row.tag = i /\ row.type = type
        /\ row.target = rows[list][i].target /\ row.enabled = rows[list][i].enabled
    BY <2>1 DEF CardRows
  <2>3. SetRows(list, [rows[list] EXCEPT ![i] = row])
    BY <1>5 DEF ChooseType
  <2>. HIDE DEF row
  <2>4. row \in RowsFor(list)
    BY <2>1, <2>2 DEF RowsFor, WellGuided
  <2>. QED
    BY <2>2, <2>3, <2>4, ChangingIsSafe
<1>6. ASSUME NEW list \in RowLists, NEW i \in DOMAIN rows[list], NEW params \in {0, 1, Wrong},
             TypeParams(list, i, params)
      PROVE  CardInv'
  <2>1. /\ rows[list][i] \in RowsFor(list) /\ rows[list][i] \in CardRows
        /\ rows[list][i].tag = i
    BY RowOfCard
  <2>. DEFINE row == [rows[list][i] EXCEPT !.params = params]
  <2>2. /\ row \in CardRows /\ row.tag = i /\ row.type = rows[list][i].type
        /\ row.target = rows[list][i].target /\ row.enabled = rows[list][i].enabled
    BY <2>1 DEF CardRows
  <2>3. SetRows(list, [rows[list] EXCEPT ![i] = row])
    BY <1>6 DEF TypeParams
  <2>. HIDE DEF row
  <2>4. row \in RowsFor(list)
    BY <2>1, <2>2 DEF RowsFor, WellGuided
  <2>. QED
    BY <2>2, <2>3, <2>4, ChangingIsSafe
<1>7. ASSUME NEW i \in DOMAIN rows["animations"], NEW target \in Targets, TypeTarget(i, target)
      PROVE  CardInv'
  <2>1. /\ rows["animations"][i] \in CardRows /\ rows["animations"][i].tag = i
    BY DEF CardInv, InPlace, RowsFor, RowLists
  <2>. DEFINE aimed == [rows["animations"][i] EXCEPT !.target = target]
              row == Guided(aimed)
  <2>2. aimed \in CardRows /\ aimed.tag = i
    BY <2>1 DEF CardRows
  <2>3. row \in RowsFor("animations") /\ row.tag = i
    BY <2>2, GuidingIsSafe
  <2>4. SetRows("animations", [rows["animations"] EXCEPT ![i] = row])
    BY <1>7 DEF TypeTarget
  <2>. HIDE DEF row
  <2>. QED
    BY <2>3, <2>4, ChangingIsSafe DEF RowLists
<1>8. ASSUME NEW t \in Texts, TypeText(t) PROVE CardInv'
  BY <1>8, IconCardAssumption DEF TypeText, CardInv, InPlace
<1>9. ASSUME NEW preset \in Presets, ApplyPreset(preset) PROVE CardInv'
  <2>1. \A list \in RowLists : Merge(ReadStyle, preset)[list] \in Seq(RowEntries)
    BY PresetsSay
  <2>2. ApplyStyle(Merge(ReadStyle, preset)) /\ text' = text
    BY <1>9 DEF ApplyPreset
  <2>. QED
    BY <2>1, <2>2, ApplyingIsSafe DEF CardInv
<1>10. ASSUME ApplyJson PROVE CardInv'
  <2>1. IsStyle(text.style) /\ ApplyStyle(ResolveStyle(text.style)) /\ text' = text
    BY <1>10 DEF ApplyJson, CardInv
  <2>. QED
    BY <2>1, ApplyingIsSafe, ResolvingIsSafe DEF CardInv
<1>11. ASSUME NEW given, NEW l, TypeField(given, l) PROVE CardInv'
  BY <1>1, <1>11 DEF TypeField
<1>. QED
  BY <1>1, <1>2, <1>3, <1>4, <1>5, <1>6, <1>7, <1>8, <1>9, <1>10, <1>11
     DEF CardNext, Change, cardVars

\* However rows were added, removed, moved and replaced, reading a card gives what its rows
\* show, for any icons, presets and texts, and any number of rows and changes
\* (icon/modules/editor.js: readIconDefinition, reindexRows, updateAnimationGuidance).
THEOREM CardsReadAsShown == CardSpec => []CardReadsAsShown
<1>1. CardInv => CardReadsAsShown
  <2>. SUFFICES ASSUME CardInv PROVE CardReadsAsShown
    OBVIOUS
  <2>1. \A i \in DOMAIN rows["animations"] : WellGuided(rows["animations"][i])
    BY DEF CardInv, RowsFor, RowLists
  <2>. QED
    BY <2>1, ReadingIsSafe DEF CardReadsAsShown, WellGuided
<1>. QED
  BY CardInvInit, CardInvStep, <1>1, PTL DEF CardSpec

\* A preset that is applied changes what it says and leaves the rest as the operator had it
\* (icon/modules/editor.js: applyPresetToCard).
THEOREM PresetsKeep == CardSpec => PresetsKeepTheRest
<1>. DEFINE Kept(preset) ==
       /\ preset.look = Unsaid => look' = look
       /\ \A list \in RowLists : preset[list] = Unsaid =>
            /\ Len(rows'[list]) = Len(rows[list])
            /\ \A i \in DOMAIN rows[list] : ShownRow(rows'[list][i]) = ShownRow(rows[list][i])
<1>1. ASSUME CardInv, NEW preset \in Presets, ApplyPreset(preset) PROVE Kept(preset)
  <2>1. look' = Merge(ReadStyle, preset).look
        /\ rows' = [list \in RowLists |-> RowsOf(list, Merge(ReadStyle, preset)[list])]
    BY <1>1 DEF ApplyPreset, ApplyStyle
  <2>2. preset.look = Unsaid => look' = look
    BY <1>1, <2>1, PresetsSay
  <2>3. ASSUME NEW list \in RowLists, preset[list] = Unsaid
        PROVE  /\ Len(rows'[list]) = Len(rows[list])
               /\ \A i \in DOMAIN rows[list] : ShownRow(rows'[list][i]) = ShownRow(rows[list][i])
    <3>1. rows'[list] = RowsOf(list, ReadStyle[list])
      BY <1>1, <2>1, <2>3, PresetsSay
    <3>. QED
      BY <1>1, <3>1, ReappliedShowsTheSame
  <2>. QED
    BY <2>2, <2>3
<1>2. CardInv => [\A preset \in Presets : ApplyPreset(preset) => Kept(preset)]_cardVars
  BY <1>1
<1>. QED
  BY CardInvInit, CardInvStep, <1>2, PTL DEF CardSpec, PresetsKeepTheRest
-----------------------------------------------------------------------------
(* The replay browser.  While a run is loaded, its game is as far as the      *)
(* recording was unless it was restarted, is over only at the end of the      *)
(* recording, and has drawn no more numbers than its tape has; and what is    *)
(* fetched is fetched for the selected entry, unless selections crossed.      *)

Fetching ==
  \A f \in fetches :
    /\ f = [kind |-> f.kind, n |-> f.n, entry |-> f.entry, answer |-> f.answer]
    /\ f.kind = "run" => f.entry \in Runs /\ (crossed = "no" => entry = f.entry)
    /\ f.kind = "list" => f.answer = NotYet \/ f.answer \subseteq Runs
    /\ f.kind \in {"run", "list"}

Unloaded == playing = "no" /\ controls = "disabled" /\ restore = NoRun /\ worn = Own

GameSet ==
  /\ run[1] \in Recorded
  /\ source = run /\ worn = run /\ gameCfg = (IF run[1] \in Snapshot THEN run ELSE Own)
  /\ restore = Own

TapeHolds ==
  /\ tickIndex \in Nat /\ tickIndex <= Total
  /\ drawn \in Nat /\ (run[1] \in Taped => drawn <= Total + 1)
  /\ over \in {"yes", "no"} /\ again \in {"yes", "no"}
  /\ again = "no" => drawn = tickIndex + 1
  /\ again = "no" /\ over = "yes" => tickIndex = Total

BrowserInv ==
  /\ listedRuns \subseteq Runs
  /\ Fetching
  /\ late \in Nat \cup {NotYet} /\ speed \in Speeds /\ waiting \in Nat
  /\ playing \in {"yes", "no"} /\ controls \in {"enabled", "disabled"}
  /\ (run = NoRun /\ Unloaded) \/ (GameSet /\ TapeHolds)
  /\ KeepsPlaying
  /\ ReadyIsLoaded

LEMMA RunsAre == \A e \in Runs : e[1] \in Recorded
  BY DEF Runs

LEMMA LengthOfRun == ASSUME GameSet PROVE Total \in Nat /\ Total > 0
  BY BrowserAssumption DEF GameSet, Total

\* However the ticks of a frame go, the game stays within its recording and its tape.
LEMMA OutcomesHold ==
  ASSUME GameSet, TapeHolds, NEW n \in Nat, tickIndex + n <= Total, NEW o \in Outcomes(n)
  PROVE  /\ o.ticks \in Nat /\ tickIndex + o.ticks <= Total
         /\ o.drawn \in Nat /\ (run[1] \in Taped => drawn + o.drawn <= Total + 1)
         /\ o.over \in {"yes", "no"} /\ o.throws \in {"yes", "no"}
         /\ again = "no" => drawn + o.drawn = tickIndex + o.ticks + 1
         /\ again = "no" /\ o.over = "yes" => tickIndex + o.ticks = Total
         /\ o.throws = "yes" => again = "yes" /\ run[1] \in Taped /\ drawn + o.drawn > Total
<1>1. Total \in Nat
  BY LengthOfRun
<1>2. CASE over = "yes"
  <2>1. o = [ticks |-> IF n > 0 THEN 1 ELSE 0, drawn |-> 0, over |-> "yes", throws |-> "no"]
    BY <1>2 DEF Outcomes
  <2>. QED
    BY <1>1, <1>2, <2>1 DEF TapeHolds
<1>3. CASE over # "yes" /\ again = "no"
  <2>1. o = [ticks |-> n, drawn |-> n, over |-> IF tickIndex + n = Total THEN "yes" ELSE "no",
             throws |-> "no"]
    BY <1>3 DEF Outcomes
  <2>. QED
    BY <1>1, <1>3, <2>1 DEF TapeHolds
<1>4. CASE over # "yes" /\ again # "no"
  <2>. DEFINE left == IF run[1] \notin Taped \/ drawn + n <= Total + 1 THEN n
                      ELSE Total + 1 - drawn
  <2>1. left \in Nat /\ left <= n /\ (run[1] \in Taped => drawn + left <= Total + 1)
        /\ (left < n => run[1] \in Taped /\ drawn + left > Total)
    BY <1>1 DEF TapeHolds
  <2>2. \/ \E m \in 1..left : o = [ticks |-> m, drawn |-> m, over |-> "yes", throws |-> "no"]
        \/ o = [ticks |-> left, drawn |-> left, over |-> "no",
                throws |-> IF left < n THEN "yes" ELSE "no"]
    BY <1>4 DEF Outcomes
  <2>. HIDE DEF left
  <2>3. CASE \E m \in 1..left : o = [ticks |-> m, drawn |-> m, over |-> "yes", throws |-> "no"]
    BY <1>1, <1>4, <2>1, <2>3 DEF TapeHolds
  <2>4. CASE o = [ticks |-> left, drawn |-> left, over |-> "no",
                  throws |-> IF left < n THEN "yes" ELSE "no"]
    BY <1>1, <1>4, <2>1, <2>4 DEF TapeHolds
  <2>. QED
    BY <2>2, <2>3, <2>4
<1>. QED
  BY <1>2, <1>3, <1>4

LEMMA BrowserInvInit == BrowserInit => BrowserInv
<1>. SUFFICES ASSUME BrowserInit PROVE BrowserInv
  OBVIOUS
<1>1. Fetching
  <2>. DEFINE g == [kind |-> "list", n |-> 0, entry |-> NoRun, answer |-> NotYet]
  <2>1. /\ g = [kind |-> g.kind, n |-> g.n, entry |-> g.entry, answer |-> g.answer]
        /\ g.kind = "list" /\ g.answer = NotYet
    OBVIOUS
  <2>. HIDE DEF g
  <2>2. fetches = {g}
    BY DEF BrowserInit, g
  <2>. QED
    BY <2>1, <2>2 DEF Fetching
<1>2. KeepsPlaying /\ ReadyIsLoaded
  BY DEF BrowserInit, KeepsPlaying, ReadyIsLoaded, Says
<1>. QED
  BY <1>1, <1>2 DEF BrowserInit, BrowserInv, Unloaded, Speeds

\* A run that is loaded, and said to be ready.
LEMMA ReadyIsSafe ==
  ASSUME BrowserInv, NEW e \in Runs, NEW v, Ready(e, <<e[1], v>>)
  PROVE  /\ GameSet' /\ TapeHolds' /\ KeepsPlaying' /\ playing' = "no"
         /\ late' = NotYet /\ speed' = speed /\ waiting' = waiting
         /\ notice'.says = "ready" /\ notice'.of = e
         /\ details' = [entry |-> e, run |-> run'] /\ run'[1] = e[1] /\ controls' = "enabled"
<1>. DEFINE r == <<e[1], v>>
<1>1. r[1] = e[1] /\ e[1] \in Recorded
  BY RunsAre
<1>. HIDE DEF r
<1>2. /\ run' = r /\ playing' = "no" /\ tickIndex' = 0 /\ late' = NotYet
      /\ restore' = Undressed /\ worn' = r
      /\ gameCfg' = IF r[1] \in Snapshot THEN r ELSE Own
      /\ source' = r /\ drawn' = 1 /\ over' = "no" /\ again' = "no"
      /\ speed' = speed /\ waiting' = waiting
      /\ details' = [entry |-> e, run |-> r] /\ notice' = [says |-> "ready", of |-> e]
      /\ controls' = "enabled"
  BY DEF r, Ready, LoadRun, SourceOf, Says
<1>3. Undressed = Own
  BY BrowserAssumption DEF BrowserInv, Unloaded, GameSet, Undressed
<1>4. GameSet'
  BY <1>1, <1>2, <1>3 DEF GameSet
<1>5. TotalTicks[r[1]] \in Nat
  BY <1>1, BrowserAssumption
<1>6. TapeHolds'
  BY <1>2, <1>5 DEF TapeHolds, Total
<1>. QED
  BY <1>1, <1>2, <1>4, <1>6 DEF KeepsPlaying

\* The rest of the browser: what is loaded and played stays as it is.
LEMMA SamePlayed ==
  ASSUME BrowserInv, UNCHANGED <<playerVars, controls>>
  PROVE  /\ KeepsPlaying'
         /\ (run' = NoRun /\ Unloaded') \/ (GameSet' /\ TapeHolds')
         /\ late' \in Nat \cup {NotYet} /\ speed' \in Speeds /\ waiting' \in Nat
         /\ playing' \in {"yes", "no"}
<1>1. /\ run' = run /\ tickIndex' = tickIndex /\ playing' = playing /\ speed' = speed
      /\ late' = late /\ waiting' = waiting /\ restore' = restore /\ worn' = worn
      /\ gameCfg' = gameCfg /\ over' = over /\ source' = source /\ drawn' = drawn
      /\ again' = again /\ controls' = controls
  BY DEF playerVars, gameVars
<1>2. KeepsPlaying' = KeepsPlaying /\ Unloaded' = Unloaded /\ GameSet' = GameSet
      /\ TapeHolds' = TapeHolds
  BY <1>1 DEF KeepsPlaying, TapeIsOut, Total, Unloaded, GameSet, TapeHolds
<1>. QED
  BY <1>1, <1>2 DEF BrowserInv

LEMMA SameList ==
  ASSUME BrowserInv, UNCHANGED listVars
  PROVE  /\ listedRuns' \subseteq Runs /\ Fetching' /\ controls' = controls
         /\ controls' \in {"enabled", "disabled"}
         /\ run' = run => ReadyIsLoaded'
<1>1. /\ listedRuns' = listedRuns /\ entry' = entry /\ details' = details /\ notice' = notice
      /\ controls' = controls /\ fetches' = fetches /\ crossed' = crossed
  BY DEF listVars
<1>. QED
  BY <1>1 DEF BrowserInv, Fetching, ReadyIsLoaded, Enabled

LEMMA ListStep ==
  ASSUME BrowserInv,
         \/ \E u \in Recorded : NewBestRun(u)
         \/ \E f \in fetches : ServeFetch(f) \/ ListArrives(f) \/ FetchFails(f)
         \/ ReloadList
  PROVE  BrowserInv'
<1>1. ASSUME NEW u \in Recorded, NewBestRun(u) PROVE BrowserInv'
  <2>1. /\ UNCHANGED playerVars /\ listedRuns' = listedRuns /\ entry' = entry
        /\ details' = details /\ notice' = notice /\ controls' = controls
        /\ fetches' = fetches /\ crossed' = crossed
    BY <1>1 DEF NewBestRun
  <2>2. run' = run
    BY <2>1 DEF playerVars, gameVars
  <2>3. Fetching' /\ ReadyIsLoaded'
    BY <2>1, <2>2 DEF BrowserInv, Fetching, ReadyIsLoaded, Enabled
  <2>. QED
    BY <2>1, <2>3, SamePlayed DEF BrowserInv
<1>2. ASSUME NEW f \in fetches, ServeFetch(f) PROVE BrowserInv'
  <2>1. /\ UNCHANGED playerVars /\ listedRuns' = listedRuns /\ entry' = entry
        /\ details' = details /\ notice' = notice /\ controls' = controls /\ crossed' = crossed
    BY <1>2 DEF ServeFetch
  <2>2. PICK answer : /\ fetches' = (fetches \ {f}) \cup {[f EXCEPT !.answer = answer]}
                      /\ f.kind # "run" => answer \subseteq Runs
    BY <1>2 DEF ServeFetch
  <2>3. f = [kind |-> f.kind, n |-> f.n, entry |-> f.entry, answer |-> f.answer]
    BY DEF BrowserInv, Fetching
  <2>. DEFINE g == [f EXCEPT !.answer = answer]
  <2>4. g = [kind |-> f.kind, n |-> f.n, entry |-> f.entry, answer |-> answer]
    BY <2>3
  <2>5. /\ g = [kind |-> g.kind, n |-> g.n, entry |-> g.entry, answer |-> g.answer]
        /\ g.kind = f.kind /\ g.entry = f.entry /\ g.answer = answer
    BY <2>4
  <2>. HIDE DEF g
  <2>6. fetches' = (fetches \ {f}) \cup {g}
    BY <2>2 DEF g
  <2>7. Fetching'
    BY <2>1, <2>2, <2>5, <2>6 DEF BrowserInv, Fetching
  <2>8. run' = run
    BY <2>1 DEF playerVars, gameVars
  <2>9. ReadyIsLoaded'
    BY <2>1, <2>8 DEF BrowserInv, ReadyIsLoaded, Enabled
  <2>. QED
    BY <2>1, <2>7, <2>9, SamePlayed DEF BrowserInv
<1>3. ASSUME NEW f \in fetches, ListArrives(f) PROVE BrowserInv'
  <2>1. /\ UNCHANGED playerVars /\ listedRuns' = f.answer /\ entry' = entry
        /\ controls' = controls /\ crossed' = crossed /\ fetches' = fetches \ {f}
        /\ notice' \in {Says("nothing saved", NoRun), Says("select", NoRun)}
        /\ f.kind = "list" /\ f.answer # NotYet
    BY <1>3 DEF ListArrives
  <2>2. Fetching'
    BY <2>1 DEF BrowserInv, Fetching
  <2>3. f.answer \subseteq Runs /\ listedRuns' = f.answer
    BY <2>1 DEF BrowserInv, Fetching
  <2>4. notice'.says # "ready"
    <3>1. CASE notice' = Says("nothing saved", NoRun)
      BY <3>1 DEF Says
    <3>2. CASE notice' = Says("select", NoRun)
      BY <3>2 DEF Says
    <3>. QED
      BY <2>1, <3>1, <3>2
  <2>5. ReadyIsLoaded'
    BY <2>4 DEF ReadyIsLoaded
  <2>. QED
    BY <2>1, <2>2, <2>3, <2>5, SamePlayed DEF BrowserInv
<1>4. ASSUME NEW f \in fetches, FetchFails(f) PROVE BrowserInv'
  <2>1. /\ UNCHANGED playerVars /\ listedRuns' = listedRuns /\ entry' = entry
        /\ details' = details /\ (notice' = notice \/ notice'.says # "ready")
        /\ controls' = controls /\ crossed' = crossed /\ fetches' = fetches \ {f}
    BY <1>4 DEF FetchFails, Says
  <2>2. Fetching'
    BY <2>1 DEF BrowserInv, Fetching
  <2>3. run' = run
    BY <2>1 DEF playerVars, gameVars
  <2>4. ReadyIsLoaded'
    BY <2>1, <2>3 DEF BrowserInv, ReadyIsLoaded, Enabled
  <2>. QED
    BY <2>1, <2>2, <2>4, SamePlayed DEF BrowserInv
<1>5. ASSUME ReloadList PROVE BrowserInv'
  <2>. DEFINE g == [kind |-> "list", n |-> fetched + 1, entry |-> NoRun, answer |-> NotYet]
  <2>1. /\ UNCHANGED playerVars /\ listedRuns' = listedRuns /\ entry' = entry
        /\ details' = details /\ notice'.says # "ready"
        /\ controls' = "disabled" /\ crossed' = crossed /\ fetches' = fetches \cup {g}
    BY <1>5 DEF ReloadList, Fetch, Says
  <2>2. /\ g = [kind |-> g.kind, n |-> g.n, entry |-> g.entry, answer |-> g.answer]
        /\ g.kind = "list" /\ g.answer = NotYet
    OBVIOUS
  <2>. HIDE DEF g
  <2>3. Fetching'
    BY <2>1, <2>2 DEF BrowserInv, Fetching
  <2>4. ReadyIsLoaded'
    BY <2>1 DEF ReadyIsLoaded
  <2>5. /\ run' = run /\ tickIndex' = tickIndex /\ playing' = playing /\ speed' = speed
        /\ late' = late /\ waiting' = waiting /\ restore' = restore /\ worn' = worn
        /\ gameCfg' = gameCfg /\ over' = over /\ source' = source /\ drawn' = drawn
        /\ again' = again
    BY <2>1 DEF playerVars, gameVars
  <2>6. KeepsPlaying' = KeepsPlaying /\ GameSet' = GameSet /\ TapeHolds' = TapeHolds
    BY <2>5 DEF KeepsPlaying, TapeIsOut, Total, GameSet, TapeHolds
  <2>7. Unloaded => Unloaded'
    BY <2>1, <2>5 DEF Unloaded
  <2>. QED
    BY <2>1, <2>3, <2>4, <2>5, <2>6, <2>7 DEF BrowserInv
<1>. QED
  BY <1>1, <1>2, <1>3, <1>4, <1>5

LEMMA SelectionStep ==
  ASSUME BrowserInv,
         \/ \E e \in listedRuns : HandleSelect(e)
         \/ \E f \in fetches : RunArrives(f)
  PROVE  BrowserInv'
<1>1. ASSUME NEW e \in listedRuns, HandleSelect(e) PROVE BrowserInv'
  <2>1. /\ entry' = e /\ listedRuns' = listedRuns /\ e \in Runs
        /\ crossed' = IF \E f \in fetches : f.kind = "run" THEN "yes" ELSE "no"
    BY <1>1 DEF HandleSelect, BrowserInv
  <2>2. CASE runCache[e[1]] # NoRun
    <3>1. Ready(e, <<e[1], runCache[e[1]]>>) /\ fetches' = fetches
      BY <1>1, <2>2 DEF HandleSelect
    <3>2. Fetching'
      BY <2>1, <3>1 DEF BrowserInv, Fetching
    <3>3. /\ GameSet' /\ TapeHolds' /\ KeepsPlaying' /\ playing' = "no"
          /\ late' = NotYet /\ speed' = speed /\ waiting' = waiting
          /\ notice'.says = "ready" /\ notice'.of = e
          /\ details' = [entry |-> e, run |-> run'] /\ run'[1] = e[1] /\ controls' = "enabled"
      BY <2>1, <3>1, ReadyIsSafe
    <3>4. ReadyIsLoaded'
      BY <2>1, <3>3 DEF ReadyIsLoaded, Enabled
    <3>. QED
      BY <2>1, <3>2, <3>3, <3>4 DEF BrowserInv
  <2>3. CASE runCache[e[1]] = NoRun
    <3>. DEFINE g == [kind |-> "run", n |-> fetched + 1, entry |-> e, answer |-> NotYet]
    <3>1. /\ fetches' = fetches \cup {g} /\ notice'.says # "ready"
          /\ UNCHANGED <<playerVars, controls>>
      BY <1>1, <2>3 DEF HandleSelect, Fetch, Says
    <3>2. /\ g = [kind |-> g.kind, n |-> g.n, entry |-> g.entry, answer |-> g.answer]
          /\ g.kind = "run" /\ g.entry = e
      OBVIOUS
    <3>. HIDE DEF g
    <3>3. Fetching'
      BY <2>1, <3>1, <3>2 DEF BrowserInv, Fetching
    <3>4. ReadyIsLoaded'
      BY <3>1 DEF ReadyIsLoaded
    <3>. QED
      BY <2>1, <3>1, <3>3, <3>4, SamePlayed DEF BrowserInv
  <2>. QED
    BY <2>2, <2>3
<1>2. ASSUME NEW f \in fetches, RunArrives(f) PROVE BrowserInv'
  <2>1. /\ f.kind = "run" /\ fetches' = fetches \ {f} /\ entry' = entry
        /\ crossed' = crossed /\ listedRuns' = listedRuns
    BY <1>2 DEF RunArrives
  <2>2. f.entry \in Runs /\ (crossed = "no" => entry = f.entry) /\ Fetching'
    BY <2>1 DEF BrowserInv, Fetching
  <2>3. CASE f.answer # NoRun
    <3>1. Ready(f.entry, <<f.entry[1], f.answer>>)
      BY <1>2, <2>3 DEF RunArrives
    <3>2. /\ GameSet' /\ TapeHolds' /\ KeepsPlaying' /\ playing' = "no"
          /\ late' = NotYet /\ speed' = speed /\ waiting' = waiting
          /\ notice'.says = "ready" /\ notice'.of = f.entry
          /\ details' = [entry |-> f.entry, run |-> run'] /\ run'[1] = f.entry[1]
          /\ controls' = "enabled"
      BY <2>2, <3>1, ReadyIsSafe
    <3>3. ReadyIsLoaded'
      BY <2>1, <2>2, <3>2 DEF ReadyIsLoaded, Enabled
    <3>. QED
      BY <2>1, <2>2, <3>2, <3>3 DEF BrowserInv
  <2>4. CASE f.answer = NoRun
    <3>1. notice'.says # "ready" /\ controls' = "disabled" /\ UNCHANGED playerVars
      BY <1>2, <2>4 DEF RunArrives, Says
    <3>2. ReadyIsLoaded'
      BY <3>1 DEF ReadyIsLoaded
    <3>3. /\ run' = run /\ tickIndex' = tickIndex /\ playing' = playing /\ speed' = speed
          /\ late' = late /\ waiting' = waiting /\ restore' = restore /\ worn' = worn
          /\ gameCfg' = gameCfg /\ over' = over /\ source' = source /\ drawn' = drawn
          /\ again' = again
      BY <3>1 DEF playerVars, gameVars
    <3>4. KeepsPlaying' = KeepsPlaying /\ GameSet' = GameSet /\ TapeHolds' = TapeHolds
      BY <3>3 DEF KeepsPlaying, TapeIsOut, Total, GameSet, TapeHolds
    <3>5. Unloaded => Unloaded'
      BY <3>1, <3>3 DEF Unloaded
    <3>. QED
      BY <2>1, <2>2, <3>1, <3>2, <3>3, <3>4, <3>5 DEF BrowserInv
  <2>. QED
    BY <2>3, <2>4
<1>. QED
  BY <1>1, <1>2

\* What is done to a replay that is loaded.
LEMMA StartingOver ==
  ASSUME GameSet, TapeHolds, MayStartOver, waiting \in Nat, NEW then \in {"yes", "no"},
         StartOver(then)
  PROVE  /\ GameSet' /\ TapeHolds' /\ KeepsPlaying'
         /\ late' = NotYet /\ speed' = speed /\ waiting' \in Nat /\ playing' \in {"yes", "no"}
         /\ run' = run
<1>1. Total \in Nat
  BY LengthOfRun
<1>2. /\ run' = run /\ speed' = speed /\ restore' = restore /\ worn' = worn
      /\ gameCfg' = gameCfg /\ source' = source
      /\ tickIndex' = 0 /\ over' = "no" /\ again' = "yes" /\ late' = NotYet
      /\ \/ TapeIsOut /\ playing' = "no" /\ drawn' = drawn /\ waiting' = waiting
         \/ /\ ~TapeIsOut /\ drawn' = drawn + 1 /\ playing' = then
            /\ waiting' = IF then = "yes" THEN waiting + 1 ELSE waiting
  BY DEF StartOver
<1>3. GameSet'
  BY <1>2 DEF GameSet
<1>4. TapeHolds'
  BY <1>1, <1>2 DEF TapeHolds, TapeIsOut, Total
<1>5. KeepsPlaying'
  BY <1>2 DEF KeepsPlaying
<1>. QED
  BY <1>2, <1>3, <1>4, <1>5

LEMMA Applying ==
  ASSUME GameSet, TapeHolds, NEW n \in Nat, tickIndex + n <= Total, NEW o \in Outcomes(n),
         Apply(o)
  PROVE  /\ GameSet' /\ TapeHolds' /\ run' = run /\ speed' = speed /\ again' = again
         /\ TapeIsOut => TapeIsOut'
         /\ o.throws = "yes" => again = "yes" /\ TapeIsOut'
         /\ o.throws \in {"yes", "no"}
<1>1. Total \in Nat
  BY LengthOfRun
<1>2. /\ run' = run /\ speed' = speed /\ restore' = restore /\ worn' = worn
      /\ gameCfg' = gameCfg /\ source' = source /\ again' = again
      /\ tickIndex' = tickIndex + o.ticks /\ drawn' = drawn + o.drawn /\ over' = o.over
  BY DEF Apply
<1>3. GameSet' /\ Total' = Total
  BY <1>2 DEF GameSet, Total
<1>4. /\ o.ticks \in Nat /\ tickIndex + o.ticks <= Total
      /\ o.drawn \in Nat /\ (run[1] \in Taped => drawn + o.drawn <= Total + 1)
      /\ o.over \in {"yes", "no"} /\ o.throws \in {"yes", "no"}
      /\ again = "no" => drawn + o.drawn = tickIndex + o.ticks + 1
      /\ again = "no" /\ o.over = "yes" => tickIndex + o.ticks = Total
      /\ o.throws = "yes" => again = "yes" /\ run[1] \in Taped /\ drawn + o.drawn > Total
  BY OutcomesHold
<1>5. TapeHolds'
  BY <1>1, <1>2, <1>3, <1>4 DEF TapeHolds
<1>6. TapeIsOut => TapeIsOut'
  BY <1>1, <1>2, <1>3, <1>4 DEF TapeHolds, TapeIsOut
<1>7. o.throws = "yes" => again = "yes" /\ TapeIsOut'
  BY <1>2, <1>3, <1>4 DEF TapeIsOut
<1>. QED
  BY <1>2, <1>3, <1>4, <1>5, <1>6, <1>7

LEMMA PlayerStep ==
  ASSUME BrowserInv,
         RestartPressed \/ Play \/ Pause \/ StepOnce \/ Frame \/ ReplayTime
           \/ \E s \in Speeds : SetSpeed(s)
  PROVE  BrowserInv'
<1>1. UNCHANGED listVars
  BY DEF RestartPressed, Play, Pause, StepOnce, Frame, ReplayTime, SetSpeed
<1>2. Enabled => GameSet /\ TapeHolds
  BY DEF BrowserInv, Enabled, Unloaded
<1>3. ASSUME /\ run' = run
             /\ late' \in Nat \cup {NotYet} /\ speed' \in Speeds /\ waiting' \in Nat
             /\ playing' \in {"yes", "no"} /\ KeepsPlaying'
             /\ (run' = NoRun /\ Unloaded') \/ (GameSet' /\ TapeHolds')
      PROVE  BrowserInv'
  BY <1>1, <1>3, SameList DEF BrowserInv
<1>4. ASSUME UNCHANGED gameVars
      PROVE  /\ run' = run /\ restore' = restore /\ worn' = worn
             /\ KeepsPlaying' <=> (playing' = "yes" /\ waiting' = 0 => again = "yes" /\ TapeIsOut)
             /\ GameSet' = GameSet /\ TapeHolds' = TapeHolds
  <2>1. /\ run' = run /\ tickIndex' = tickIndex /\ restore' = restore /\ worn' = worn
        /\ gameCfg' = gameCfg /\ over' = over /\ source' = source /\ drawn' = drawn
        /\ again' = again
    BY <1>4 DEF gameVars
  <2>. QED
    BY <2>1 DEF KeepsPlaying, TapeIsOut, Total, GameSet, TapeHolds
<1>5. controls' = controls
  BY <1>1 DEF listVars
<1>6. CASE RestartPressed
  BY <1>2, <1>3, <1>6, StartingOver DEF RestartPressed, BrowserInv
<1>7. CASE Play
  <2>1. CASE tickIndex >= Total \/ over = "yes"
    BY <1>2, <1>3, <1>7, <2>1, StartingOver DEF Play, BrowserInv
  <2>2. CASE ~(tickIndex >= Total \/ over = "yes")
    <3>1. /\ Enabled /\ UNCHANGED gameVars /\ speed' = speed /\ late' = late
          /\ playing' = "yes" /\ waiting' = waiting + 1
      BY <1>7, <2>2 DEF Play
    <3>2. KeepsPlaying'
      BY <1>4, <3>1 DEF BrowserInv
    <3>. QED
      BY <1>2, <1>3, <1>4, <3>1, <3>2 DEF BrowserInv
  <2>. QED
    BY <2>1, <2>2
<1>8. CASE Pause
  <2>1. /\ Enabled /\ UNCHANGED gameVars /\ speed' = speed /\ late' = late
        /\ playing' = "no" /\ waiting' = waiting
    BY <1>8 DEF Pause
  <2>. QED
    BY <1>2, <1>3, <1>4, <2>1 DEF BrowserInv
<1>9. CASE \E s \in Speeds : SetSpeed(s)
  <2>1. /\ Enabled /\ UNCHANGED gameVars /\ speed' \in Speeds /\ late' = late
        /\ playing' = playing /\ waiting' = waiting
    BY <1>9 DEF SetSpeed
  <2>2. KeepsPlaying'
    BY <1>4, <2>1 DEF BrowserInv, KeepsPlaying
  <2>. QED
    BY <1>2, <1>3, <1>4, <2>1, <2>2 DEF BrowserInv
<1>10. CASE ReplayTime
  <2>1. /\ UNCHANGED gameVars /\ speed' = speed /\ late \in Nat /\ late' = late + 1
        /\ playing' = playing /\ waiting' = waiting
    BY <1>10 DEF ReplayTime, BrowserInv
  <2>2. KeepsPlaying'
    BY <1>4, <2>1 DEF BrowserInv, KeepsPlaying
  <2>3. Unloaded => Unloaded'
    BY <1>4, <1>5, <2>1 DEF Unloaded
  <2>. QED
    BY <1>3, <1>4, <2>1, <2>2, <2>3 DEF BrowserInv
<1>11. CASE StepOnce
  <2>1. Enabled /\ GameSet /\ TapeHolds
    BY <1>2, <1>11 DEF StepOnce
  <2>2. 1 \in Nat /\ tickIndex + 1 <= Total
    BY <1>11, <2>1, LengthOfRun DEF StepOnce, TapeHolds
  <2>3. PICK o \in Outcomes(1) : Apply(o)
    BY <1>11 DEF StepOnce
  <2>4. playing' = playing /\ late' = late /\ waiting' = waiting
    BY <1>11 DEF StepOnce
  <2>5. GameSet' /\ TapeHolds' /\ run' = run /\ speed' = speed /\ again' = again
        /\ (TapeIsOut => TapeIsOut')
    BY <2>1, <2>2, <2>3, Applying
  <2>6. KeepsPlaying'
    BY <2>4, <2>5 DEF BrowserInv, KeepsPlaying
  <2>. QED
    BY <1>3, <2>4, <2>5, <2>6 DEF BrowserInv
<1>12. CASE Frame
  <2>1. CASE playing = "no"
    <3>1. /\ UNCHANGED gameVars /\ speed' = speed /\ late' = late
          /\ playing' = playing /\ waiting' = waiting - 1 /\ waiting > 0
      BY <1>12, <2>1 DEF Frame
    <3>2. Unloaded => Unloaded'
      BY <1>4, <1>5, <3>1 DEF Unloaded
    <3>. QED
      BY <1>3, <1>4, <2>1, <3>1, <3>2 DEF BrowserInv
  <2>2. CASE playing # "no"
    <3>. DEFINE due == IF late = NotYet THEN 0 ELSE late * speed
                left == Total - tickIndex
                n == IF due < left THEN due ELSE left
    <3>1. GameSet /\ TapeHolds
      BY <2>2 DEF BrowserInv, Unloaded
    <3>2. due \in Nat
      BY DEF BrowserInv, Speeds
    <3>3. left \in Nat /\ tickIndex \in Nat /\ Total \in Nat
      BY <3>1, LengthOfRun DEF TapeHolds
    <3>. HIDE DEF due
    <3>4. n \in Nat /\ tickIndex + n <= Total
      BY <3>2, <3>3
    <3>5. PICK o \in Outcomes(n) :
            /\ Apply(o) /\ late' = 0
            /\ LET ends == o.over = "yes" \/ tickIndex' >= Total
               IN  /\ playing' = IF ends /\ o.throws = "no" THEN "no" ELSE playing
                   /\ waiting' = IF ends \/ o.throws = "yes" THEN waiting - 1 ELSE waiting
      BY <1>12, <2>2 DEF Frame, due
    <3>. HIDE DEF n
    <3>6. /\ GameSet' /\ TapeHolds' /\ run' = run /\ speed' = speed /\ again' = again
          /\ (TapeIsOut => TapeIsOut')
          /\ (o.throws = "yes" => again = "yes" /\ TapeIsOut')
          /\ o.throws \in {"yes", "no"}
      BY <3>1, <3>4, <3>5, Applying
    <3>7. waiting > 0 /\ waiting \in Nat /\ waiting' \in Nat /\ playing' \in {"yes", "no"}
      BY <1>12, <3>5 DEF Frame, BrowserInv
    <3>8. KeepsPlaying'
      BY <3>5, <3>6, <3>7 DEF KeepsPlaying
    <3>. QED
      BY <1>3, <3>5, <3>6, <3>7, <3>8 DEF BrowserInv
  <2>. QED
    BY <2>1, <2>2
<1>. QED
  BY <1>6, <1>7, <1>8, <1>9, <1>10, <1>11, <1>12

\* Whatever is selected, fetched, reloaded, played and paused in any order, the replay that
\* is said to be ready is the one that is loaded, its game is set up for it and as far as
\* the recording was, and what plays goes on; for any players, runs and lengths
\* (replayBrowser.js: handleSelect; replayBrowserPlayer.js: loadRun, frameLoop).
THEOREM BrowserIsTrue == BrowserSpec => []BrowserPlaysWhatItSays
<1>1. BrowserInv /\ [BrowserNext]_replayVars => BrowserInv'
  <2>. SUFFICES ASSUME BrowserInv, [BrowserNext]_replayVars PROVE BrowserInv'
    OBVIOUS
  <2>1. CASE UNCHANGED replayVars
    <3>1. UNCHANGED listVars /\ UNCHANGED playerVars
      BY <2>1 DEF replayVars
    <3>2. controls' = controls /\ run' = run
      BY <3>1 DEF listVars, playerVars, gameVars
    <3>. QED
      BY <3>1, <3>2, SameList, SamePlayed DEF BrowserInv
  <2>2. CASE BrowserNext
    BY <2>2, ListStep, SelectionStep, PlayerStep DEF BrowserNext
  <2>. QED
    BY <2>1, <2>2
<1>2. BrowserInv => BrowserPlaysWhatItSays
  BY BrowserAssumption DEF BrowserInv, BrowserPlaysWhatItSays, PlaysTheRecording, GameSet, TapeHolds
<1>. QED
  BY BrowserInvInit, <1>1, <1>2, PTL DEF BrowserSpec

-----------------------------------------------------------------------------
(* The operator's forms.  Every list a page shows is one that was served: an  *)
(* entry that is not there is not built in either, and an unlock has the id   *)
(* that its type calls for.  A card that was not touched is the one that was  *)
(* rendered, and only touched cards have an id other than their own.          *)

SeenEntry(d, i, x) ==
  /\ x \in Entries \cup {Nothing}
  /\ x = Nothing /\ d \in HaveUnlocks => BuiltIns[d][i] = Nothing
  /\ x # Nothing => x.unlock = Nothing \/ (d \in HaveUnlocks /\ HasItsId(x.unlock))

SeenList(d, list) == list \in Lists /\ \A i \in EntryIds : SeenEntry(d, i, list[i])

HeldDoc(d) ==
  /\ held[d] \in Lists \cup {Nothing}
  /\ d \notin HaveUnlocks /\ held[d] # Nothing =>
       \A i \in EntryIds : held[d][i] = Nothing \/ held[d][i].unlock = Nothing

Rows == [CardSlots -> Cards \cup {Nothing}]

\* A form and the list it was made from, but for what the operator did.
AsMade(t, form, list, i) ==
  /\ SeenEntry(DocumentOf(t), i, list[i])
  /\ form[i] = CardOf(i, list[i])
  /\ \A s \in CardSlots \ {i} : form[s] # Nothing => form[s].id # i

PageIsKept(p) ==
  /\ cards[p] \in Rows
  /\ \A i \in EntryIds : SeenEntry(DocumentOf(tool[p]), i, shown[p][i])
  /\ \A i \in EntryIds \ touched[p] :
       cards[p][i] = IF Shows(tool[p], i) THEN CardOf(i, shown[p][i]) ELSE Nothing
  /\ NewSlot \notin touched[p] => cards[p][NewSlot] \in {Nothing, Blank}
  /\ tool[p] = "menus" => \A s \in CardSlots : cards[p][s] # Nothing => cards[p][s].id = s

SaveIsKept(q) ==
  /\ q.tool \in AllTools /\ q.form \in Rows
  /\ \A i \in EntryIds \ q.ours : AsMade(q.tool, q.form, q.shown, i)

FormsInv ==
  /\ DOMAIN held = Docs /\ \A d \in Docs : HeldDoc(d)
  /\ tool \in [Pages -> Tools]
  /\ DOMAIN cards = Pages /\ DOMAIN shown = Pages /\ DOMAIN coming = Pages
  /\ DOMAIN touched = Pages /\ DOMAIN reread = Pages
  /\ \A p \in Pages :
       /\ coming[p] # Nothing => SeenList(DocumentOf(tool[p]), coming[p])
       /\ reread[p] # Nothing => tool[p] = "menus" /\ SeenList("config", reread[p])
       /\ cards[p] # Nothing => PageIsKept(p)
  /\ \A q \in sent : SaveIsKept(q)

LEMMA DocumentsAre == \A t \in AllTools : DocumentOf(t) \in Docs
  BY DEF AllTools, Forms, DocumentOf, Docs

\* Whatever an unlock was, normalizing gives it its id; and one that has it stays of its type.
LEMMA NormalizingUnlocks ==
  ASSUME NEW u \in Unlocks
  PROVE  /\ NormalizeUnlock(u) \in Unlocks /\ HasItsId(NormalizeUnlock(u))
         /\ HasItsId(u) => NormalizeUnlock(u).type = u.type /\ NormalizeUnlock(u).id = u.id
<1>. DEFINE min == IF u.min \in {Undefined, Null} THEN Null ELSE u.min
<1>1. min \in {Undefined, Null, 0, 1} /\ NoId # "feat"
  BY FormsAssumption DEF Unlocks
<1>2. /\ u.type \in UnlockTypes /\ u.id \in {NoId, "feat"}
      /\ u = [type |-> u.type, id |-> u.id, min |-> u.min]
  BY DEF Unlocks
<1>3. CASE u.type = "score"
  <2>1. NormalizeUnlock(u) = [u EXCEPT !.id = NoId, !.min = IF min = Null THEN 0 ELSE min]
    BY <1>3 DEF NormalizeUnlock
  <2>2. NormalizeUnlock(u) = [type |-> u.type, id |-> NoId,
                              min |-> IF min = Null THEN 0 ELSE min]
    BY <1>2, <2>1
  <2>. HIDE DEF min
  <2>. QED
    BY <1>1, <1>2, <1>3, <2>2 DEF HasItsId, Unlocks
<1>4. CASE u.type = "achievement" /\ u.id # NoId
  <2>1. NormalizeUnlock(u) = [u EXCEPT !.min = min]
    BY <1>4 DEF NormalizeUnlock
  <2>2. NormalizeUnlock(u) = [type |-> u.type, id |-> u.id, min |-> min]
    BY <1>2, <2>1
  <2>. HIDE DEF min
  <2>. QED
    BY <1>1, <1>2, <1>4, <2>2 DEF HasItsId, Unlocks
<1>5. CASE u.type = "record"
  <2>1. NormalizeUnlock(u) = [u EXCEPT !.id = NoId, !.min = IF min = Null THEN Undefined ELSE min]
    BY <1>5 DEF NormalizeUnlock
  <2>2. NormalizeUnlock(u) = [type |-> u.type, id |-> NoId,
                              min |-> IF min = Null THEN Undefined ELSE min]
    BY <1>2, <2>1
  <2>. HIDE DEF min
  <2>. QED
    BY <1>1, <1>2, <1>5, <2>2 DEF HasItsId, Unlocks
<1>6. CASE u.type \notin {"score", "record"} /\ ~(u.type = "achievement" /\ u.id # NoId)
  <2>1. NormalizeUnlock(u) = Free
    BY <1>6 DEF NormalizeUnlock
  <2>2. Free \in Unlocks /\ HasItsId(Free)
    BY DEF Free, Unlocks, UnlockTypes, HasItsId
  <2>3. HasItsId(u) => u.type = "free" /\ u.id = NoId
    BY <1>1, <1>2, <1>6 DEF HasItsId, UnlockTypes
  <2>. QED
    BY <2>1, <2>2, <2>3 DEF Free
<1>. QED
  BY <1>3, <1>4, <1>5, <1>6

LEMMA NormalizingByForm ==
  ASSUME NEW u \in Unlocks, NEW n \in {NormalizeIconUnlock(u), NormalizeTrailUnlock(u)}
  PROVE  n \in Unlocks /\ HasItsId(n) /\ (HasItsId(u) => n.type = u.type /\ n.id = u.id)
<1>1. u = [type |-> u.type, id |-> u.id, min |-> u.min]
  BY DEF Unlocks
<1>2. CASE n = NormalizeIconUnlock(u)
  <2>1. CASE u.type = "score"
    BY <1>2, <2>1, NormalizingUnlocks DEF NormalizeIconUnlock
  <2>2. CASE u.type # "score"
    <3>. DEFINE v == NormalizeUnlock(u)
    <3>1. n = [v EXCEPT !.min = Undefined]
      BY <1>2, <2>2 DEF NormalizeIconUnlock
    <3>2. v \in Unlocks /\ HasItsId(v) /\ (HasItsId(u) => v.type = u.type /\ v.id = u.id)
      BY NormalizingUnlocks
    <3>. HIDE DEF v
    <3>3. n \in Unlocks /\ n.type = v.type /\ n.id = v.id
      BY <3>1, <3>2 DEF Unlocks
    <3>. QED
      BY <3>2, <3>3 DEF HasItsId
  <2>. QED
    BY <2>1, <2>2
<1>3. CASE n = NormalizeTrailUnlock(u)
  <2>. DEFINE v == [u EXCEPT !.min = IF @ = Null THEN 0 ELSE @]
  <2>1. v \in Unlocks /\ v.type = u.type /\ v.id = u.id
    BY DEF Unlocks
  <2>2. n = NormalizeUnlock(v)
    BY <1>3 DEF NormalizeTrailUnlock
  <2>. HIDE DEF v
  <2>3. HasItsId(u) <=> HasItsId(v)
    BY <2>1 DEF HasItsId
  <2>. QED
    BY <2>1, <2>2, <2>3, NormalizingUnlocks
<1>. QED
  BY <1>2, <1>3

\* An entry as the server makes it of what it stores.
LEMMA NormalizedEntry ==
  ASSUME NEW d \in Docs, NEW list \in Lists, NEW i \in EntryIds
  PROVE  LET x == list[i]
             y == Normalize(d, list)[i] IN
         /\ Normalize(d, list) \in Lists
         /\ x = Nothing <=> y = Nothing
         /\ x # Nothing => /\ y.style = x.style
                           /\ x.unlock = Nothing <=> y.unlock = Nothing
         /\ x # Nothing /\ d \notin HaveUnlocks => y = x
         /\ x # Nothing /\ x.unlock # Nothing /\ d \in HaveUnlocks =>
              HasItsId(y.unlock)
              /\ (HasItsId(x.unlock) => y.unlock.type = x.unlock.type /\ y.unlock.id = x.unlock.id)
<1>. DEFINE N(e) == IF e = Nothing \/ e.unlock = Nothing \/ d \notin HaveUnlocks THEN e
                    ELSE [e EXCEPT !.unlock = IF d = "icons" THEN NormalizeIconUnlock(@)
                                              ELSE NormalizeTrailUnlock(@)]
<1>1. Normalize(d, list) = [j \in EntryIds |-> N(list[j])]
  BY DEF Normalize
<1>2. ASSUME NEW e \in Entries \cup {Nothing}
      PROVE  /\ N(e) \in Entries \cup {Nothing} /\ (e = Nothing <=> N(e) = Nothing)
             /\ e # Nothing => N(e).style = e.style /\ (e.unlock = Nothing <=> N(e).unlock = Nothing)
             /\ e # Nothing /\ d \notin HaveUnlocks => N(e) = e
             /\ e # Nothing /\ e.unlock # Nothing /\ d \in HaveUnlocks =>
                  HasItsId(N(e).unlock)
                  /\ (HasItsId(e.unlock) =>
                        N(e).unlock.type = e.unlock.type /\ N(e).unlock.id = e.unlock.id)
  <2>1. CASE e = Nothing \/ e.unlock = Nothing \/ d \notin HaveUnlocks
    BY <2>1
  <2>2. CASE ~(e = Nothing \/ e.unlock = Nothing \/ d \notin HaveUnlocks)
    <3>. DEFINE u == IF d = "icons" THEN NormalizeIconUnlock(e.unlock)
                     ELSE NormalizeTrailUnlock(e.unlock)
    <3>1. e \in Entries /\ e.unlock \in Unlocks
      BY <2>2 DEF Entries
    <3>2. /\ u \in Unlocks /\ HasItsId(u)
          /\ HasItsId(e.unlock) => u.type = e.unlock.type /\ u.id = e.unlock.id
      BY <3>1, NormalizingByForm
    <3>3. N(e) = [e EXCEPT !.unlock = u]
      BY <2>2
    <3>. HIDE DEF u, N
    <3>4. N(e) \in Entries /\ N(e).style = e.style /\ N(e).unlock = u
      BY <3>1, <3>2, <3>3 DEF Entries
    <3>. QED
      BY <2>2, <3>2, <3>4, FormsAssumption
  <2>. QED
    BY <2>1, <2>2
<1>3. \A j \in EntryIds : list[j] \in Entries \cup {Nothing}
  BY DEF Lists
<1>. HIDE DEF N
<1>4. Normalize(d, list) \in Lists
  BY <1>1, <1>2, <1>3 DEF Lists
<1>. QED
  BY <1>1, <1>2, <1>3, <1>4

LEMMA BuiltInsAreSeen == \A d \in Docs : SeenList(d, BuiltIns[d])
<1>. SUFFICES ASSUME NEW d \in Docs PROVE SeenList(d, BuiltIns[d])
  OBVIOUS
<1>1. BuiltIns[d] \in Lists
  BY FormsAssumption
<1>2. ASSUME NEW i \in EntryIds PROVE SeenEntry(d, i, BuiltIns[d][i])
  <2>1. BuiltIns[d][i] \in Entries \cup {Nothing}
    BY <1>1 DEF Lists
  <2>2. Locks(BuiltIns[d][i]) => d \in HaveUnlocks /\ HasItsId(BuiltIns[d][i].unlock)
    BY FormsAssumption
  <2>. QED
    BY <2>1, <2>2 DEF SeenEntry, Locks
<1>. QED
  BY <1>1, <1>2 DEF SeenList

\* What is served of a document of which h is held.
ServedOf(d, h) ==
  IF h = Nothing THEN BuiltIns[d]
  ELSE LET list == Normalize(d, h)
       IN  CASE d = "trails" -> [i \in EntryIds |-> Unlocked(i, IF list[i] = Nothing THEN BuiltIns[d][i]
                                                                ELSE list[i])]
             [] d = "icons" -> [i \in EntryIds |-> IF list[i] = Nothing THEN BuiltIns[d][i]
                                                    ELSE list[i]]
             [] OTHER -> list

LEMMA ServedOfHeld == \A d \in Docs : AsServed(d) = ServedOf(d, held[d])
  BY DEF AsServed, ServedOf

LEMMA ServedIsSeen == ASSUME NEW d \in Docs, HeldDoc(d) PROVE SeenList(d, AsServed(d))
<1>1. CASE held[d] = Nothing
  BY <1>1, BuiltInsAreSeen DEF AsServed
<1>2. CASE held[d] # Nothing
  <2>. DEFINE list == Normalize(d, held[d])
              at(i) == IF list[i] = Nothing THEN BuiltIns[d][i] ELSE list[i]
  <2>0. AsServed(d) = CASE d = "trails" -> [i \in EntryIds |-> Unlocked(i, at(i))]
                        [] d = "icons" -> [i \in EntryIds |-> at(i)]
                        [] OTHER -> list
    BY <1>2 DEF AsServed
  <2>1. held[d] \in Lists
    BY <1>2 DEF HeldDoc
  <2>2. ASSUME NEW i \in EntryIds
        PROVE  /\ list[i] \in Entries \cup {Nothing}
               /\ list[i] # Nothing => list[i].unlock = Nothing
                                         \/ (d \in HaveUnlocks /\ HasItsId(list[i].unlock))
    <3>1. list \in Lists
      BY <2>1, NormalizedEntry
    <3>2. held[d][i] = Nothing <=> list[i] = Nothing
      BY <2>1, NormalizedEntry
    <3>3. CASE d \in HaveUnlocks
      BY <2>1, <3>1, <3>2, <3>3, NormalizedEntry DEF Lists
    <3>4. CASE d \notin HaveUnlocks
      BY <1>2, <2>1, <3>1, <3>2, <3>4, NormalizedEntry DEF Lists, HeldDoc
    <3>. QED
      BY <3>3, <3>4
  <2>. HIDE DEF list
  <2>3. ASSUME NEW i \in EntryIds PROVE SeenEntry(d, i, at(i))
    <3>1. SeenEntry(d, i, BuiltIns[d][i])
      BY BuiltInsAreSeen DEF SeenList
    <3>. QED
      BY <2>2, <3>1 DEF SeenEntry
  <2>4. CASE d \notin HaveUnlocks
    <3>0. d # "trails" /\ d # "icons"
      BY <2>4 DEF HaveUnlocks
    <3>1. AsServed(d) = list
      BY <2>0, <3>0
    <3>2. list \in Lists
      <4>1. "b" \in EntryIds
        BY DEF EntryIds
      <4>. QED
        BY <2>1, <4>1, NormalizedEntry DEF list
    <3>. QED
      BY <2>2, <2>4, <3>1, <3>2 DEF SeenList, SeenEntry
  <2>5. CASE d = "icons"
    <3>1. AsServed(d) = [i \in EntryIds |-> at(i)]
      BY <2>0, <2>5
    <3>. HIDE DEF at
    <3>. QED
      BY <2>3, <3>1 DEF SeenList, SeenEntry, Lists
  <2>6. CASE d = "trails"
    <3>1. AsServed(d) = [i \in EntryIds |-> Unlocked(i, at(i))]
      BY <2>0, <2>6
    <3>2. ASSUME NEW i \in EntryIds PROVE SeenEntry(d, i, Unlocked(i, at(i)))
      <4>. DEFINE e == at(i)
                  u == IF BuiltIns["trails"][i] = Nothing THEN Free
                       ELSE BuiltIns["trails"][i].unlock
      <4>1. SeenEntry(d, i, e) /\ SeenEntry(d, i, BuiltIns[d][i])
        BY <2>3, BuiltInsAreSeen DEF SeenList
      <4>2. Unlocked(i, e) = IF e = Nothing \/ e.unlock # Nothing THEN e
                             ELSE [e EXCEPT !.unlock = u]
        BY DEF Unlocked
      <4>. HIDE DEF e
      <4>3. Free \in Unlocks /\ HasItsId(Free)
        BY DEF Free, Unlocks, UnlockTypes, HasItsId
      <4>4. u \in Unlocks \cup {Nothing} /\ (u = Nothing \/ HasItsId(u))
        BY <2>6, <4>1, <4>3 DEF SeenEntry, Entries
      <4>. HIDE DEF u
      <4>5. CASE e = Nothing \/ e.unlock # Nothing
        BY <4>1, <4>2, <4>5 DEF e
      <4>6. CASE ~(e = Nothing \/ e.unlock # Nothing)
        <5>1. e \in Entries /\ Unlocked(i, e) = [e EXCEPT !.unlock = u]
          BY <4>1, <4>2, <4>6 DEF SeenEntry
        <5>2. Unlocked(i, e) \in Entries /\ Unlocked(i, e).unlock = u
          BY <4>4, <5>1 DEF Entries
        <5>3. Unlocked(i, e) # Nothing /\ d \in HaveUnlocks
          BY <2>6, <5>2, FormsAssumption DEF HaveUnlocks
        <5>. QED
          BY <4>4, <5>2, <5>3 DEF SeenEntry, e
      <4>. QED
        BY <4>5, <4>6
    <3>. HIDE DEF at
    <3>. QED
      BY <3>1, <3>2 DEF SeenList, SeenEntry, Lists
  <2>. QED
    BY <2>4, <2>5, <2>6 DEF HaveUnlocks
<1>. QED
  BY <1>1, <1>2

\* The card of an entry that was served.
LEMMA CardsOfSeen ==
  ASSUME NEW d \in Docs, NEW i \in EntryIds, NEW x, SeenEntry(d, i, x)
  PROVE  /\ CardOf(i, x) \in Cards \cup {Nothing}
         /\ x = Nothing <=> CardOf(i, x) = Nothing
         /\ x # Nothing =>
              /\ CardOf(i, x).id = i /\ CardOf(i, x).style = x.style /\ x.style \in {0, 1}
              /\ HasItsId(CardOf(i, x).unlock)
              /\ Shown(x) = <<x.style, CardOf(i, x).unlock.type, CardOf(i, x).unlock.id>>
<1>1. CASE x = Nothing
  BY <1>1 DEF CardOf
<1>2. CASE x # Nothing
  <2>1. x \in Entries
    BY <1>2 DEF SeenEntry
  <2>. DEFINE u == IF x.unlock = Nothing THEN Free
                   ELSE [x.unlock EXCEPT !.min = IF @ = Null THEN Undefined ELSE @]
  <2>2. /\ CardOf(i, x) = [id |-> i, style |-> x.style, unlock |-> u]
        /\ CardOf("b", x) = [id |-> "b", style |-> x.style, unlock |-> u]
    BY <1>2 DEF CardOf
  <2>3. u \in Unlocks /\ HasItsId(u)
    <3>1. CASE x.unlock = Nothing
      BY <3>1 DEF Free, Unlocks, UnlockTypes, HasItsId
    <3>2. CASE x.unlock # Nothing
      <4>1. x.unlock \in Unlocks /\ HasItsId(x.unlock)
        BY <1>2, <2>1, <3>2 DEF Entries, SeenEntry
      <4>2. u = [x.unlock EXCEPT !.min = IF @ = Null THEN Undefined ELSE @]
        BY <3>2
      <4>3. u \in Unlocks /\ u.type = x.unlock.type /\ u.id = x.unlock.id
        BY <4>1, <4>2 DEF Unlocks
      <4>. QED
        BY <4>1, <4>3 DEF HasItsId
    <3>. QED
      BY <3>1, <3>2
  <2>. HIDE DEF u
  <2>4. x.style \in {0, 1}
    BY <2>1 DEF Entries
  <2>5. CardOf(i, x) \in Cards
    BY <2>2, <2>3, <2>4 DEF Cards
  <2>6. Shown(x) = <<x.style, u.type, u.id>>
    BY <1>2, <2>2 DEF Shown
  <2>. QED
    BY <1>2, <2>2, <2>3, <2>4, <2>5, <2>6, FormsAssumption
<1>. QED
  BY <1>1, <1>2

LEMMA CollectedEntry ==
  ASSUME NEW t \in AllTools, NEW card \in Cards
  PROVE  LET e == CollectEntry(t, card) IN
         /\ e \in Entries
         /\ card.style # Bad => e.style = card.style
         /\ t \notin HaveUnlocks => e.unlock = Nothing
         /\ t \in HaveUnlocks /\ HasItsId(card.unlock) =>
              e.unlock # Nothing /\ HasItsId(e.unlock)
              /\ e.unlock.type = card.unlock.type /\ e.unlock.id = card.unlock.id
<1>. DEFINE u == card.unlock
            c == CollectUnlock(t, u)
            style == IF card.style = Bad THEN 0 ELSE card.style
<1>1. u \in Unlocks /\ style \in {0, 1} /\ u = [type |-> u.type, id |-> u.id, min |-> u.min]
  BY DEF Cards, Bad, Unlocks
<1>2. CollectEntry(t, card) = [style |-> style, extra |-> 0, unlock |-> c]
  BY DEF CollectEntry
<1>. HIDE DEF u, style
<1>3. /\ c \in Unlocks \cup {Nothing}
      /\ t \notin HaveUnlocks => c = Nothing
      /\ t \in HaveUnlocks => c \in Unlocks /\ c.type = u.type
                              /\ c.id = IF u.type = "achievement" THEN u.id ELSE NoId
  <2>1. CASE t = "trails"
    <3>. DEFINE id == IF u.type = "achievement" THEN u.id ELSE NoId
                min == IF u.type \in {"achievement", "score"} THEN u.min ELSE Undefined
    <3>1. c = [type |-> u.type, id |-> id, min |-> min]
      BY <1>1, <2>1 DEF CollectUnlock
    <3>2. u.type \in UnlockTypes /\ id \in {NoId, "feat"} /\ min \in {Undefined, Null, 0, 1}
      BY <1>1 DEF Unlocks
    <3>. HIDE DEF id, min, c
    <3>3. c \in Unlocks /\ c.type = u.type /\ c.id = id
      BY <3>1, <3>2 DEF Unlocks
    <3>. QED
      BY <2>1, <3>3 DEF id, HaveUnlocks
  <2>2. CASE t = "icons"
    <3>. DEFINE id == IF u.type = "achievement" THEN u.id ELSE NoId
                min == IF u.type # "score" THEN Undefined
                       ELSE IF u.min = Undefined THEN 0 ELSE u.min
    <3>1. c = [type |-> u.type, id |-> id, min |-> min]
      BY <1>1, <2>2 DEF CollectUnlock
    <3>2. u.type \in UnlockTypes /\ id \in {NoId, "feat"} /\ min \in {Undefined, Null, 0, 1}
      BY <1>1 DEF Unlocks
    <3>. HIDE DEF id, min, c
    <3>3. c \in Unlocks /\ c.type = u.type /\ c.id = id
      BY <3>1, <3>2 DEF Unlocks
    <3>. QED
      BY <2>2, <3>3 DEF id, HaveUnlocks
  <2>3. CASE t # "trails" /\ t # "icons"
    BY <2>3 DEF CollectUnlock, HaveUnlocks
  <2>. QED
    BY <2>1, <2>2, <2>3
<1>. HIDE DEF c
<1>4. CollectEntry(t, card) \in Entries
  BY <1>1, <1>2, <1>3 DEF Entries
<1>5. t \in HaveUnlocks /\ HasItsId(u) => c # Nothing /\ HasItsId(c) /\ c.type = u.type /\ c.id = u.id
  BY <1>3, FormsAssumption DEF HasItsId
<1>. QED
  BY <1>2, <1>3, <1>4, <1>5 DEF style, u

\* What is collected of any cards can be stored.
LEMMA CollectedList ==
  ASSUME NEW t \in AllTools, NEW form \in Rows
  PROVE  /\ Collect(t, form) \in Lists
         /\ t \notin HaveUnlocks => \A i \in EntryIds :
              Collect(t, form)[i] = Nothing \/ Collect(t, form)[i].unlock = Nothing
<1>1. ASSUME NEW i \in EntryIds, Claims(form, i) # {}
      PROVE  form[LastCard(Claims(form, i))] \in Cards
  <2>1. LastCard(Claims(form, i)) \in Claims(form, i)
    BY <1>1 DEF Claims, LastCard, CardSlots, EntryIds
  <2>. QED
    BY <2>1 DEF Claims, Rows
<1>2. ASSUME NEW i \in EntryIds
      PROVE  /\ Collect(t, form)[i] \in Entries \cup {Nothing}
             /\ t \notin HaveUnlocks =>
                  Collect(t, form)[i] = Nothing \/ Collect(t, form)[i].unlock = Nothing
  BY <1>1, CollectedEntry DEF Collect
<1>3. Collect(t, form) = [i \in EntryIds |-> Collect(t, form)[i]]
  BY DEF Collect
<1>. QED
  BY <1>2, <1>3 DEF Lists

\* Saved and served again, an entry looks as it was seen.
LEMMA SavedAsSeen ==
  ASSUME NEW t \in AllTools, NEW form \in Rows, NEW list, NEW i \in EntryIds,
         AsMade(t, form, list, i)
  PROVE  Shown(ServedOf(DocumentOf(t), Normalize(DocumentOf(t), Collect(t, form)))[i])
           = Shown(list[i])
<1>. DEFINE d == DocumentOf(t)
            x == list[i]
            saved == Collect(t, form)
            once == Normalize(d, saved)
            twice == Normalize(d, once)
<1>1. d \in Docs /\ (d \in HaveUnlocks <=> t \in HaveUnlocks)
      /\ (t \in HaveUnlocks => d = t)
  BY DEF AllTools, Forms, DocumentOf, Docs, HaveUnlocks
<1>2. saved \in Lists /\ once \in Lists /\ twice \in Lists
  BY <1>1, CollectedList, NormalizedEntry
<1>3. once # Nothing
  BY <1>2, FormsAssumption
<1>4. SeenEntry(d, i, x) /\ form[i] = CardOf(i, x)
  BY DEF AsMade
<1>5. ServedOf(d, once) = CASE d = "trails" -> [j \in EntryIds |->
                                 Unlocked(j, IF twice[j] = Nothing THEN BuiltIns[d][j] ELSE twice[j])]
                            [] d = "icons" -> [j \in EntryIds |->
                                 IF twice[j] = Nothing THEN BuiltIns[d][j] ELSE twice[j]]
                            [] OTHER -> twice
  BY <1>3 DEF ServedOf
<1>. HIDE DEF d, x, once, twice
<1>6. CASE x = Nothing
  <2>1. Claims(form, i) = {}
    BY <1>4, <1>6 DEF AsMade, Claims, CardOf
  <2>2. saved[i] = Nothing
    BY <2>1 DEF Collect
  <2>3. twice[i] = Nothing
    BY <1>1, <1>2, <2>2, NormalizedEntry DEF once, twice
  <2>4. d \in HaveUnlocks => BuiltIns[d][i] = Nothing
    BY <1>4, <1>6 DEF SeenEntry
  <2>5. ServedOf(d, once)[i] = Nothing
    BY <1>5, <2>3, <2>4 DEF HaveUnlocks, Unlocked
  <2>. QED
    BY <1>6, <2>5 DEF d, x, once, Shown
<1>7. CASE x # Nothing
  <2>. DEFINE card == CardOf(i, x)
  <2>1. /\ card \in Cards /\ card.id = i /\ card.style = x.style /\ x.style \in {0, 1}
        /\ HasItsId(card.unlock)
        /\ Shown(x) = <<x.style, card.unlock.type, card.unlock.id>>
    BY <1>1, <1>4, <1>7, CardsOfSeen
  <2>2. Claims(form, i) = {i}
    BY <1>4, <2>1, FormsAssumption DEF AsMade, Claims, CardSlots
  <2>3. LastCard({i}) = i
    BY FormsAssumption DEF LastCard, EntryIds
  <2>4. saved[i] = CollectEntry(t, card)
    BY <1>4, <2>2, <2>3 DEF Collect
  <2>. HIDE DEF card, saved
  <2>5. /\ saved[i] # Nothing /\ saved[i].style = x.style
        /\ t \notin HaveUnlocks => saved[i].unlock = Nothing
        /\ t \in HaveUnlocks =>
             saved[i].unlock # Nothing /\ HasItsId(saved[i].unlock)
             /\ saved[i].unlock.type = card.unlock.type /\ saved[i].unlock.id = card.unlock.id
    BY <2>1, <2>4, CollectedEntry, FormsAssumption DEF Bad
  <2>6. once[i] # Nothing /\ once[i].style = x.style
        /\ (t \notin HaveUnlocks => once[i] = saved[i])
        /\ (t \in HaveUnlocks =>
              once[i].unlock # Nothing /\ HasItsId(once[i].unlock)
              /\ once[i].unlock.type = card.unlock.type /\ once[i].unlock.id = card.unlock.id)
    BY <1>1, <1>2, <2>5, NormalizedEntry DEF once
  <2>7. twice[i] # Nothing /\ twice[i].style = x.style
        /\ (t \notin HaveUnlocks => twice[i].unlock = Nothing)
        /\ (t \in HaveUnlocks =>
              twice[i].unlock # Nothing
              /\ twice[i].unlock.type = card.unlock.type /\ twice[i].unlock.id = card.unlock.id)
    BY <1>1, <1>2, <2>5, <2>6, NormalizedEntry DEF twice
  <2>8. ServedOf(d, once)[i] = twice[i]
    BY <1>1, <1>5, <2>7 DEF HaveUnlocks, Unlocked
  <2>9. CASE t \in HaveUnlocks
    <3>1. twice[i].unlock \in Unlocks
      BY <1>2, <2>7, <2>9 DEF Lists, Entries
    <3>2. Shown(twice[i]) = <<twice[i].style, twice[i].unlock.type, twice[i].unlock.id>>
      BY <2>7, <2>9, <3>1 DEF Shown, CardOf, Unlocks
    <3>. QED
      BY <2>1, <2>7, <2>8, <2>9, <3>2 DEF d, x, once, saved
  <2>10. CASE t \notin HaveUnlocks
    <3>1. x.unlock = Nothing
      BY <1>1, <1>4, <1>7, <2>10 DEF SeenEntry
    <3>2. Shown(twice[i]) = <<twice[i].style, "free", NoId>> /\ Shown(x) = <<x.style, "free", NoId>>
      BY <1>7, <2>7, <2>10, <3>1 DEF Shown, CardOf, Free
    <3>. QED
      BY <2>7, <2>8, <2>10, <3>2 DEF d, x, once, saved
  <2>. QED
    BY <2>9, <2>10
<1>. QED
  BY <1>6, <1>7

LEMMA RowsAre ==
  /\ EntryIds \subseteq CardSlots /\ NewSlot \in CardSlots /\ NewSlot \notin EntryIds
  /\ \A s \in CardSlots : s \in EntryIds \/ s = NewSlot
  /\ NoId \notin EntryIds /\ Nothing \notin Cards /\ Blank \in Cards /\ Blank.id = NoId
  BY FormsAssumption DEF CardSlots, Blank, Cards, Free, Unlocks, UnlockTypes

LEMMA RowsKept ==
  ASSUME NEW form \in Rows, NEW s \in CardSlots, NEW card \in Cards \cup {Nothing}
  PROVE  [form EXCEPT ![s] = card] \in Rows
  BY DEF Rows

\* A list that was served, rendered: every card is untouched.
LEMMA RenderedIsKept ==
  ASSUME NEW t \in AllTools, NEW list, \A i \in EntryIds : SeenEntry(DocumentOf(t), i, list[i])
  PROVE  /\ Rendered(t, list) \in Rows
         /\ \A i \in EntryIds : Rendered(t, list)[i]
                                  = IF Shows(t, i) THEN CardOf(i, list[i]) ELSE Nothing
         /\ Rendered(t, list)[NewSlot] = IF NewSlot \in DOMAIN list THEN Blank ELSE Nothing
<1>1. ASSUME NEW i \in EntryIds PROVE CardOf(i, list[i]) \in Cards \cup {Nothing}
  BY DocumentsAre, CardsOfSeen
<1>. QED
  BY <1>1, RowsAre DEF Rendered, Rows

LEMMA FormsInvInit == FormsInit => FormsInv
<1>. SUFFICES ASSUME FormsInit PROVE FormsInv
  OBVIOUS
<1>1. ASSUME NEW d \in Docs PROVE HeldDoc(d)
  <2>1. held[d] \in Opening[d] /\ Opening[d] \subseteq Lists \cup {Nothing}
    BY FormsAssumption DEF FormsInit
  <2>2. ASSUME d \notin HaveUnlocks, held[d] # Nothing, NEW i \in EntryIds
        PROVE  held[d][i] = Nothing \/ held[d][i].unlock = Nothing
    <3>1. ~Locks(held[d][i])
      BY <2>1, <2>2, FormsAssumption
    <3>. QED
      BY <3>1 DEF Locks
  <2>. QED
    BY <2>1, <2>2 DEF HeldDoc
<1>2. DOMAIN held = Docs
  BY DEF FormsInit
<1>. QED
  BY <1>1, <1>2 DEF FormsInit, FormsInv

\* A page that was just given a list.
LEMMA PageJustShown ==
  ASSUME NEW t \in AllTools, NEW list, NEW form,
         \A i \in EntryIds : SeenEntry(DocumentOf(t), i, list[i]),
         form = Rendered(t, list),
         NewSlot \in DOMAIN list => t # "menus"
  PROVE  /\ form \in Rows
         /\ \A i \in EntryIds : form[i] = IF Shows(t, i) THEN CardOf(i, list[i]) ELSE Nothing
         /\ form[NewSlot] \in {Nothing, Blank}
         /\ t = "menus" => \A s \in CardSlots : form[s] # Nothing => form[s].id = s
<1>1. /\ form \in Rows
      /\ \A i \in EntryIds : form[i] = IF Shows(t, i) THEN CardOf(i, list[i]) ELSE Nothing
      /\ form[NewSlot] = IF NewSlot \in DOMAIN list THEN Blank ELSE Nothing
  BY RenderedIsKept
<1>2. ASSUME t = "menus", NEW s \in CardSlots, form[s] # Nothing PROVE form[s].id = s
  <2>1. s \in EntryIds
    BY <1>1, <1>2, RowsAre
  <2>2. form[s] = CardOf(s, list[s])
    BY <1>1, <1>2, <2>1
  <2>. QED
    BY <1>2, <2>1, <2>2, DocumentsAre, CardsOfSeen
<1>. QED
  BY <1>1, <1>2

\* A save carries what its page showed, but for what the operator did there.
LEMMA AsMadeOfPage ==
  ASSUME NEW t \in AllTools, t # "menus", NEW form \in Rows, NEW list, NEW mine,
         NEW i \in EntryIds, i \notin mine,
         \A j \in EntryIds : SeenEntry(DocumentOf(t), j, list[j]),
         \A j \in EntryIds \ mine : form[j] = IF Shows(t, j) THEN CardOf(j, list[j]) ELSE Nothing,
         NewSlot \notin mine => form[NewSlot] \in {Nothing, Blank},
         \A s \in mine : s \in CardSlots /\ form[s] # Nothing => form[s].id # i
  PROVE  AsMade(t, form, [j \in EntryIds |-> list[j]], i)
<1>1. \A j \in EntryIds : Shows(t, j)
  BY DEF Shows
<1>2. ASSUME NEW s \in CardSlots \ {i}, form[s] # Nothing PROVE form[s].id # i
  <2>1. CASE s \in mine
    BY <1>2, <2>1
  <2>2. CASE s \in EntryIds \ mine
    BY <1>1, <1>2, <2>2, DocumentsAre, CardsOfSeen
  <2>3. CASE s = NewSlot /\ s \notin mine
    BY <1>2, <2>3, RowsAre
  <2>. QED
    BY <2>1, <2>2, <2>3, RowsAre
<1>. QED
  BY <1>1, <1>2 DEF AsMade

\* A page that did nothing keeps what it has.
LEMMA PagesAreLeft ==
  ASSUME NEW p, PageIsKept(p), tool' = tool,
         cards'[p] = cards[p], shown'[p] = shown[p], touched'[p] = touched[p]
  PROVE  PageIsKept(p)'
  BY DEF PageIsKept

LEMMA FormsInvStep == FormsInv /\ [FormsNext]_formVars => FormsInv'
<1>. SUFFICES ASSUME FormsInv, [FormsNext]_formVars PROVE FormsInv'
  OBVIOUS
<1>1. /\ DOMAIN held = Docs /\ \A d \in Docs : HeldDoc(d)
      /\ DOMAIN cards = Pages /\ DOMAIN shown = Pages /\ DOMAIN coming = Pages
      /\ DOMAIN touched = Pages /\ DOMAIN reread = Pages
      /\ \A q \in sent : SaveIsKept(q)
  BY DEF FormsInv
<1>2. ASSUME NEW p \in Pages
      PROVE  /\ tool[p] \in AllTools /\ DocumentOf(tool[p]) \in Docs
             /\ coming[p] # Nothing => SeenList(DocumentOf(tool[p]), coming[p])
             /\ reread[p] # Nothing => tool[p] = "menus" /\ SeenList("config", reread[p])
             /\ cards[p] # Nothing => PageIsKept(p)
  BY DocumentsAre, FormsAssumption DEF FormsInv
<1>3. ASSUME held' = held PROVE \A d \in Docs : HeldDoc(d)'
  BY <1>1, <1>3 DEF HeldDoc
<1>4. ASSUME NEW d \in Docs PROVE SeenList(d, AsServed(d))
  BY <1>1, ServedIsSeen
<1>5. ASSUME NEW p \in Pages, AnswerPage(p) PROVE FormsInv'
  <2>1. coming'[p] = AsServed(DocumentOf(tool[p])) /\ DOMAIN coming' = Pages
        /\ \A r \in Pages \ {p} : coming'[r] = coming[r]
    BY <1>1, <1>5 DEF AnswerPage
  <2>2. UNCHANGED <<held, tool, cards, shown, touched, reread, sent>>
    BY <1>5 DEF AnswerPage
  <2>3. \A r \in Pages : coming'[r] # Nothing => SeenList(DocumentOf(tool[r]), coming'[r])
    BY <1>2, <1>4, <2>1
  <2>4. \A r \in Pages : cards'[r] # Nothing => PageIsKept(r)'
    BY <1>2, <2>2, PagesAreLeft
  <2>. QED
    BY <1>1, <1>2, <1>3, <2>1, <2>2, <2>3, <2>4 DEF FormsInv
<1>6. ASSUME NEW p \in Pages, NEW list, Show(p, list),
             \A i \in EntryIds : SeenEntry(DocumentOf(tool[p]), i, list[i]),
             NewSlot \in DOMAIN list => tool[p] # "menus",
             coming' = coming \/ coming' = [coming EXCEPT ![p] = Nothing]
      PROVE  FormsInv'
  <2>1. /\ cards'[p] = Rendered(tool[p], list) /\ shown'[p] = list /\ touched'[p] = {}
        /\ \A r \in Pages \ {p} : cards'[r] = cards[r] /\ shown'[r] = shown[r]
                                  /\ touched'[r] = touched[r]
        /\ DOMAIN cards' = Pages /\ DOMAIN shown' = Pages /\ DOMAIN touched' = Pages
    BY <1>1, <1>6 DEF Show
  <2>2. UNCHANGED <<held, tool, reread, sent>>
    BY <1>6 DEF Show
  <2>3. PageIsKept(p)'
    <3>1. /\ cards'[p] \in Rows
          /\ \A i \in EntryIds :
               cards'[p][i] = IF Shows(tool[p], i) THEN CardOf(i, list[i]) ELSE Nothing
          /\ cards'[p][NewSlot] \in {Nothing, Blank}
          /\ tool[p] = "menus" => \A s \in CardSlots : cards'[p][s] # Nothing => cards'[p][s].id = s
      BY <1>2, <1>6, <2>1, PageJustShown
    <3>. QED
      BY <1>6, <2>1, <2>2, <3>1 DEF PageIsKept
  <2>4. \A r \in Pages : cards'[r] # Nothing => PageIsKept(r)'
    BY <1>2, <2>1, <2>2, <2>3, PagesAreLeft
  <2>5. /\ DOMAIN coming' = Pages
        /\ \A r \in Pages : coming'[r] # Nothing => SeenList(DocumentOf(tool[r]), coming'[r])
    BY <1>1, <1>2, <1>6
  <2>. QED
    BY <1>1, <1>2, <1>3, <2>1, <2>2, <2>4, <2>5 DEF FormsInv
<1>7. ASSUME NEW p \in Pages, LoadConfig(p) PROVE FormsInv'
  <2>1. SeenList(DocumentOf(tool[p]), coming[p]) /\ Show(p, coming[p])
        /\ coming' = [coming EXCEPT ![p] = Nothing]
    BY <1>2, <1>7 DEF LoadConfig
  <2>2. \A i \in EntryIds : SeenEntry(DocumentOf(tool[p]), i, coming[p][i])
    BY <2>1 DEF SeenList
  <2>3. NewSlot \notin DOMAIN coming[p]
    BY <2>1, RowsAre DEF SeenList, Lists
  <2>. DEFINE list == coming[p]
  <2>4. Show(p, list) /\ (\A i \in EntryIds : SeenEntry(DocumentOf(tool[p]), i, list[i]))
        /\ NewSlot \notin DOMAIN list
    BY <2>1, <2>2, <2>3
  <2>. HIDE DEF list
  <2>. QED
    BY <1>6, <2>1, <2>4
<1>8. ASSUME NEW p \in Pages, RenderAgain(p) PROVE FormsInv'
  <2>. DEFINE list == shown[p]
  <2>1. Show(p, list) /\ coming' = coming /\ tool[p] # "menus"
        /\ \A i \in EntryIds : SeenEntry(DocumentOf(tool[p]), i, list[i])
    BY <1>2, <1>8 DEF RenderAgain, PageIsKept
  <2>. HIDE DEF list
  <2>. QED
    BY <1>6, <2>1
<1>9. ASSUME NEW p \in Pages, NEW s \in CardSlots, NEW card \in Cards \cup {Nothing},
             EditCard(p, s, card), cards[p] # Nothing,
             tool[p] = "menus" => card # Nothing /\ card.id = s,
             DOMAIN shown' = Pages, \A r \in Pages \ {p} : shown'[r] = shown[r],
             \A i \in EntryIds : shown'[p][i] = shown[p][i]
      PROVE  FormsInv'
  <2>1. /\ cards'[p] = [cards[p] EXCEPT ![s] = card] /\ touched'[p] = touched[p] \cup {s}
        /\ \A r \in Pages \ {p} : cards'[r] = cards[r] /\ touched'[r] = touched[r]
        /\ DOMAIN cards' = Pages /\ DOMAIN touched' = Pages
    BY <1>1, <1>9 DEF EditCard
  <2>2. UNCHANGED <<held, tool, coming, reread, sent>>
    BY <1>9 DEF EditCard
  <2>3. PageIsKept(p)
    BY <1>2, <1>9
  <2>4. PageIsKept(p)'
    <3>1. cards[p] \in Rows
      BY <2>3 DEF PageIsKept
    <3>2. cards'[p] \in Rows /\ cards'[p][s] = card
          /\ \A r \in CardSlots \ {s} : cards'[p][r] = cards[p][r]
      BY <2>1, <3>1, RowsKept DEF Rows
    <3>3. \A i \in EntryIds : SeenEntry(DocumentOf(tool[p]), i, shown'[p][i])
      BY <1>9, <2>3 DEF PageIsKept
    <3>4. \A i \in EntryIds \ touched'[p] :
             cards'[p][i] = IF Shows(tool[p], i) THEN CardOf(i, shown'[p][i]) ELSE Nothing
      BY <1>9, <2>1, <2>3, <3>2, RowsAre DEF PageIsKept
    <3>5. NewSlot \notin touched'[p] => cards'[p][NewSlot] \in {Nothing, Blank}
      BY <2>1, <2>3, <3>2, RowsAre DEF PageIsKept
    <3>6. tool[p] = "menus" => \A r \in CardSlots : cards'[p][r] # Nothing => cards'[p][r].id = r
      BY <1>9, <2>3, <3>2 DEF PageIsKept
    <3>. QED
      BY <2>2, <3>2, <3>3, <3>4, <3>5, <3>6 DEF PageIsKept
  <2>5. \A r \in Pages : cards'[r] # Nothing => PageIsKept(r)'
    BY <1>2, <1>9, <2>1, <2>2, <2>4, PagesAreLeft
  <2>. QED
    BY <1>1, <1>2, <1>3, <1>9, <2>1, <2>2, <2>5 DEF FormsInv
<1>10. ASSUME NEW p \in Pages, AddCard(p) PROVE FormsInv'
  <2>1. EditCard(p, NewSlot, Blank) /\ cards[p] # Nothing /\ tool[p] # "menus"
    BY <1>10 DEF AddCard, Forms
  <2>2. /\ DOMAIN shown' = Pages /\ \A r \in Pages \ {p} : shown'[r] = shown[r]
        /\ \A i \in EntryIds : shown'[p][i] = shown[p][i]
    BY <1>1, <1>10, RowsAre DEF AddCard
  <2>. QED
    BY <1>9, <2>1, <2>2, RowsAre
<1>11. ASSUME NEW p \in Pages, NEW s \in CardSlots, NEW card \in Typed, Type(p, s, card)
       PROVE  FormsInv'
  <2>1. EditCard(p, s, card) /\ cards[p] # Nothing /\ shown' = shown
        /\ (tool[p] = "menus" => card.id = s)
    BY <1>11 DEF Type
  <2>2. card \in Cards /\ card # Nothing
    BY FormsAssumption
  <2>. QED
    BY <1>1, <1>9, <2>1, <2>2
<1>12. ASSUME NEW p \in Pages, NEW s \in CardSlots, Remove(p, s) PROVE FormsInv'
  BY <1>1, <1>9, <1>12 DEF Remove
<1>13. ASSUME NEW p \in Pages, NEW form, NEW list, NEW ours, Send(p, form, list, ours),
              form \in Rows, \A i \in EntryIds \ ours : AsMade(tool[p], form, list, i),
              DOMAIN reread' = Pages,
              \A r \in Pages : reread'[r] \in {reread[r], Nothing}
       PROVE  FormsInv'
  <2>. DEFINE q == [tool |-> tool[p], form |-> form, shown |-> list, ours |-> ours]
  <2>1. SaveIsKept(q)
    BY <1>2, <1>13 DEF SaveIsKept
  <2>2. sent' = sent \cup {q} /\ UNCHANGED <<held, tool, cards, shown, coming, touched>>
    BY <1>13 DEF Send
  <2>. HIDE DEF q
  <2>3. \A r \in sent' : SaveIsKept(r)
    BY <1>1, <2>1, <2>2
  <2>4. \A r \in Pages : cards'[r] # Nothing => PageIsKept(r)'
    BY <1>2, <2>2, PagesAreLeft
  <2>. QED
    BY <1>1, <1>2, <1>3, <1>13, <2>2, <2>3, <2>4 DEF FormsInv
<1>14. ASSUME NEW p \in Pages, SaveForm(p) PROVE FormsInv'
  <2>. DEFINE list == [i \in EntryIds |-> shown[p][i]]
              form == cards[p]
  <2>1. /\ tool[p] # "menus" /\ cards[p] # Nothing /\ reread' = reread
        /\ Send(p, form, list, Ours(p))
    BY <1>14 DEF SaveForm
  <2>2. PageIsKept(p)
    BY <1>2, <2>1
  <2>3. ASSUME NEW i \in EntryIds \ Ours(p) PROVE AsMade(tool[p], form, list, i)
    <3>1. form \in Rows /\ tool[p] \in AllTools
      BY <1>2, <2>2 DEF PageIsKept
    <3>2. i \notin touched[p]
      BY <2>3, RowsAre DEF Ours
    <3>3. \A s \in touched[p] : s \in CardSlots /\ form[s] # Nothing => form[s].id # i
      BY <2>3 DEF Ours
    <3>4. /\ \A j \in EntryIds : SeenEntry(DocumentOf(tool[p]), j, shown[p][j])
          /\ \A j \in EntryIds \ touched[p] :
               form[j] = IF Shows(tool[p], j) THEN CardOf(j, shown[p][j]) ELSE Nothing
          /\ NewSlot \notin touched[p] => form[NewSlot] \in {Nothing, Blank}
      BY <2>2 DEF PageIsKept
    <3>. HIDE DEF form
    <3>. QED
      BY <2>1, <3>1, <3>2, <3>3, <3>4, AsMadeOfPage
  <2>4. form \in Rows
    BY <2>2 DEF PageIsKept
  <2>. HIDE DEF list, form
  <2>. QED
    BY <1>1, <1>13, <2>1, <2>3, <2>4
<1>15. ASSUME NEW p \in Pages, AskAgain(p) PROVE FormsInv'
  <2>1. /\ tool[p] = "menus" /\ UNCHANGED <<held, tool, cards, shown, coming, touched, sent>>
        /\ DOMAIN reread' = Pages /\ reread'[p] = AsServed("config")
        /\ \A r \in Pages \ {p} : reread'[r] = reread[r]
    BY <1>1, <1>15 DEF AskAgain
  <2>2. SeenList("config", reread'[p])
    BY <1>4, <2>1 DEF Docs
  <2>3. \A r \in Pages : cards'[r] # Nothing => PageIsKept(r)'
    BY <1>2, <2>1, PagesAreLeft
  <2>. QED
    BY <1>1, <1>2, <1>3, <2>1, <2>2, <2>3 DEF FormsInv
<1>16. ASSUME NEW p \in Pages, SaveMenus(p) PROVE FormsInv'
  <2>. DEFINE latest == reread[p]
  <2>1. /\ tool[p] = "menus" /\ DocumentOf(tool[p]) = "config" /\ SeenList("config", latest)
        /\ DOMAIN reread' = Pages /\ \A r \in Pages : reread'[r] \in {reread[r], Nothing}
    BY <1>1, <1>2, <1>16 DEF SaveMenus, DocumentOf, Forms
  <2>2. "b" \in EntryIds /\ "c" \in EntryIds /\ EntryIds = {"b", "c"} /\ "config" \in Docs
    BY DEF EntryIds, Docs
  <2>3. latest \in Lists /\ \A i \in EntryIds : SeenEntry("config", i, latest[i])
    BY <2>1 DEF SeenList
  <2>4. CASE cards[p] = Nothing
    <3>. DEFINE defaults == [latest EXCEPT !["b"] = BuiltIns["config"]["b"]]
                form == Rendered("whole", defaults)
    <3>1. Send(p, form, latest, {"b"})
      BY <1>16, <2>4 DEF SaveMenus
    <3>2. /\ defaults["b"] = BuiltIns["config"]["b"] /\ defaults["c"] = latest["c"]
          /\ DOMAIN defaults = EntryIds
      BY <2>2, <2>3 DEF Lists
    <3>3. \A i \in EntryIds : SeenEntry("config", i, defaults[i])
      BY <2>2, <2>3, <3>2, BuiltInsAreSeen DEF SeenList
    <3>4. "whole" \in AllTools /\ DocumentOf("whole") = "config" /\ \A i \in EntryIds : Shows("whole", i)
      BY DEF AllTools, DocumentOf, Forms, Shows
    <3>. HIDE DEF defaults
    <3>5. /\ form \in Rows /\ form[NewSlot] = Nothing
          /\ \A i \in EntryIds : form[i] = CardOf(i, defaults[i])
      BY <3>2, <3>3, <3>4, RenderedIsKept, RowsAre
    <3>. HIDE DEF form
    <3>6. AsMade(tool[p], form, latest, "c")
      <4>1. form["b"] # Nothing => form["b"].id = "b"
        BY <2>2, <3>3, <3>5, CardsOfSeen
      <4>. QED
        BY <2>1, <2>2, <2>3, <3>2, <3>5, <4>1, RowsAre DEF AsMade
    <3>. HIDE DEF latest
    <3>. QED
      BY <1>13, <2>1, <2>2, <3>1, <3>5, <3>6
  <2>5. CASE cards[p] # Nothing
    <3>. DEFINE card == CardOf("c", latest["c"])
                form == [cards[p] EXCEPT !["c"] = card]
                list == [latest EXCEPT !["b"] = shown[p]["b"]]
    <3>1. Send(p, form, list, touched[p])
      BY <1>16, <2>5 DEF SaveMenus
    <3>2. PageIsKept(p) /\ cards[p] \in Rows
      BY <1>2, <2>5 DEF PageIsKept
    <3>3. /\ card \in Cards \cup {Nothing} /\ (card # Nothing => card.id = "c")
          /\ SeenEntry("config", "c", latest["c"])
      BY <2>2, <2>3, CardsOfSeen
    <3>4. list["b"] = shown[p]["b"] /\ list["c"] = latest["c"]
      BY <2>2, <2>3 DEF Lists
    <3>5. /\ form \in Rows /\ form["c"] = card
          /\ \A s \in CardSlots \ {"c"} : form[s] = cards[p][s]
      BY <2>2, <3>2, <3>3, RowsAre, RowsKept DEF Rows
    <3>6. \A s \in CardSlots : form[s] # Nothing => form[s].id = s
      BY <2>1, <3>2, <3>3, <3>5 DEF PageIsKept
    <3>. HIDE DEF form, list
    <3>7. ASSUME NEW i \in EntryIds \ touched[p] PROVE AsMade(tool[p], form, list, i)
      <4>1. \A s \in CardSlots \ {i} : form[s] # Nothing => form[s].id # i
        BY <3>6
      <4>2. CASE i = "b"
        <5>1. cards[p]["b"] = CardOf("b", shown[p]["b"]) /\ SeenEntry("config", "b", shown[p]["b"])
          BY <2>1, <2>2, <3>2, <3>7, <4>2 DEF PageIsKept, Shows
        <5>. QED
          BY <2>1, <2>2, <3>4, <3>5, <4>1, <4>2, <5>1, RowsAre DEF AsMade
      <4>3. CASE i = "c"
        BY <2>1, <3>3, <3>4, <3>5, <4>1, <4>3 DEF AsMade
      <4>. QED
        BY <2>2, <4>2, <4>3
    <3>. QED
      BY <1>13, <2>1, <3>1, <3>5, <3>7
  <2>. QED
    BY <2>4, <2>5
<1>17. ASSUME NEW q \in sent, PutForm(q) PROVE FormsInv'
  <2>. DEFINE d == DocumentOf(q.tool)
              new == Normalize(d, Collect(q.tool, q.form))
  <2>1. SaveIsKept(q) /\ q.tool \in AllTools /\ q.form \in Rows
    BY <1>1 DEF SaveIsKept
  <2>2. d \in Docs /\ (q.tool \in HaveUnlocks => d \in HaveUnlocks)
    BY <2>1, DocumentsAre DEF DocumentOf, HaveUnlocks, Forms
  <2>3. /\ Collect(q.tool, q.form) \in Lists
        /\ q.tool \notin HaveUnlocks => \A i \in EntryIds :
             Collect(q.tool, q.form)[i] = Nothing \/ Collect(q.tool, q.form)[i].unlock = Nothing
    BY <2>1, CollectedList
  <2>4. "b" \in EntryIds
    BY DEF EntryIds
  <2>5. new \in Lists
    BY <2>2, <2>3, <2>4, NormalizedEntry
  <2>6. ASSUME d \notin HaveUnlocks, NEW i \in EntryIds
        PROVE  new[i] = Nothing \/ new[i].unlock = Nothing
    BY <2>2, <2>3, <2>6, NormalizedEntry
  <2>7. /\ held' = held \/ held' = [held EXCEPT ![d] = new]
        /\ UNCHANGED <<tool, cards, shown, coming, touched, reread>> /\ sent' \subseteq sent
    BY <1>17 DEF PutForm
  <2>. HIDE DEF d, new
  <2>8. DOMAIN held' = Docs /\ \A e \in Docs : HeldDoc(e)'
    BY <1>1, <1>3, <2>2, <2>5, <2>6, <2>7 DEF HeldDoc
  <2>9. \A r \in Pages : cards'[r] # Nothing => PageIsKept(r)'
    BY <1>2, <2>7, PagesAreLeft
  <2>. QED
    BY <1>1, <1>2, <2>7, <2>8, <2>9 DEF FormsInv
<1>18. ASSUME NEW q \in sent, Lose(q) PROVE FormsInv'
  <2>1. UNCHANGED <<held, tool, cards, shown, coming, touched, reread>> /\ sent' \subseteq sent
    BY <1>18 DEF Lose
  <2>2. \A r \in Pages : cards'[r] # Nothing => PageIsKept(r)'
    BY <1>2, <2>1, PagesAreLeft
  <2>. QED
    BY <1>1, <1>2, <1>3, <2>1, <2>2 DEF FormsInv
<1>19. CASE UNCHANGED formVars
  <2>1. UNCHANGED <<held, tool, cards, shown, coming, touched, reread, sent>>
    BY <1>19 DEF formVars
  <2>2. \A r \in Pages : cards'[r] # Nothing => PageIsKept(r)'
    BY <1>2, <2>1, PagesAreLeft
  <2>. QED
    BY <1>1, <1>2, <1>3, <2>1, <2>2 DEF FormsInv
<1>. QED
  BY <1>5, <1>7, <1>8, <1>10, <1>11, <1>12, <1>14, <1>15, <1>16, <1>17, <1>18, <1>19 DEF FormsNext

\* UntouchedStaysAsSeen: only the save that is put changes what is held, of its
\* own document, and what it made of a card that was not touched looks the same.
THEOREM FormsKeep == FormsSpec => UntouchedStaysAsSeen
<1>. DEFINE Kept == \A q \in sent : q \notin sent' /\ held' # held =>
                      \A i \in EntryIds \ q.ours :
                        Shown(AsServed(DocumentOf(q.tool))'[i]) = Shown(q.shown[i])
<1>1. ASSUME FormsInv, [FormsNext]_formVars, FormsInv' PROVE Kept
  <2>. SUFFICES ASSUME NEW q \in sent, q \notin sent', held' # held, NEW i \in EntryIds \ q.ours
                PROVE  Shown(AsServed(DocumentOf(q.tool))'[i]) = Shown(q.shown[i])
    OBVIOUS
  <2>1. PutForm(q)
    <3>1. PICK r \in sent : PutForm(r)
      BY <1>1 DEF FormsNext, formVars, AnswerPage, LoadConfig, RenderAgain, Show, AddCard, EditCard,
             SaveForm, AskAgain, SaveMenus, Send, Type, Remove, Lose
    <3>2. sent' = sent \ {r}
      BY <3>1 DEF PutForm
    <3>. QED
      BY <3>1, <3>2
  <2>. DEFINE t == q.tool
              d == DocumentOf(t)
              new == Normalize(d, Collect(t, q.form))
  <2>2. t \in AllTools /\ q.form \in Rows /\ AsMade(t, q.form, q.shown, i) /\ d \in Docs
    BY <1>1, DocumentsAre DEF FormsInv, SaveIsKept
  <2>3. held' = [held EXCEPT ![d] = new]
    BY <2>1 DEF PutForm
  <2>4. held'[d] = new
    BY <1>1, <2>2, <2>3 DEF FormsInv
  <2>5. AsServed(d)' = ServedOf(d, held'[d])
    BY DEF AsServed, ServedOf
  <2>6. Shown(ServedOf(d, new)[i]) = Shown(q.shown[i])
    BY <2>2, SavedAsSeen
  <2>. QED
    BY <2>4, <2>5, <2>6
<1>. QED
  BY <1>1, FormsInvInit, FormsInvStep, PTL DEF FormsSpec, UntouchedStaysAsSeen

-----------------------------------------------------------------------------
(* Sessions: while flows do not overlap, what the browser has got tells of    *)
(* one player only, and the flow under way was sent with it.  The answer it   *)
(* waits for is the one the server would have given at the time; so it only   *)
(* forgets a player who was not recognised for a refresh window.              *)

\* A token of the present secret, and one that is good at a time.
Live(t, sec) == t # NoToken /\ (t # NoToken => t.secret = sec)
GoodAt(t, sec, time) == Live(t, sec) /\ (t # NoToken => t.exp > time)

SignAt(u, sec, time) == [sub |-> u, exp |-> time + TTL, secret |-> sec]

SessionAt(b, c, sec, time) ==
  IF GoodAt(b, sec, time) THEN b ELSE IF GoodAt(c, sec, time) THEN c ELSE NoToken

PresentedAt(b, c, old, sec, time) ==
  LET s == SessionAt(b, c, sec, time)
  IN  IF s # NoToken THEN s.sub ELSE IF b = NoToken /\ c = NoToken THEN old ELSE NoName

RecognisedAt(b, c, old, sec, reg, time) ==
  LET u == PresentedAt(b, c, old, sec, time) IN IF u \in reg THEN u ELSE NoName

\* What a request is answered, and what the browser has then.
AnswerAt(q, sec, reg, time) ==
  LET u == RecognisedAt(q.bearer, q.cookie, q.legacy, sec, reg, time)
      s == SessionAt(q.bearer, q.cookie, sec, time)
  IN  IF q.url = "register"
      THEN [status |-> "ok", user |-> q.who, gives |-> SignAt(q.who, sec, time),
            sets |-> SignAt(q.who, sec, time), at |-> time]
      ELSE [status |-> IF u = NoName /\ q.url # "sync" THEN "unauthorized" ELSE "ok",
            user |-> u,
            gives |-> IF u # NoName /\ q.url \in {"me", "sync"} THEN SignAt(u, sec, time)
                      ELSE NoToken,
            sets |-> IF u # NoName
                     THEN IF s = NoToken \/ (s # NoToken /\ s.exp - time <= RefreshWindow)
                          THEN SignAt(u, sec, time) ELSE Keep
                     ELSE IF PresentedAt(q.bearer, q.cookie, q.legacy, sec, time) = NoName
                             /\ (q.bearer # NoToken \/ q.cookie # NoToken)
                     THEN NoToken ELSE Keep,
            at |-> time]

\* The token b and the cookie c agree, and tell of nobody but the names S.
Same(b, c, sec) == Live(b, sec) /\ Live(c, sec) => b.sub = c.sub
Within(b, c, S, sec) == (Live(b, sec) => b.sub \in S) /\ (Live(c, sec) => c.sub \in S)

\* Whoever was recognised at a time will be for a refresh window.
Lasts(u, time, b, c, sec) ==
  \/ Live(b, sec) /\ b.sub = u /\ b.exp > time + RefreshWindow
  \/ /\ Live(c, sec) /\ c.sub = u /\ c.exp > time + RefreshWindow
     /\ Live(b, sec) => b.sub = u \/ b.exp <= time

Lapsed == seen.who # NoName => now > seen.at + RefreshWindow

AnswerKept(q) ==
  LET a == q.answer
  IN  IF a.status \in {"ok", "unauthorized"}
      THEN /\ a = AnswerAt(q, secret, registered, a.at)
           /\ a.at <= now /\ (seen.who # NoName => seen.at <= a.at)
           /\ q.url = "register" => q.who \in registered
      ELSE a.user = NoName /\ a.gives = NoToken /\ a.sets = Keep

FlowKept(q) ==
  /\ q.bearer = token /\ q.cookie = cookie /\ q.legacy = legacy
  /\ UrlOf(q.why) \in {"sync", "save", "register"}
  /\ q.url = CASE q.step = "refresh" -> "me" [] q.step = "reauth" -> "register"
               [] OTHER -> UrlOf(q.why)
  /\ q.step # "first" => UrlOf(q.why) = "save"
  /\ disturbed = "no" /\ player # NoName /\ q.url = "register" /\ q.why # "register" =>
       q.who \in {player, legacy}
  /\ q.refused = "yes" => Lapsed
  /\ q.at = "answered" => AnswerKept(q)

\* Whatever is signed in by name has a name.
NamesGiven ==
  \A p \in Slots : "register" \in {flow[p].url, UrlOf(flow[p].why)} => flow[p].who \in Names

SecretsKept ==
  /\ \A t \in {token, cookie} : t # NoToken => t.secret <= secret
  /\ \A p \in Slots, t \in Tokens : t \in {flow[p].answer.gives, flow[p].answer.sets} => t.secret <= secret

Lone == \A p, q \in Slots : flow[p].at # "idle" /\ flow[q].at # "idle" => p = q

SeenInv ==
  seen.who # NoName =>
    /\ disturbed = "no" /\ seen.at <= now
    /\ ~Lapsed => seen.who \in registered /\ Lasts(seen.who, seen.at, token, cookie, secret)

ShownInv ==
  disturbed = "no" =>
    /\ Same(token, cookie, secret)
    /\ player # NoName =>
         Within(token, cookie, {player, legacy}, secret) /\ name \in {player, legacy, NoName}

FlowsInv ==
  disturbed # "yes" => Lone /\ \A p \in Slots : flow[p].at # "idle" => FlowKept(flow[p])

SessionsInv == SessionsTypeOK /\ NamesGiven /\ SecretsKept /\ SeenInv /\ ShownInv /\ FlowsInv

LEMMA NamesAndTokens ==
  /\ NoName \notin Names /\ NoToken \notin Tokens /\ Keep \notin Tokens /\ Keep # NoToken
  /\ TTL \in Nat /\ RefreshWindow \in Nat /\ TTL > RefreshWindow
  /\ LastSecond \in Nat /\ MaxRestarts \in Nat
  BY SessionsAssumption

LEMMA TokensAre ==
  ASSUME NEW t \in Tokens
  PROVE  /\ t # NoToken /\ t # Keep /\ t.sub \in Names /\ t.sub # NoName
         /\ t.exp \in Nat /\ t.secret \in Nat
<1>1. t.sub \in Names /\ t.exp \in 0..(LastSecond + TTL) /\ t.secret \in 0..MaxRestarts
  BY DEF Tokens
<1>. QED
  BY <1>1, NamesAndTokens

LEMMA SignedAre ==
  ASSUME NEW u \in Names, NEW sec \in 0..MaxRestarts, NEW time \in 0..LastSecond
  PROVE  LET t == SignAt(u, sec, time) IN
         t \in Tokens /\ t.sub = u /\ t.exp = time + TTL /\ t.secret = sec
<1>1. time + TTL \in 0..(LastSecond + TTL)
  BY NamesAndTokens
<1>. QED
  BY <1>1 DEF SignAt, Tokens

\* The session that counts, and who is recognised by it.
LEMMA SessionIs ==
  ASSUME NEW b \in Tokens \cup {NoToken}, NEW c \in Tokens \cup {NoToken},
         NEW sec \in 0..MaxRestarts, NEW time \in 0..LastSecond
  PROVE  LET s == SessionAt(b, c, sec, time) IN
         \/ s = b /\ b \in Tokens /\ GoodAt(b, sec, time)
         \/ s = c /\ c \in Tokens /\ ~GoodAt(b, sec, time) /\ GoodAt(c, sec, time)
         \/ s = NoToken /\ ~GoodAt(b, sec, time) /\ ~GoodAt(c, sec, time)
  BY DEF SessionAt, GoodAt, Live

LEMMA Recognising ==
  ASSUME NEW b \in Tokens \cup {NoToken}, NEW c \in Tokens \cup {NoToken},
         NEW old \in Names \cup {NoName}, NEW sec \in 0..MaxRestarts, NEW reg \in SUBSET Names,
         NEW time \in 0..LastSecond
  PROVE  LET s == SessionAt(b, c, sec, time)
             u == RecognisedAt(b, c, old, sec, reg, time) IN
         /\ u \in reg \cup {NoName}
         /\ u # NoName => \/ s # NoToken /\ u = s.sub
                          \/ s = NoToken /\ b = NoToken /\ c = NoToken /\ u = old
         /\ \A v \in reg : s # NoToken /\ s.sub = v => u = v
  BY SessionIs, NamesAndTokens DEF RecognisedAt, PresentedAt

\* An answer to q when what the browser has is b and c.
LEMMA Answering ==
  ASSUME NEW q, q.bearer \in Tokens \cup {NoToken}, q.cookie \in Tokens \cup {NoToken},
         q.legacy \in Names \cup {NoName}, q.url \in Urls, q.url = "register" => q.who \in Names,
         NEW sec \in 0..MaxRestarts, NEW reg \in SUBSET Names, NEW time \in 0..LastSecond
  PROVE  LET a == AnswerAt(q, sec, reg, time)
             s == SessionAt(q.bearer, q.cookie, sec, time)
             u == RecognisedAt(q.bearer, q.cookie, q.legacy, sec, reg, time) IN
         /\ a \in Answers /\ a.at = time
         /\ a.status = IF a.user = NoName /\ q.url # "sync" THEN "unauthorized" ELSE "ok"
         /\ a.user = IF q.url = "register" THEN q.who ELSE u
         /\ a.gives = IF a.user # NoName /\ q.url \in {"me", "sync", "register"}
                      THEN SignAt(a.user, sec, time) ELSE NoToken
         /\ a.user # NoName =>
              \/ a.sets = SignAt(a.user, sec, time)
              \/ a.sets = Keep /\ q.url # "register"
                 /\ s # NoToken /\ s.exp > time + RefreshWindow
         /\ a.user = NoName => a.sets \in {Keep, NoToken}
         /\ a.sets \in Tokens \cup {NoToken, Keep}
<1>. DEFINE a == AnswerAt(q, sec, reg, time)
            s == SessionAt(q.bearer, q.cookie, sec, time)
            u == RecognisedAt(q.bearer, q.cookie, q.legacy, sec, reg, time)
            signed(w) == SignAt(w, sec, time)
            seldom == PresentedAt(q.bearer, q.cookie, q.legacy, sec, time) = NoName
                      /\ (q.bearer # NoToken \/ q.cookie # NoToken)
<1>1. u \in Names \cup {NoName}
  BY Recognising
<1>2. s \in Tokens \cup {NoToken}
  BY SessionIs
<1>3. \A w \in Names : signed(w) \in Tokens
  BY SignedAre
<1>4. CASE q.url = "register"
  <2>1. a = [status |-> "ok", user |-> q.who, gives |-> signed(q.who), sets |-> signed(q.who),
             at |-> time]
    BY <1>4 DEF AnswerAt
  <2>. HIDE DEF a, signed
  <2>2. a \in Answers
    BY <1>3, <1>4, <2>1 DEF Answers, Statuses
  <2>. QED
    BY <1>3, <1>4, <2>1, <2>2, NamesAndTokens DEF a, signed
<1>5. CASE q.url # "register"
  <2>. DEFINE status == IF u = NoName /\ q.url # "sync" THEN "unauthorized" ELSE "ok"
              gives == IF u # NoName /\ q.url \in {"me", "sync"} THEN signed(u) ELSE NoToken
              sets == IF u # NoName
                      THEN IF s = NoToken \/ (s # NoToken /\ s.exp - time <= RefreshWindow)
                           THEN signed(u) ELSE Keep
                      ELSE IF seldom THEN NoToken ELSE Keep
  <2>1. a = [status |-> status, user |-> u, gives |-> gives, sets |-> sets, at |-> time]
    BY <1>5 DEF AnswerAt
  <2>2. u # NoName => u \in Names /\ signed(u) \in Tokens
    BY <1>1, <1>3
  <2>. HIDE DEF a, s, u, signed, seldom
  <2>3. gives \in Tokens \cup {NoToken} /\ sets \in Tokens \cup {NoToken, Keep}
        /\ status \in Statuses
    BY <2>2 DEF Statuses
  <2>4. u # NoName => sets = signed(u) \/ (sets = Keep /\ s # NoToken /\ s.exp > time + RefreshWindow)
    <3>1. s # NoToken => s.exp \in Nat
      BY <1>2, TokensAre
    <3>. QED
      BY <3>1, NamesAndTokens
  <2>5. u = NoName => sets \in {Keep, NoToken}
    OBVIOUS
  <2>6. gives = IF u # NoName /\ q.url \in {"me", "sync", "register"} THEN signed(u) ELSE NoToken
    BY <1>5
  <2>. HIDE DEF gives, sets
  <2>7. a \in Answers
    BY <1>1, <2>1, <2>3 DEF Answers
  <2>. QED
    BY <1>5, <2>1, <2>3, <2>4, <2>5, <2>6, <2>7 DEF a, s, u, signed
<1>. QED
  BY <1>4, <1>5

LEMMA LastingIsRecognised ==
  ASSUME NEW b \in Tokens \cup {NoToken}, NEW c \in Tokens \cup {NoToken},
         NEW old \in Names \cup {NoName}, NEW sec \in 0..MaxRestarts, NEW reg \in SUBSET Names,
         NEW time \in 0..LastSecond, NEW u \in reg, NEW then \in Nat,
         Lasts(u, then, b, c, sec), then <= time, time <= then + RefreshWindow
  PROVE  RecognisedAt(b, c, old, sec, reg, time) = u
<1>. DEFINE s == SessionAt(b, c, sec, time)
<1>1. /\ b # NoToken => b \in Tokens /\ b.exp \in Nat
      /\ c # NoToken => c \in Tokens /\ c.exp \in Nat
  BY TokensAre
<1>2. s # NoToken /\ s.sub = u
  <2>1. CASE Live(b, sec) /\ b.sub = u /\ b.exp > then + RefreshWindow
    <3>1. GoodAt(b, sec, time)
      BY <1>1, <2>1, NamesAndTokens DEF GoodAt, Live
    <3>. QED
      BY <2>1, <3>1 DEF SessionAt, Live
  <2>2. CASE /\ Live(c, sec) /\ c.sub = u /\ c.exp > then + RefreshWindow
             /\ Live(b, sec) => b.sub = u \/ b.exp <= then
    <3>1. GoodAt(c, sec, time)
      BY <1>1, <2>2, NamesAndTokens DEF GoodAt, Live
    <3>2. GoodAt(b, sec, time) => b.sub = u
      BY <1>1, <2>2 DEF GoodAt, Live
    <3>. QED
      BY <2>2, <3>1, <3>2 DEF SessionAt, GoodAt, Live
  <2>. QED
    BY <2>1, <2>2 DEF Lasts
<1>. QED
  BY <1>2 DEF RecognisedAt, PresentedAt

\* What the browser has of a token and a cookie after an answer.
TokenFrom(b, a) == IF a.gives # NoToken THEN a.gives ELSE b
CookieFrom(c, a) == IF a.sets = Keep THEN c ELSE a.sets

LEMMA Credentials ==
  ASSUME NEW q, q.bearer \in Tokens \cup {NoToken}, q.cookie \in Tokens \cup {NoToken},
         q.legacy \in Names \cup {NoName}, q.url \in Urls, q.url = "register" => q.who \in Names,
         NEW sec \in 0..MaxRestarts, NEW reg \in SUBSET Names, NEW time \in 0..LastSecond,
         NEW a, a = AnswerAt(q, sec, reg, time)
  PROVE  LET b == TokenFrom(q.bearer, a)
             c == CookieFrom(q.cookie, a) IN
         /\ a.user = NoName => b = q.bearer /\ (c = q.cookie \/ c = NoToken)
         /\ a.user # NoName => Lasts(a.user, time, b, c, sec)
         /\ Same(q.bearer, q.cookie, sec) => Same(b, c, sec)
         /\ Same(q.bearer, q.cookie, sec) /\ a.user # NoName =>
              Within(b, c, {a.user, q.legacy}, sec)
         /\ a.gives # NoToken /\ a.sets = a.gives =>
              a.user # NoName /\ Same(b, c, sec) /\ Within(b, c, {a.user, q.legacy}, sec)
         /\ \A S : /\ Same(q.bearer, q.cookie, sec) /\ Within(q.bearer, q.cookie, S, sec)
                   /\ q.legacy \in S /\ (q.url = "register" => q.who \in S)
              => a.user \in S \cup {NoName} /\ Within(b, c, S, sec)
<1>. DEFINE b == TokenFrom(q.bearer, a)
            c == CookieFrom(q.cookie, a)
            s == SessionAt(q.bearer, q.cookie, sec, time)
            signed == SignAt(a.user, sec, time)
<1>1. /\ a.user \in Names \cup {NoName}
      /\ a.gives = IF a.user # NoName /\ q.url \in {"me", "sync", "register"} THEN signed ELSE NoToken
      /\ a.user # NoName => a.sets = signed
                            \/ (a.sets = Keep /\ q.url # "register"
                                /\ s # NoToken /\ s.exp > time + RefreshWindow)
      /\ a.user = NoName => a.sets \in {Keep, NoToken}
  BY Answering DEF Answers
<1>2. a.user # NoName => /\ signed \in Tokens /\ signed.sub = a.user
                         /\ signed.exp = time + TTL /\ signed.secret = sec
  BY <1>1, SignedAre
<1>3. /\ q.bearer # NoToken => q.bearer \in Tokens /\ q.bearer.exp \in Nat
      /\ q.cookie # NoToken => q.cookie \in Tokens /\ q.cookie.exp \in Nat
  BY TokensAre
<1>4. \/ s = q.bearer /\ q.bearer \in Tokens /\ GoodAt(q.bearer, sec, time)
      \/ s = q.cookie /\ q.cookie \in Tokens /\ ~GoodAt(q.bearer, sec, time)
                      /\ GoodAt(q.cookie, sec, time)
      \/ s = NoToken /\ ~GoodAt(q.bearer, sec, time) /\ ~GoodAt(q.cookie, sec, time)
  BY SessionIs
<1>5. q.url # "register" /\ a.user # NoName =>
        \/ s # NoToken /\ a.user = s.sub
        \/ s = NoToken /\ q.bearer = NoToken /\ q.cookie = NoToken /\ a.user = q.legacy
  <2>1. q.url # "register" =>
          a.user = RecognisedAt(q.bearer, q.cookie, q.legacy, sec, reg, time)
    BY Answering
  <2>. QED
    BY <2>1, NamesAndTokens DEF RecognisedAt, PresentedAt
<1>6. q.url = "register" => a.user = q.who /\ a.user # NoName
  BY Answering, NamesAndTokens
<1>7. b = (IF a.gives # NoToken THEN a.gives ELSE q.bearer)
      /\ c = (IF a.sets = Keep THEN q.cookie ELSE a.sets)
  BY DEF TokenFrom, CookieFrom
<1>8. a.user # NoName => signed # NoToken /\ signed # Keep /\ Keep # NoToken
  BY <1>2, NamesAndTokens
<1>. HIDE DEF b, c, s, signed
<1>9. CASE a.user = NoName
  <2>1. b = q.bearer /\ (c = q.cookie \/ c = NoToken) /\ a.gives = NoToken
    BY <1>1, <1>7, <1>9, NamesAndTokens
  <2>. QED
    BY <1>9, <2>1 DEF Same, Within, Live, b, c
<1>10. CASE a.user # NoName
  <2>1. b = (IF q.url \in {"me", "sync", "register"} THEN signed ELSE q.bearer)
        /\ (c = signed \/ (c = q.cookie /\ q.url # "register"
                           /\ s # NoToken /\ s.exp > time + RefreshWindow))
    BY <1>1, <1>7, <1>8, <1>10
  <2>2. Live(signed, sec) /\ signed.sub = a.user /\ signed.exp > time + RefreshWindow
    BY <1>2, <1>8, <1>10, NamesAndTokens DEF Live
  <2>3. Lasts(a.user, time, b, c, sec)
    <3>1. CASE b = signed
      BY <2>2, <3>1 DEF Lasts
    <3>2. CASE b = q.bearer /\ q.url # "register"
      <4>1. Live(b, sec) => b.sub = a.user \/ b.exp <= time
        BY <1>3, <1>4, <1>5, <1>10, <3>2 DEF GoodAt, Live
      <4>2. CASE c = signed
        BY <2>2, <4>1, <4>2 DEF Lasts
      <4>3. CASE c = q.cookie /\ s # NoToken /\ s.exp > time + RefreshWindow
        <5>1. a.user = s.sub /\ Live(s, sec) /\ (s = b \/ s = c)
          BY <1>4, <1>5, <1>10, <3>2, <4>3 DEF GoodAt
        <5>. QED
          BY <4>1, <4>3, <5>1 DEF Lasts
      <4>. QED
        BY <2>1, <3>2, <4>2, <4>3
    <3>. QED
      BY <2>1, <3>1, <3>2
  <2>4. ASSUME Same(q.bearer, q.cookie, sec), q.url # "register"
        PROVE  /\ Live(q.bearer, sec) => q.bearer.sub = a.user
               /\ Live(q.cookie, sec) => q.cookie.sub = a.user
    BY <1>4, <1>5, <1>10, <2>4 DEF Same, GoodAt, Live
  <2>5. Same(q.bearer, q.cookie, sec) =>
          Same(b, c, sec) /\ Within(b, c, {a.user}, sec)
    BY <2>1, <2>2, <2>4 DEF Same, Within
  <2>6. a.gives # NoToken /\ a.sets = a.gives => Same(b, c, sec) /\ Within(b, c, {a.user}, sec)
    BY <1>1, <1>7, <1>8, <1>10, <2>2 DEF Same, Within
  <2>7. ASSUME NEW S, Same(q.bearer, q.cookie, sec), Within(q.bearer, q.cookie, S, sec),
               q.legacy \in S, q.url = "register" => q.who \in S
        PROVE  a.user \in S /\ Within(b, c, S, sec)
    <3>1. a.user \in S
      BY <1>4, <1>5, <1>6, <1>10, <2>7 DEF Within, GoodAt
    <3>. QED
      BY <2>5, <2>7, <3>1 DEF Within
  <2>8. Within(b, c, {a.user}, sec) => Within(b, c, {a.user, q.legacy}, sec)
    BY DEF Within
  <2>. QED
    BY <1>10, <2>3, <2>5, <2>6, <2>7, <2>8 DEF b, c
<1>. QED
  BY <1>9, <1>10

LEMMA AnswerIs == \A q : Answer(q) = AnswerAt(q, secret, registered, now)
<1>. SUFFICES ASSUME NEW q PROVE Answer(q) = AnswerAt(q, secret, registered, now)
  OBVIOUS
<1>. DEFINE b == q.bearer
            c == q.cookie
            old == q.legacy
<1>1. \A t : Verified(t) <=> GoodAt(t, secret, now)
  BY DEF Verified, GoodAt, Live
<1>2. Session(b, c) = SessionAt(b, c, secret, now)
  <2>1. (Verified(b) <=> GoodAt(b, secret, now)) /\ (Verified(c) <=> GoodAt(c, secret, now))
    BY <1>1
  <2>2. Verified(b) => b # NoToken
    BY DEF Verified
  <2>. QED
    BY <2>1, <2>2 DEF Session, SessionAt
<1>3. Presented(b, c, old) = PresentedAt(b, c, old, secret, now)
  BY <1>2 DEF Presented, PresentedAt
<1>4. Recognised(b, c, old) = RecognisedAt(b, c, old, secret, registered, now)
  BY <1>3 DEF Recognised, RecognisedAt
<1>5. \A u : Sign(u) = SignAt(u, secret, now)
  BY DEF Sign, SignAt
<1>. DEFINE u == RecognisedAt(b, c, old, secret, registered, now)
            s == SessionAt(b, c, secret, now)
            none == PresentedAt(b, c, old, secret, now) = NoName
<1>6. Sets(b, c, old) = IF u # NoName
                        THEN IF s = NoToken \/ (s # NoToken /\ s.exp - now <= RefreshWindow)
                             THEN SignAt(u, secret, now) ELSE Keep
                        ELSE IF none /\ (b # NoToken \/ c # NoToken) THEN NoToken ELSE Keep
  BY <1>2, <1>3, <1>4, <1>5 DEF Sets
<1>. QED
  BY <1>4, <1>5, <1>6 DEF Answer, AnswerAt

LEMMA RequestIs ==
  ASSUME SessionsTypeOK, NEW why \in Whys, NEW url \in Urls,
         NEW step \in {"first", "refresh", "reauth", "retry"}, NEW who \in Names \cup {NoName},
         NEW t \in Tokens \cup {NoToken}, NEW c \in Tokens \cup {NoToken},
         NEW refused \in {"no", "yes"}
  PROVE  LET r == Request(why, url, step, who, t, c, refused) IN
         /\ r \in Flows /\ r.at = "sent" /\ r.why = why /\ r.url = url /\ r.step = step
         /\ r.who = who /\ r.bearer = t /\ r.cookie = c /\ r.legacy = legacy
         /\ r.refused = refused /\ r.answer = NoAnswer
<1>1. NoAnswer \in Answers
  BY NamesAndTokens DEF NoAnswer, Answers, Statuses
<1>. QED
  BY <1>1 DEF Request, Flows, SessionsTypeOK

LEMMA UrlsAre ==
  /\ UrlOf("refresh") = "sync" /\ UrlOf("recover") = "sync" /\ UrlOf("save") = "save"
  /\ UrlOf("binds") = "save" /\ UrlOf("register") = "register" /\ UrlOf("reauth") = "register"
  /\ UrlOf("none") = "none"
  BY DEF UrlOf

LEMMA NothingIsKept ==
  /\ NoAnswer \in Answers /\ NoFlow \in Flows /\ NoFlow.at = "idle"
  /\ NoAnswer.gives \notin Tokens /\ NoAnswer.sets \notin Tokens
  /\ \A why \in Whys : UrlOf(why) \in Urls
<1>1. NoAnswer \in Answers
  BY NamesAndTokens DEF NoAnswer, Answers, Statuses
<1>2. NoFlow \in Flows /\ NoFlow.at = "idle"
  BY <1>1 DEF NoFlow, Flows, Whys, Urls
<1>3. \A why \in Whys : UrlOf(why) \in Urls
  BY DEF UrlOf, Whys, Urls
<1>. QED
  BY <1>1, <1>2, <1>3, NamesAndTokens DEF NoAnswer

\* What the browser has after the answer to the flow of p.
LEMMA AfterIs ==
  ASSUME SessionsTypeOK, SecretsKept, NEW p \in Slots
  PROVE  LET a == flow[p].answer IN
         /\ TokenAfter(a) = TokenFrom(token, a) /\ CookieAfter(a) = CookieFrom(cookie, a)
         /\ TokenAfter(a) \in Tokens \cup {NoToken} /\ CookieAfter(a) \in Tokens \cup {NoToken}
         /\ TokenAfter(a) # NoToken => TokenAfter(a).secret <= secret
         /\ CookieAfter(a) # NoToken => CookieAfter(a).secret <= secret
         /\ NameAfter(a) \in Names \cup {NoName}
         /\ a.user \in Names \cup {NoName} /\ a.at \in 0..LastSecond
<1>. DEFINE a == flow[p].answer
<1>1. a \in Answers /\ token \in Tokens \cup {NoToken} /\ cookie \in Tokens \cup {NoToken}
      /\ name \in Names \cup {NoName}
  BY DEF SessionsTypeOK, Flows
<1>2. /\ token # NoToken => token.secret <= secret
      /\ cookie # NoToken => cookie.secret <= secret
      /\ a.gives \in Tokens => a.gives.secret <= secret
      /\ a.sets \in Tokens => a.sets.secret <= secret
  BY DEF SecretsKept
<1>3. a.gives \in Tokens \cup {NoToken} /\ a.sets \in Tokens \cup {NoToken, Keep}
      /\ a.user \in Names \cup {NoName} /\ a.at \in 0..LastSecond
  BY <1>1 DEF Answers
<1>. HIDE DEF a
<1>4. /\ TokenAfter(a) = IF a.gives # NoToken THEN a.gives ELSE token
      /\ CookieAfter(a) = IF a.sets = Keep THEN cookie ELSE a.sets
      /\ NameAfter(a) = IF a.user # NoName THEN a.user ELSE name
  BY DEF TokenAfter, CookieAfter, NameAfter
<1>5. TokenAfter(a) = TokenFrom(token, a) /\ CookieAfter(a) = CookieFrom(cookie, a)
  BY <1>4 DEF TokenFrom, CookieFrom
<1>6. TokenAfter(a) \in Tokens \cup {NoToken} /\ CookieAfter(a) \in Tokens \cup {NoToken}
      /\ NameAfter(a) \in Names \cup {NoName}
  BY <1>1, <1>3, <1>4
<1>7. /\ TokenAfter(a) # NoToken => TokenAfter(a).secret <= secret
      /\ CookieAfter(a) # NoToken => CookieAfter(a).secret <= secret
  BY <1>2, <1>3, <1>4
<1>. QED
  BY <1>3, <1>5, <1>6, <1>7 DEF a

LEMMA SessionsInvInit == SessionsInit => SessionsInv
<1>. SUFFICES ASSUME SessionsInit PROVE SessionsInv
  OBVIOUS
<1>1. \A p \in Slots : flow[p] = NoFlow
  BY DEF SessionsInit
<1>2. SessionsTypeOK
  BY NothingIsKept, NamesAndTokens DEF SessionsInit, SessionsTypeOK
<1>3. SecretsKept
  BY <1>1, NothingIsKept DEF SessionsInit, SecretsKept, NoFlow
<1>4. SeenInv /\ ShownInv /\ FlowsInv
  BY <1>1, NothingIsKept DEF SessionsInit, SeenInv, ShownInv, FlowsInv, Lone, Same, Live
<1>5. NamesGiven
  BY <1>1, UrlsAre DEF NamesGiven, NoFlow
<1>. QED
  BY <1>2, <1>3, <1>4, <1>5 DEF SessionsInv

\* An answer to the flow under way, while flows do not overlap.
LEMMA CalmAnswer ==
  ASSUME SessionsInv, disturbed # "yes", NEW p \in Slots, flow[p].at = "answered"
  PROVE  LET q == flow[p]
             a == q.answer
             b == TokenAfter(a)
             c == CookieAfter(a) IN
         /\ a.user # NoName => Lasts(a.user, a.at, b, c, secret) /\ a.user \in registered
                               /\ a.at <= now /\ a.status = "ok"
         /\ a.user = NoName => b = token /\ (c = cookie \/ (c = NoToken /\ Lapsed))
         /\ a.status = "unauthorized" => a.user = NoName /\ Lapsed /\ q.url \in {"me", "save"}
         /\ a.status # "ok" => a.user = NoName
         /\ a.gives # NoToken => q.url \in {"me", "sync", "register"}
         /\ a.gives # NoToken /\ a.sets = a.gives =>
              a.user # NoName /\ Same(b, c, secret) /\ Within(b, c, {a.user, legacy}, secret)
         /\ disturbed = "no" =>
              /\ Same(b, c, secret)
              /\ a.user # NoName => Within(b, c, {a.user, legacy}, secret)
              /\ player # NoName /\ ~(q.url = "register" /\ q.why = "register") =>
                   a.user \in {player, legacy, NoName}
                   /\ Within(b, c, {player, legacy}, secret)
<1>. DEFINE q == flow[p]
            a == q.answer
            b == TokenAfter(a)
            c == CookieAfter(a)
<1>1. /\ q \in Flows /\ secret \in 0..MaxRestarts /\ registered \in SUBSET Names
      /\ now \in 0..LastSecond /\ a.at \in 0..LastSecond /\ a \in Answers
      /\ seen.who \in Names \cup {NoName} /\ seen.at \in 0..LastSecond
  BY DEF SessionsInv, SessionsTypeOK, Flows, Answers
<1>2. FlowKept(q) /\ AnswerKept(q)
  BY DEF SessionsInv, FlowsInv, FlowKept
<1>3. b = TokenFrom(token, a) /\ c = CookieFrom(cookie, a)
  BY AfterIs DEF SessionsInv
<1>4. q.bearer = token /\ q.cookie = cookie /\ q.legacy = legacy
  BY <1>2 DEF FlowKept
<1>5. /\ q.bearer \in Tokens \cup {NoToken} /\ q.cookie \in Tokens \cup {NoToken}
      /\ q.legacy \in Names \cup {NoName} /\ q.url \in Urls /\ (q.url = "register" => q.who \in Names)
  BY <1>1 DEF Flows, SessionsInv, NamesGiven
<1>6. CASE a.status \in {"ok", "unauthorized"}
  <2>1. /\ a = AnswerAt(q, secret, registered, a.at) /\ a.at <= now
        /\ seen.who # NoName => seen.at <= a.at
        /\ q.url = "register" => q.who \in registered
    BY <1>2, <1>6 DEF AnswerKept
  <2>2. PICK d : d = a
    OBVIOUS
  <2>. DEFINE u == RecognisedAt(q.bearer, q.cookie, q.legacy, secret, registered, d.at)
  <2>3. d = AnswerAt(q, secret, registered, d.at) /\ d.at \in 0..LastSecond
    BY <1>1, <2>1, <2>2
  <2>4. /\ d.status = IF d.user = NoName /\ q.url # "sync" THEN "unauthorized" ELSE "ok"
        /\ d.user = IF q.url = "register" THEN q.who ELSE u
        /\ d.gives = IF d.user # NoName /\ q.url \in {"me", "sync", "register"}
                     THEN SignAt(d.user, secret, d.at) ELSE NoToken
    BY <1>1, <1>5, <2>3, Answering
  <2>5. /\ d.user = NoName => b = token /\ (c = cookie \/ c = NoToken)
        /\ d.user # NoName => Lasts(d.user, d.at, b, c, secret)
        /\ Same(token, cookie, secret) => Same(b, c, secret)
        /\ Same(token, cookie, secret) /\ d.user # NoName => Within(b, c, {d.user, legacy}, secret)
        /\ d.gives # NoToken /\ d.sets = d.gives =>
             d.user # NoName /\ Same(b, c, secret) /\ Within(b, c, {d.user, legacy}, secret)
        /\ \A S : /\ Same(token, cookie, secret) /\ Within(token, cookie, S, secret)
                  /\ legacy \in S /\ (q.url = "register" => q.who \in S)
             => d.user \in S \cup {NoName} /\ Within(b, c, S, secret)
    <3>. HIDE DEF q, b, c
    <3>1. /\ d.user = NoName => TokenFrom(q.bearer, d) = q.bearer
                                /\ (CookieFrom(q.cookie, d) = q.cookie \/ CookieFrom(q.cookie, d) = NoToken)
          /\ d.user # NoName =>
               Lasts(d.user, d.at, TokenFrom(q.bearer, d), CookieFrom(q.cookie, d), secret)
          /\ Same(q.bearer, q.cookie, secret) =>
               Same(TokenFrom(q.bearer, d), CookieFrom(q.cookie, d), secret)
          /\ Same(q.bearer, q.cookie, secret) /\ d.user # NoName =>
               Within(TokenFrom(q.bearer, d), CookieFrom(q.cookie, d), {d.user, q.legacy}, secret)
          /\ d.gives # NoToken /\ d.sets = d.gives =>
               /\ d.user # NoName
               /\ Same(TokenFrom(q.bearer, d), CookieFrom(q.cookie, d), secret)
               /\ Within(TokenFrom(q.bearer, d), CookieFrom(q.cookie, d), {d.user, q.legacy}, secret)
          /\ \A S : /\ Same(q.bearer, q.cookie, secret) /\ Within(q.bearer, q.cookie, S, secret)
                    /\ q.legacy \in S /\ (q.url = "register" => q.who \in S)
               => d.user \in S \cup {NoName}
                  /\ Within(TokenFrom(q.bearer, d), CookieFrom(q.cookie, d), S, secret)
      BY <1>1, <1>5, <2>3, Credentials
    <3>. QED
      BY <1>3, <1>4, <2>2, <3>1
  <2>6. ASSUME d.user = NoName PROVE Lapsed
    <3>1. u = NoName
      BY <1>5, <2>4, <2>6, NamesAndTokens
    <3>2. SUFFICES ASSUME seen.who # NoName, ~(now > seen.at + RefreshWindow) PROVE FALSE
      BY DEF Lapsed
    <3>3. seen.who \in registered /\ Lasts(seen.who, seen.at, token, cookie, secret)
      BY <3>2 DEF SessionsInv, SeenInv, Lapsed
    <3>4. seen.at \in Nat /\ seen.at <= d.at /\ d.at <= seen.at + RefreshWindow
      BY <1>1, <2>1, <2>2, <3>2, NamesAndTokens
    <3>5. RecognisedAt(token, cookie, q.legacy, secret, registered, d.at) = seen.who
      <4>1. PICK old : old = q.legacy
        OBVIOUS
      <4>2. PICK then : then = seen.at
        OBVIOUS
      <4>3. PICK who : who = seen.who
        OBVIOUS
      <4>4. /\ token \in Tokens \cup {NoToken} /\ cookie \in Tokens \cup {NoToken}
            /\ old \in Names \cup {NoName} /\ who \in registered /\ then \in Nat
            /\ Lasts(who, then, token, cookie, secret)
            /\ then <= d.at /\ d.at <= then + RefreshWindow
        BY <1>4, <1>5, <3>3, <3>4, <4>1, <4>2, <4>3
      <4>. HIDE DEF q
      <4>5. RecognisedAt(token, cookie, old, secret, registered, d.at) = who
        BY <1>1, <2>3, <4>4, LastingIsRecognised
      <4>. QED
        BY <4>1, <4>3, <4>5
    <3>. QED
      BY <1>4, <3>1, <3>2, <3>5
  <2>7. d.user # NoName => d.user \in registered
    <3>1. u \in registered \cup {NoName}
      <4>. HIDE DEF q
      <4>. QED
        BY <1>1, <1>5, <2>3, Recognising
    <3>. QED
      BY <2>1, <2>4, <3>1
  <2>8. ASSUME disturbed = "no", player # NoName, ~(q.url = "register" /\ q.why = "register")
        PROVE  d.user \in {player, legacy, NoName} /\ Within(b, c, {player, legacy}, secret)
    <3>1. Same(token, cookie, secret) /\ Within(token, cookie, {player, legacy}, secret)
      BY <2>8 DEF SessionsInv, ShownInv
    <3>2. q.url = "register" => q.who \in {player, legacy}
      BY <1>2, <2>8 DEF FlowKept
    <3>. HIDE DEF q, b, c
    <3>3. d.user \in {player, legacy} \cup {NoName} /\ Within(b, c, {player, legacy}, secret)
      BY <2>5, <3>1, <3>2
    <3>. QED
      BY <3>3
  <2>9. disturbed = "no" => Same(token, cookie, secret)
    BY DEF SessionsInv, ShownInv
  <2>10. q.url = "register" => q.who # NoName
    BY <1>5, NamesAndTokens
  <2>. HIDE DEF u
  <2>11. d.status = "unauthorized" => d.user = NoName /\ q.url \in {"me", "save"}
    <3>1. q.url \in {"me", "sync", "save", "register"}
      BY <1>2 DEF FlowKept
    <3>. QED
      BY <2>4, <2>10, <3>1
  <2>. QED
    BY <1>6, <2>1, <2>2, <2>4, <2>5, <2>6, <2>7, <2>8, <2>9, <2>11
<1>7. CASE a.status \notin {"ok", "unauthorized"}
  <2>1. a.user = NoName /\ a.gives = NoToken /\ a.sets = Keep
    BY <1>2, <1>7 DEF AnswerKept
  <2>2. b = token /\ c = cookie
    BY <1>3, <2>1 DEF TokenFrom, CookieFrom
  <2>. QED
    BY <1>7, <2>1, <2>2 DEF SessionsInv, ShownInv
<1>. QED
  BY <1>6, <1>7

\* While flows do not overlap, the others are idle.
LEMMA OthersAreIdle ==
  ASSUME SessionsInv, disturbed # "yes", NEW p \in Slots, flow[p].at # "idle"
  PROVE  \A r \in Slots \ {p} : flow[r].at = "idle"
  BY DEF SessionsInv, FlowsInv, Lone

LEMMA OneFlowIsKept ==
  ASSUME NEW p \in Slots, disturbed' # "yes" => \A r \in Slots \ {p} : flow'[r].at = "idle",
         disturbed' # "yes" /\ flow'[p].at # "idle" => FlowKept(flow[p])'
  PROVE  FlowsInv'
<1>. SUFFICES ASSUME disturbed' # "yes"
              PROVE  Lone' /\ \A r \in Slots : flow'[r].at # "idle" => FlowKept(flow[r])'
  BY DEF FlowsInv
<1>1. Lone'
  BY DEF Lone
<1>2. ASSUME NEW r \in Slots, flow'[r].at # "idle" PROVE FlowKept(flow[r])'
  <2>1. r = p
    BY <1>2
  <2>. QED
    BY <1>2, <2>1
<1>. QED
  BY <1>1, <1>2

\* An answer arrives at the browser, or something else does.
LEMMA AnswerStep ==
  ASSUME SessionsInv, NEW p \in Slots, NEW a \in Answers, flow[p].at = "sent",
         flow' = [flow EXCEPT ![p].at = "answered", ![p].answer = a],
         UNCHANGED <<now, secret, browserVars, pageVars, disturbed, seen>>,
         registered' \in SUBSET Names, registered \subseteq registered',
         a.gives \in Tokens => a.gives.secret <= secret, a.sets \in Tokens => a.sets.secret <= secret,
         AnswerKept(flow[p])'
  PROVE  SessionsInv'
<1>. DEFINE q == flow[p]
<1>0. PICK r : r = flow'[p]
  OBVIOUS
<1>1. flow \in [Slots -> Flows] /\ q \in Flows
  BY DEF SessionsInv, SessionsTypeOK
<1>2. /\ r = [q EXCEPT !.at = "answered", !.answer = a]
      /\ \A s \in Slots \ {p} : flow'[s] = flow[s]
      /\ DOMAIN flow' = Slots
  BY <1>0, <1>1
<1>3. UNCHANGED <<now, secret, cookie, legacy, token, name, player, online, reauth, disturbed, seen>>
  BY DEF browserVars, pageVars
<1>. HIDE DEF q
<1>4. /\ r \in Flows /\ r.at = "answered" /\ r.answer = a /\ r.why = q.why /\ r.url = q.url
      /\ r.step = q.step /\ r.who = q.who /\ r.bearer = q.bearer /\ r.cookie = q.cookie
      /\ r.legacy = q.legacy /\ r.refused = q.refused
  BY <1>1, <1>2 DEF Flows
<1>5. SessionsTypeOK'
  <2>1. flow' \in [Slots -> Flows]
    <3>1. \A s \in Slots : flow'[s] \in Flows
      BY <1>0, <1>1, <1>2, <1>4
    <3>2. flow' = [s \in Slots |-> flow'[s]]
      BY <1>1
    <3>. QED
      BY <3>1, <3>2
  <2>. QED
    BY <1>3, <2>1 DEF SessionsTypeOK, SessionsInv
<1>6. SecretsKept'
  <2>1. ASSUME NEW s \in Slots, NEW t \in Tokens,
               t \in {flow'[s].answer.gives, flow'[s].answer.sets}
        PROVE  t.secret <= secret
    <3>1. CASE s = p
      BY <1>0, <1>4, <2>1, <3>1
    <3>2. CASE s # p
      BY <1>2, <2>1, <3>2 DEF SessionsInv, SecretsKept
    <3>. QED
      BY <3>1, <3>2
  <2>. QED
    BY <1>3, <2>1 DEF SessionsInv, SecretsKept
<1>7. NamesGiven'
  BY <1>0, <1>2, <1>4 DEF SessionsInv, NamesGiven, q
<1>8. SeenInv' /\ (Lapsed => Lapsed') /\ ShownInv'
  BY <1>3 DEF SessionsInv, SeenInv, ShownInv, Lapsed
<1>9. FlowsInv'
  <2>1. disturbed' # "yes" => \A s \in Slots \ {p} : flow'[s].at = "idle"
    BY <1>2, <1>3, OthersAreIdle
  <2>2. ASSUME disturbed' # "yes" PROVE FlowKept(flow[p])'
    <3>1. FlowKept(q)
      BY <1>3, <2>2 DEF SessionsInv, FlowsInv, q
    <3>. QED
      BY <1>0, <1>3, <1>4, <1>8, <3>1 DEF FlowKept
  <2>. QED
    BY <2>1, <2>2, OneFlowIsKept
<1>. QED
  BY <1>5, <1>6, <1>7, <1>8, <1>9 DEF SessionsInv

LEMMA ServeStep ==
  ASSUME SessionsInv, NEW p \in Slots, NEW arrives \in {"yes", "no"}, Serve(p, arrives)
  PROVE  SessionsInv'
<1>. DEFINE q == flow[p]
            a == IF arrives = "yes" THEN Answer(q) ELSE [NoAnswer EXCEPT !.status = "lost"]
<1>1. /\ flow[p].at = "sent" /\ flow' = [flow EXCEPT ![p].at = "answered", ![p].answer = a]
      /\ registered' = IF q.url = "register" THEN registered \cup {q.who} ELSE registered
      /\ UNCHANGED <<now, secret, browserVars, pageVars, disturbed, seen>>
  BY DEF Serve
<1>2. /\ q \in Flows /\ flow \in [Slots -> Flows] /\ registered \in SUBSET Names
      /\ secret \in 0..MaxRestarts /\ now \in 0..LastSecond /\ seen.at \in 0..LastSecond
      /\ (q.url = "register" => q.who \in Names)
  BY DEF SessionsInv, SessionsTypeOK, NamesGiven
<1>3. registered' \in SUBSET Names /\ registered \subseteq registered'
  BY <1>1, <1>2
<1>4. q.bearer \in Tokens \cup {NoToken} /\ q.cookie \in Tokens \cup {NoToken}
      /\ q.legacy \in Names \cup {NoName} /\ q.url \in Urls
  BY <1>2 DEF Flows
<1>5. CASE arrives = "yes"
  <2>1. a = AnswerAt(q, secret, registered, now)
    BY <1>5, AnswerIs
  <2>2. /\ a \in Answers /\ a.at = now /\ a.status \in {"ok", "unauthorized"}
        /\ a.gives = NoToken \/ a.gives = SignAt(a.user, secret, now)
        /\ a.user # NoName => a.sets \in {SignAt(a.user, secret, now), Keep}
        /\ a.user = NoName => a.gives = NoToken /\ a.sets \in {Keep, NoToken}
    <3>. HIDE DEF q, a
    <3>. QED
      BY <1>2, <1>4, <2>1, Answering
  <2>3. \A u : SignAt(u, secret, now).secret <= secret
    BY <1>2 DEF SignAt
  <2>4. /\ a.gives \in Tokens => a.gives.secret <= secret
        /\ a.sets \in Tokens => a.sets.secret <= secret
    BY <2>2, <2>3, NamesAndTokens
  <2>5. PICK r : r = flow'[p]
    OBVIOUS
  <2>10. r = [q EXCEPT !.at = "answered", !.answer = a]
    BY <1>1, <1>2, <2>5
  <2>6. /\ r.answer = a /\ r.url = q.url /\ r.who = q.who /\ r.bearer = q.bearer
        /\ r.cookie = q.cookie /\ r.legacy = q.legacy
    BY <1>2, <2>10 DEF Flows
  <2>. HIDE DEF a, q
  <2>7. AnswerAt(q, secret, registered, now) = AnswerAt(r, secret, registered', now)
    BY <1>1, <2>6 DEF AnswerAt
  <2>8. seen.who # NoName => seen.at <= now
    BY DEF SessionsInv, SeenInv
  <2>9. AnswerKept(flow[p])'
    <3>1. /\ a = AnswerAt(r, secret, registered', a.at) /\ a.at <= now
          /\ q.url = "register" => q.who \in registered'
      BY <1>1, <1>2, <2>1, <2>2, <2>7
    <3>. QED
      BY <1>1, <2>2, <2>5, <2>6, <2>8, <3>1 DEF AnswerKept
  <2>. QED
    BY <1>1, <1>3, <2>2, <2>4, <2>9, AnswerStep
<1>6. CASE arrives # "yes"
  <2>1. a = [NoAnswer EXCEPT !.status = "lost"]
    BY <1>6
  <2>. HIDE DEF a
  <2>2. /\ a \in Answers /\ a.status = "lost" /\ a.user = NoName /\ a.gives = NoToken
        /\ a.sets = Keep
    BY <2>1, NothingIsKept DEF NoAnswer, Answers, Statuses
  <2>3. flow'[p].answer = a
    BY <1>1, <1>2 DEF Flows
  <2>4. AnswerKept(flow[p])'
    BY <2>2, <2>3 DEF AnswerKept
  <2>. HIDE DEF q
  <2>. QED
    BY <1>1, <1>3, <2>2, <2>4, AnswerStep, NamesAndTokens
<1>. QED
  BY <1>5, <1>6

LEMMA ServeBadlyStep ==
  ASSUME SessionsInv, NEW p \in Slots, NEW status \in {"limited", "error"}, ServeBadly(p, status)
  PROVE  SessionsInv'
<1>. DEFINE a == [NoAnswer EXCEPT !.status = status]
<1>1. /\ flow[p].at = "sent" /\ flow' = [flow EXCEPT ![p].at = "answered", ![p].answer = a]
      /\ UNCHANGED <<now, secret, registered, browserVars, pageVars, disturbed, seen>>
  BY DEF ServeBadly
<1>2. flow \in [Slots -> Flows] /\ registered \in SUBSET Names
  BY DEF SessionsInv, SessionsTypeOK
<1>3. /\ a \in Answers /\ a.status = status /\ a.user = NoName /\ a.gives = NoToken
      /\ a.sets = Keep
  BY NothingIsKept DEF NoAnswer, Answers, Statuses
<1>. HIDE DEF a
<1>4. flow'[p].answer = a
  BY <1>1, <1>2 DEF Flows
<1>5. AnswerKept(flow[p])'
  BY <1>3, <1>4 DEF AnswerKept
<1>. QED
  BY <1>1, <1>2, <1>3, <1>5, AnswerStep, NamesAndTokens

LEMMA DisturbingStep ==
  ASSUME SessionsInv, Disturbs, UNCHANGED <<now, browserVars, pageVars, flow>>,
         secret' \in 0..MaxRestarts, registered' \in SUBSET Names,
         secret' = secret \/ secret' = secret + 1
  PROVE  SessionsInv'
<1>1. UNCHANGED <<now, cookie, legacy, token, name, player, online, reauth, flow>>
  BY DEF browserVars, pageVars
<1>2. /\ seen' = [who |-> NoName, at |-> 0]
      /\ disturbed' = IF Busy THEN "yes" ELSE disturbed
  BY DEF Disturbs
<1>3. SessionsTypeOK
  BY DEF SessionsInv
<1>4. SessionsTypeOK'
  BY <1>1, <1>2, <1>3, NamesAndTokens DEF SessionsTypeOK
<1>5. NamesGiven'
  BY <1>1 DEF SessionsInv, NamesGiven
<1>6. SecretsKept'
  <2>1. \A t \in Tokens : t.secret <= secret => t.secret <= secret'
    BY <1>3, TokensAre DEF SessionsTypeOK
  <2>2. token \in Tokens \cup {NoToken} /\ cookie \in Tokens \cup {NoToken}
    BY <1>3 DEF SessionsTypeOK
  <2>. QED
    BY <1>1, <2>1, <2>2 DEF SessionsInv, SecretsKept
<1>7. SeenInv'
  BY <1>2 DEF SeenInv
<1>8. ShownInv'
  <2>1. CASE secret' = secret
    BY <1>1, <1>2, <2>1 DEF SessionsInv, ShownInv
  <2>2. CASE secret' = secret + 1
    <3>1. secret \in Nat /\ token \in Tokens \cup {NoToken} /\ cookie \in Tokens \cup {NoToken}
      BY <1>3 DEF SessionsTypeOK
    <3>2. /\ token # NoToken => token.secret \in Nat /\ token.secret <= secret
          /\ cookie # NoToken => cookie.secret \in Nat /\ cookie.secret <= secret
      BY <3>1, TokensAre DEF SessionsInv, SecretsKept
    <3>3. ~Live(token, secret') /\ ~Live(cookie, secret')
      BY <2>2, <3>1, <3>2 DEF Live
    <3>. QED
      BY <1>1, <1>2, <3>3 DEF SessionsInv, ShownInv, Same, Within
  <2>. QED
    BY <2>1, <2>2
<1>9. FlowsInv'
  BY <1>1, <1>2 DEF Busy, FlowsInv, Lone
<1>. QED
  BY <1>4, <1>5, <1>6, <1>7, <1>8, <1>9 DEF SessionsInv

LEMMA SecondStep == ASSUME SessionsInv, SecondPasses PROVE SessionsInv'
<1>1. UNCHANGED <<secret, registered, cookie, legacy, token, name, player, online, reauth,
                  flow, disturbed, seen>>
  BY DEF SecondPasses, browserVars, pageVars
<1>2. /\ now \in 0..LastSecond /\ now' = now + 1 /\ now' \in 0..LastSecond
      /\ seen.at \in 0..LastSecond
  BY NamesAndTokens DEF SecondPasses, SessionsInv, SessionsTypeOK
<1>3. SessionsTypeOK' /\ NamesGiven' /\ SecretsKept' /\ ShownInv'
  BY <1>1, <1>2 DEF SessionsInv, SessionsTypeOK, NamesGiven, SecretsKept, ShownInv
<1>4. Lapsed => Lapsed'
  BY <1>1, <1>2, NamesAndTokens DEF Lapsed
<1>5. SeenInv'
  BY <1>1, <1>2, <1>4 DEF SessionsInv, SeenInv
<1>6. FlowsInv'
  <2>1. ASSUME NEW p \in Slots, disturbed # "yes", flow[p].at # "idle" PROVE FlowKept(flow[p])'
    <3>1. flow[p].answer.at \in Nat
      BY DEF SessionsInv, SessionsTypeOK, Flows, Answers
    <3>2. FlowKept(flow[p])
      BY <2>1 DEF SessionsInv, FlowsInv
    <3>3. PICK q : q = flow[p] /\ q = flow'[p]
      BY <1>1
    <3>4. AnswerKept(q) => AnswerKept(q)'
      BY <1>1, <1>2, <3>1, <3>3 DEF AnswerKept
    <3>5. FlowKept(q)'
      BY <1>1, <1>4, <3>2, <3>3, <3>4 DEF FlowKept
    <3>. QED
      BY <3>3, <3>5
  <2>. QED
    BY <1>1, <2>1 DEF SessionsInv, FlowsInv, Lone
<1>. QED
  BY <1>3, <1>5, <1>6 DEF SessionsInv

\* A flow begins with what the browser has.
LEMMA StartStep ==
  ASSUME SessionsInv, NEW p \in Slots, flow[p].at = "idle", Begins(p),
         NEW why \in Whys \ {"none"}, NEW who \in Names \cup {NoName},
         flow' = [flow EXCEPT ![p] = Request(why, UrlOf(why), "first", who, token, cookie, "no")],
         UrlOf(why) = "register" => who \in Names, why = "reauth" => player = NoName,
         UNCHANGED <<now, secret, registered, browserVars, player, online>>,
         reauth' \in {"no", "yes"}
  PROVE  SessionsInv'
<1>1. UNCHANGED <<now, secret, registered, cookie, legacy, token, name, player, online>>
  BY DEF browserVars
<1>2. SessionsTypeOK /\ UrlOf(why) \in {"sync", "save", "register"}
  BY UrlsAre DEF SessionsInv, Whys
<1>3. PICK r : r = Request(why, UrlOf(why), "first", who, token, cookie, "no")
  OBVIOUS
<1>4. /\ r \in Flows /\ r.at = "sent" /\ r.why = why /\ r.url = UrlOf(why) /\ r.step = "first"
      /\ r.who = who /\ r.bearer = token /\ r.cookie = cookie /\ r.legacy = legacy
      /\ r.refused = "no" /\ r.answer = NoAnswer
  <2>1. UrlOf(why) \in Urls /\ token \in Tokens \cup {NoToken} /\ cookie \in Tokens \cup {NoToken}
    BY <1>2 DEF SessionsTypeOK, Urls
  <2>. QED
    BY <1>2, <1>3, <2>1, RequestIs
<1>5. flow \in [Slots -> Flows]
  BY <1>2 DEF SessionsTypeOK
<1>6. flow' = [flow EXCEPT ![p] = r] /\ flow' \in [Slots -> Flows] /\ flow'[p] = r
      /\ \A s \in Slots \ {p} : flow'[s] = flow[s]
  BY <1>3, <1>4, <1>5
<1>7. /\ disturbed' = IF Under(p) # {} THEN "yes" ELSE IF disturbed = "no" THEN "no" ELSE "mending"
      /\ seen' = IF Under(p) = {} THEN seen ELSE [who |-> NoName, at |-> 0]
  BY DEF Begins
<1>8. SessionsTypeOK'
  <2>1. seen' \in [who : Names \cup {NoName}, at : 0..LastSecond]
    BY <1>2, <1>7, NamesAndTokens DEF SessionsTypeOK
  <2>2. disturbed' \in {"no", "yes", "mending"}
    BY <1>7
  <2>. QED
    BY <1>1, <1>2, <1>6, <2>1, <2>2 DEF SessionsTypeOK
<1>9. NamesGiven'
  BY <1>4, <1>6 DEF SessionsInv, NamesGiven
<1>10. SecretsKept'
  BY <1>1, <1>4, <1>6, NothingIsKept DEF SessionsInv, SecretsKept
<1>11. SeenInv'
  BY <1>1, <1>7 DEF SessionsInv, SeenInv, Lapsed
<1>12. ShownInv'
  BY <1>1, <1>7 DEF SessionsInv, ShownInv
<1>13. FlowsInv'
  <2>1. disturbed' # "yes" => \A s \in Slots \ {p} : flow'[s].at = "idle"
    BY <1>6, <1>7 DEF Under
  <2>2. UrlOf(why) = "register" => why \in {"register", "reauth"}
    BY UrlsAre DEF Whys
  <2>3. UrlOf(why) = "register" /\ why # "register" => player = NoName
    BY <2>2
  <2>4. FlowKept(flow[p])'
    BY <1>1, <1>2, <1>4, <1>6, <2>3 DEF FlowKept
  <2>. QED
    BY <2>1, <2>4, OneFlowIsKept
<1>. QED
  BY <1>8, <1>9, <1>10, <1>11, <1>12, <1>13 DEF SessionsInv

\* Who was recognised still is, when the browser has taken what the answer gave or has
\* forgotten it all.
LEMMA SeenAfter ==
  ASSUME SessionsInv, NEW p \in Slots, flow[p].at = "answered",
         UNCHANGED <<now, secret, registered>>,
         cookie' = CookieAfter(flow[p].answer),
         \/ token' = TokenAfter(flow[p].answer)
         \/ token' = NoToken /\ (disturbed # "yes" => flow[p].answer.user = NoName /\ Lapsed),
         seen' = IF flow[p].answer.user # NoName /\ disturbed' = "no"
                 THEN [who |-> flow[p].answer.user, at |-> flow[p].answer.at] ELSE seen,
         disturbed = "no" => disturbed' = "no", disturbed' = "no" => disturbed # "yes"
  PROVE  SeenInv'
<1>. DEFINE a == flow[p].answer
            b == TokenAfter(a)
            c == CookieAfter(a)
<1>1. CASE disturbed = "yes"
  BY <1>1 DEF SessionsInv, SeenInv
<1>2. CASE disturbed # "yes"
  <2>1. /\ a.user # NoName => Lasts(a.user, a.at, b, c, secret) /\ a.user \in registered
                              /\ a.at <= now
        /\ a.user = NoName => b = token /\ (c = cookie \/ (c = NoToken /\ Lapsed))
    BY <1>2, CalmAnswer
  <2>. HIDE DEF a, b, c
  <2>2. CASE a.user # NoName /\ disturbed' = "no"
    <3>1. seen' = [who |-> a.user, at |-> a.at] /\ token' = b /\ cookie' = c
      BY <1>2, <2>2 DEF a, b, c
    <3>2. seen'.who = a.user /\ seen'.at = a.at
      BY <3>1
    <3>. QED
      BY <2>1, <2>2, <3>1, <3>2 DEF SeenInv
  <2>3. CASE ~(a.user # NoName /\ disturbed' = "no")
    <3>1. seen' = seen
      BY <2>3 DEF a
    <3>2. SUFFICES ASSUME seen.who # NoName PROVE SeenInv'
      BY <3>1 DEF SeenInv
    <3>3. disturbed = "no" /\ disturbed' = "no" /\ a.user = NoName
      BY <2>3, <3>2 DEF SessionsInv, SeenInv
    <3>4. ~Lapsed => token' = token /\ cookie' = cookie
      BY <1>2, <2>1, <3>3 DEF a, b, c
    <3>5. Lapsed' <=> Lapsed
      BY <3>1 DEF Lapsed
    <3>. QED
      BY <3>1, <3>3, <3>4, <3>5 DEF SessionsInv, SeenInv
  <2>. QED
    BY <2>2, <2>3
<1>. QED
  BY <1>1, <1>2

\* A flow goes on, or ends, with what its answer gave or without anything.
LEMMA TakesStep ==
  ASSUME SessionsInv, NEW p \in Slots, flow[p].at = "answered", NEW r \in Flows,
         flow' = [flow EXCEPT ![p] = r], Takes(p, flow[p].answer),
         \/ token' = TokenAfter(flow[p].answer)
         \/ token' = NoToken /\ (disturbed # "yes" => flow[p].answer.user = NoName /\ Lapsed),
         name' \in Names \cup {NoName}, player' \in Names \cup {NoName},
         online' \in {"no", "yes"}, reauth' \in {"no", "yes"},
         disturbed' = disturbed \/ (disturbed = "mending" /\ disturbed' = "no"),
         "register" \in {r.url, UrlOf(r.why)} => r.who \in Names,
         r.answer = NoAnswer, ShownInv',
         disturbed # "yes" /\ r.at # "idle" => FlowKept(flow[p])'
  PROVE  SessionsInv'
<1>. DEFINE a == flow[p].answer
<1>1. /\ cookie' = CookieAfter(a)
      /\ seen' = IF a.user # NoName /\ disturbed' = "no" THEN [who |-> a.user, at |-> a.at] ELSE seen
      /\ UNCHANGED <<now, secret, registered, legacy>>
  BY DEF Takes
<1>2. SessionsTypeOK /\ SecretsKept
  BY DEF SessionsInv
<1>3. /\ TokenAfter(a) \in Tokens \cup {NoToken} /\ CookieAfter(a) \in Tokens \cup {NoToken}
      /\ TokenAfter(a) # NoToken => TokenAfter(a).secret <= secret
      /\ CookieAfter(a) # NoToken => CookieAfter(a).secret <= secret
      /\ a.user \in Names \cup {NoName} /\ a.at \in 0..LastSecond
  BY <1>2, AfterIs
<1>. HIDE DEF a
<1>4. flow \in [Slots -> Flows]
  BY <1>2 DEF SessionsTypeOK
<1>5. /\ flow' \in [Slots -> Flows] /\ flow'[p] = r
      /\ \A s \in Slots \ {p} : flow'[s] = flow[s]
  BY <1>4
<1>6. token' \in Tokens \cup {NoToken} /\ cookie' \in Tokens \cup {NoToken}
      /\ (token' # NoToken => token'.secret <= secret)
      /\ (cookie' # NoToken => cookie'.secret <= secret)
  BY <1>1, <1>3 DEF a
<1>7. SessionsTypeOK'
  <2>1. seen' \in [who : Names \cup {NoName}, at : 0..LastSecond]
    BY <1>1, <1>2, <1>3 DEF SessionsTypeOK
  <2>2. disturbed' \in {"no", "yes", "mending"}
    BY <1>2 DEF SessionsTypeOK
  <2>. QED
    BY <1>1, <1>2, <1>5, <1>6, <2>1, <2>2 DEF SessionsTypeOK
<1>8. NamesGiven'
  BY <1>5 DEF SessionsInv, NamesGiven
<1>9. SecretsKept'
  <2>1. r.answer.gives \notin Tokens /\ r.answer.sets \notin Tokens
    BY NothingIsKept
  <2>. QED
    BY <1>1, <1>2, <1>5, <1>6, <2>1 DEF SecretsKept
<1>10. SeenInv'
  BY <1>1, SeenAfter DEF a
<1>11. FlowsInv'
  <2>1. disturbed' # "yes" => disturbed # "yes"
    OBVIOUS
  <2>2. disturbed' # "yes" => \A s \in Slots \ {p} : flow'[s].at = "idle"
    BY <1>5, <2>1, OthersAreIdle
  <2>. QED
    BY <1>5, <2>1, <2>2, OneFlowIsKept
<1>. QED
  BY <1>7, <1>8, <1>9, <1>10, <1>11 DEF SessionsInv

\* A request that was refused goes on; url, step, who and refused are what it goes on with.
LEMMA GoesOnStep ==
  ASSUME SessionsInv, NEW p \in Slots, flow[p].at = "answered",
         NEW url \in Urls, NEW step \in {"refresh", "reauth", "retry"},
         NEW who \in Names \cup {NoName}, NEW refused \in {"no", "yes"},
         GoesOn(p, url, step, who, refused),
         "register" \in {url, UrlOf(flow[p].why)} => who \in Names,
         url = CASE step = "refresh" -> "me" [] step = "reauth" -> "register"
                 [] OTHER -> UrlOf(flow[p].why),
         disturbed # "yes" => UrlOf(flow[p].why) = "save",
         disturbed = "no" /\ player # NoName /\ url = "register" => who \in {player, legacy},
         disturbed # "yes" /\ refused = "yes" => flow[p].answer.user = NoName /\ Lapsed
  PROVE  SessionsInv'
<1>. DEFINE q == flow[p]
            a == q.answer
<1>1. SessionsTypeOK /\ SecretsKept
  BY DEF SessionsInv
<1>2. PICK r : r = Request(q.why, url, step, who, TokenAfter(a), CookieAfter(a), refused)
  OBVIOUS
<1>3. /\ flow' = [flow EXCEPT ![p] = r] /\ token' = TokenAfter(a) /\ name' = NameAfter(a)
      /\ UNCHANGED <<player, online, reauth, disturbed>> /\ Takes(p, a)
  BY <1>2 DEF GoesOn, pageVars
<1>4. /\ TokenAfter(a) \in Tokens \cup {NoToken} /\ CookieAfter(a) \in Tokens \cup {NoToken}
      /\ NameAfter(a) \in Names \cup {NoName}
  BY <1>1, AfterIs
<1>5. q.why \in Whys /\ flow \in [Slots -> Flows]
  BY <1>1 DEF SessionsTypeOK, Flows
<1>6. cookie' = CookieAfter(a) /\ legacy' = legacy /\ now' = now
      /\ seen' = IF a.user # NoName /\ disturbed' = "no" THEN [who |-> a.user, at |-> a.at] ELSE seen
  BY <1>3 DEF Takes
<1>. HIDE DEF a
<1>7. /\ r \in Flows /\ r.at = "sent" /\ r.why = q.why /\ r.url = url /\ r.step = step
      /\ r.who = who /\ r.bearer = TokenAfter(a) /\ r.cookie = CookieAfter(a)
      /\ r.legacy = legacy /\ r.refused = refused /\ r.answer = NoAnswer
  <2>1. PICK w : w = q.why
    OBVIOUS
  <2>2. PICK t : t = TokenAfter(a)
    OBVIOUS
  <2>3. PICK c : c = CookieAfter(a)
    OBVIOUS
  <2>4. w \in Whys /\ t \in Tokens \cup {NoToken} /\ c \in Tokens \cup {NoToken}
        /\ r = Request(w, url, step, who, t, c, refused)
    BY <1>2, <1>4, <1>5, <2>1, <2>2, <2>3
  <2>5. legacy \in Names \cup {NoName} /\ NoAnswer \in Answers
    BY <1>1, NothingIsKept DEF SessionsTypeOK
  <2>. HIDE DEF q
  <2>6. /\ r.at = "sent" /\ r.why = w /\ r.url = url /\ r.step = step
        /\ r.who = who /\ r.bearer = t /\ r.cookie = c
        /\ r.legacy = legacy /\ r.refused = refused /\ r.answer = NoAnswer
    BY <2>4 DEF Request
  <2>7. r \in Flows
    BY <2>4, <2>5 DEF Request, Flows
  <2>. QED
    BY <2>1, <2>2, <2>3, <2>6, <2>7
<1>8. ShownInv'
  <2>1. SUFFICES ASSUME disturbed = "no" PROVE ShownInv'
    BY <1>3 DEF ShownInv
  <2>2. q.why # "register"
    BY <2>1, UrlsAre
  <2>3. /\ Same(TokenAfter(a), CookieAfter(a), secret)
        /\ player # NoName => a.user \in {player, legacy, NoName}
                              /\ Within(TokenAfter(a), CookieAfter(a), {player, legacy}, secret)
    BY <2>1, <2>2, CalmAnswer DEF a
  <2>4. player # NoName => NameAfter(a) \in {player, legacy, NoName}
    BY <2>1, <2>3 DEF NameAfter, SessionsInv, ShownInv
  <2>5. secret' = secret
    BY <1>3 DEF Takes
  <2>. QED
    BY <1>3, <1>6, <2>3, <2>4, <2>5 DEF ShownInv
<1>9. ASSUME disturbed # "yes" PROVE FlowKept(flow[p])'
  <2>1. r = flow'[p]
    BY <1>3, <1>5, <1>7
  <2>2. refused = "yes" => Lapsed'
    BY <1>6, <1>9 DEF Lapsed, a
  <2>. QED
    BY <1>3, <1>6, <1>7, <1>9, <2>1, <2>2 DEF FlowKept
<1>10. /\ \/ token' = TokenAfter(flow[p].answer)
          \/ token' = NoToken /\ (disturbed # "yes" => flow[p].answer.user = NoName /\ Lapsed)
       /\ name' \in Names \cup {NoName} /\ player' \in Names \cup {NoName}
       /\ online' \in {"no", "yes"} /\ reauth' \in {"no", "yes"}
       /\ disturbed' = disturbed
       /\ "register" \in {r.url, UrlOf(r.why)} => r.who \in Names
  BY <1>1, <1>3, <1>4, <1>7 DEF SessionsTypeOK, a
<1>. QED
  BY <1>3, <1>7, <1>8, <1>9, <1>10, TakesStep DEF a

LEMMA RecoversStep == ASSUME SessionsInv, NEW p \in Slots, Recovers(p) PROVE SessionsInv'
<1>. DEFINE q == flow[p]
            a == q.answer
            isRefused == IF a.status = "unauthorized" THEN "yes" ELSE q.refused
<1>1. q.at = "answered"
  BY DEF Recovers
<1>2. /\ q \in Flows /\ name \in Names \cup {NoName} /\ UrlOf(q.why) \in Urls
      /\ ("register" \in {q.url, UrlOf(q.why)} => q.who \in Names)
  <2>1. q \in Flows /\ name \in Names \cup {NoName}
    BY DEF SessionsInv, SessionsTypeOK
  <2>2. q.why \in Whys
    BY <2>1 DEF Flows
  <2>. QED
    BY <2>1, <2>2, NothingIsKept DEF SessionsInv, NamesGiven
<1>3. q.who \in Names \cup {NoName} /\ q.refused \in {"no", "yes"}
  BY <1>2 DEF Flows
<1>4. disturbed # "yes" => FlowKept(q)
  BY <1>1 DEF SessionsInv, FlowsInv
<1>5. disturbed # "yes" =>
        /\ a.status = "unauthorized" => a.user = NoName /\ Lapsed /\ q.url \in {"me", "save"}
        /\ a.status # "ok" => a.user = NoName
  BY <1>1, CalmAnswer
<1>6. {"me", "register"} \subseteq Urls
  BY DEF Urls
<1>. HIDE DEF q, a
<1>7. CASE q.step = "first" /\ a.status = "unauthorized" /\ GoesOn(p, "me", "refresh", q.who, "no")
  <2>1. disturbed # "yes" => UrlOf(q.why) = "save"
    BY <1>4, <1>5, <1>7 DEF FlowKept
  <2>. QED
    BY <1>1, <1>2, <1>3, <1>6, <1>7, <2>1, GoesOnStep DEF q, a
<1>8. CASE q.step = "refresh" /\ a.status # "ok" /\ name # NoName
           /\ GoesOn(p, "register", "reauth", name, isRefused)
  <2>1. isRefused \in {"no", "yes"} /\ name \in Names
    BY <1>2, <1>3, <1>8
  <2>2. disturbed # "yes" => UrlOf(q.why) = "save"
    BY <1>4, <1>8 DEF FlowKept
  <2>3. disturbed = "no" /\ player # NoName => name \in {player, legacy}
    BY <1>8 DEF SessionsInv, ShownInv
  <2>4. disturbed # "yes" /\ isRefused = "yes" => a.user = NoName /\ Lapsed
    BY <1>4, <1>5, <1>8 DEF FlowKept
  <2>5. PICK n : n = name
    OBVIOUS
  <2>6. PICK x : x = isRefused
    OBVIOUS
  <2>. HIDE DEF isRefused
  <2>7. /\ n \in Names \cup {NoName} /\ x \in {"no", "yes"}
        /\ GoesOn(p, "register", "reauth", n, x)
        /\ "register" \in {"register", UrlOf(q.why)} => n \in Names
        /\ disturbed = "no" /\ player # NoName /\ "register" = "register" => n \in {player, legacy}
        /\ disturbed # "yes" /\ x = "yes" => a.user = NoName /\ Lapsed
    BY <1>8, <2>1, <2>3, <2>4, <2>5, <2>6
  <2>8. "register" = CASE "reauth" = "refresh" -> "me" [] "reauth" = "reauth" -> "register"
                       [] OTHER -> UrlOf(q.why)
    OBVIOUS
  <2>. QED
    BY <1>1, <1>6, <2>2, <2>7, <2>8, GoesOnStep DEF q, a
<1>9. CASE q.step \in {"refresh", "reauth"} /\ a.status = "ok"
           /\ GoesOn(p, UrlOf(q.why), "retry", q.who, "no")
  <2>1. disturbed # "yes" => UrlOf(q.why) = "save"
    BY <1>4, <1>9 DEF FlowKept
  <2>2. PICK u : u = UrlOf(q.why)
    OBVIOUS
  <2>3. PICK w : w = q.who
    OBVIOUS
  <2>4. /\ u \in Urls /\ w \in Names \cup {NoName} /\ GoesOn(p, u, "retry", w, "no")
        /\ "register" \in {u, UrlOf(q.why)} => w \in Names
        /\ disturbed = "no" /\ player # NoName /\ u = "register" => w \in {player, legacy}
        /\ disturbed # "yes" /\ "no" = "yes" => a.user = NoName /\ Lapsed
    BY <1>2, <1>3, <1>9, <2>1, <2>2, <2>3
  <2>5. u = CASE "retry" = "refresh" -> "me" [] "retry" = "reauth" -> "register"
              [] OTHER -> UrlOf(q.why)
    BY <2>2
  <2>. QED
    BY <1>1, <2>1, <2>4, <2>5, GoesOnStep DEF q, a
<1>. QED
  BY <1>7, <1>8, <1>9 DEF Recovers, q, a, isRefused

LEMMA FollowsAre ==
  ASSUME NEW p \in Slots
  PROVE  LET f == Follows(flow[p]) IN
         f \in Whys /\ UrlOf(f) \in {"sync", "save", "none"} /\ (f # "none" => UrlOf(f) # "none")
  BY UrlsAre DEF Follows, Whys

\* What a flow that is over has got, while flows do not overlap.
LEMMA CalmEnd ==
  ASSUME SessionsInv, disturbed # "yes", NEW p \in Slots, Settled(flow[p])
  PROVE  LET q == flow[p]
             a == q.answer IN
         /\ Forgets(q) => a.user = NoName /\ Lapsed
         /\ Result(q) # "ok" => a.user = NoName
         /\ Result(q) = "ok" => a.status = "ok" /\ q.url = UrlOf(q.why) /\ ~Forgets(q)
<1>. DEFINE q == flow[p]
            a == q.answer
<1>1. /\ q.at = "answered"
      /\ \/ q.step = "first" \/ q.step = "retry"
         \/ q.step \in {"refresh", "reauth"} /\ a.status # "ok"
  BY DEF Settled
<1>2. FlowKept(q)
  BY <1>1 DEF SessionsInv, FlowsInv
<1>3. /\ a.status = "unauthorized" => a.user = NoName /\ Lapsed
      /\ a.status # "ok" => a.user = NoName
  BY <1>1, CalmAnswer
<1>4. Result(q) = IF q.step \in {"refresh", "reauth"} THEN "unauthorized" ELSE a.status
  BY DEF Result
<1>5. Forgets(q) <=> q.step \in {"refresh", "reauth"}
                     /\ (q.refused = "yes" \/ a.status = "unauthorized")
  BY DEF Forgets
<1>. HIDE DEF q, a
<1>. QED
  BY <1>1, <1>2, <1>3, <1>4, <1>5 DEF FlowKept, q, a

\* The browser has, and the page shows, what a flow that is over got.
LEMMA SettleShows ==
  ASSUME SessionsInv, NEW p \in Slots, Settle(p)
  PROVE  ShownInv'
<1>. DEFINE q == flow[p]
            a == q.answer
            b == TokenAfter(a)
            c == CookieAfter(a)
<1>1. /\ Settled(q) /\ q.at = "answered"
      /\ token' = (IF Forgets(q) THEN NoToken ELSE b)
      /\ name' = (IF Forgets(q) THEN NoName ELSE NameAfter(a))
      /\ disturbed' = (IF disturbed = "mending" /\ SignsIn(q) THEN "no" ELSE disturbed)
      /\ cookie' = c /\ player' = PlayerAfter(q) /\ secret' = secret /\ legacy' = legacy
  BY DEF Settle, Takes, Settled
<1>2. SUFFICES ASSUME disturbed' = "no" PROVE ShownInv'
  BY DEF ShownInv
<1>3. disturbed = "no" \/ (disturbed = "mending" /\ SignsIn(q))
  BY <1>1, <1>2
<1>4. /\ a.user # NoName => a.status = "ok"
      /\ a.user = NoName => b = token /\ (c = cookie \/ c = NoToken)
      /\ a.gives # NoToken => q.url \in {"me", "sync", "register"}
      /\ a.gives # NoToken /\ a.sets = a.gives =>
           a.user # NoName /\ Same(b, c, secret) /\ Within(b, c, {a.user, legacy}, secret)
      /\ disturbed = "no" =>
           /\ Same(b, c, secret)
           /\ a.user # NoName => Within(b, c, {a.user, legacy}, secret)
           /\ player # NoName /\ ~(q.url = "register" /\ q.why = "register") =>
                a.user \in {player, legacy, NoName}
                /\ Within(b, c, {player, legacy}, secret)
  <2>1. disturbed # "yes" /\ flow[p].at = "answered"
    BY <1>1, <1>3
  <2>. QED
    BY <2>1, CalmAnswer
<1>5. /\ Result(q) # "ok" => a.user = NoName
      /\ Result(q) = "ok" => a.status = "ok" /\ q.url = UrlOf(q.why) /\ ~Forgets(q)
  <2>1. disturbed # "yes" /\ Settled(flow[p])
    BY <1>1, <1>3
  <2>. QED
    BY <2>1, CalmEnd
<1>6. PlayerAfter(q) = IF Result(q) = "ok" THEN IF q.why = "binds" THEN player ELSE a.user
                       ELSE IF q.why = "refresh" THEN NoName ELSE player
  BY DEF PlayerAfter
<1>7. NameAfter(a) = IF a.user # NoName THEN a.user ELSE name
  BY DEF NameAfter
<1>8. SignsIn(q) <=> Result(q) = "ok" /\ a.gives # NoToken /\ a.sets = a.gives
  BY DEF SignsIn
<1>9. /\ disturbed = "no" => Same(token, cookie, secret)
      /\ disturbed = "no" /\ player # NoName =>
           Within(token, cookie, {player, legacy}, secret) /\ name \in {player, legacy, NoName}
  BY DEF SessionsInv, ShownInv
<1>10. \A x \in {b, NoToken} : /\ Same(b, c, secret) => Same(x, c, secret)
                               /\ \A S : Within(b, c, S, secret) => Within(x, c, S, secret)
  BY DEF Same, Within, Live
<1>11. q.why = "binds" => UrlOf(q.why) = "save"
  BY UrlsAre
<1>. HIDE DEF q, a, b, c
<1>12. Same(b, c, secret)
  BY <1>3, <1>4, <1>8
<1>13. ASSUME PlayerAfter(q) # NoName
       PROVE  LET S == {PlayerAfter(q), legacy} IN
              Within(b, c, S, secret) /\ (Forgets(q) \/ NameAfter(a) \in S \cup {NoName})
  <2>1. CASE Result(q) # "ok"
    <3>1. PlayerAfter(q) = player /\ a.user = NoName /\ disturbed = "no"
      BY <1>3, <1>5, <1>6, <1>8, <1>13, <2>1
    <3>2. b = token /\ (c = cookie \/ c = NoToken) /\ NameAfter(a) = name
      BY <1>4, <1>7, <3>1
    <3>3. Within(token, cookie, {player, legacy}, secret) /\ name \in {player, legacy, NoName}
      BY <1>9, <1>13, <3>1
    <3>4. Within(b, c, {player, legacy}, secret)
      BY <3>2, <3>3 DEF Within, Live
    <3>. QED
      BY <3>1, <3>2, <3>3, <3>4
  <2>2. CASE Result(q) = "ok" /\ q.why = "binds"
    <3>1. PlayerAfter(q) = player /\ q.url = "save" /\ disturbed = "no"
      BY <1>3, <1>4, <1>5, <1>6, <1>8, <1>11, <2>2
    <3>2. a.user \in {player, legacy, NoName} /\ Within(b, c, {player, legacy}, secret)
      BY <1>4, <1>13, <3>1
    <3>. QED
      BY <1>7, <1>9, <1>13, <3>1, <3>2
  <2>3. CASE Result(q) = "ok" /\ q.why # "binds"
    <3>1. PlayerAfter(q) = a.user /\ NameAfter(a) = a.user
      BY <1>6, <1>7, <1>13, <2>3
    <3>2. Within(b, c, {a.user, legacy}, secret)
      BY <1>3, <1>4, <1>8, <1>13, <3>1
    <3>. QED
      BY <3>1, <3>2
  <2>. QED
    BY <2>1, <2>2, <2>3
<1>14. Same(token', cookie', secret')
  BY <1>1, <1>10, <1>12
<1>15. ASSUME player' # NoName
       PROVE  Within(token', cookie', {player', legacy'}, secret')
              /\ name' \in {player', legacy', NoName}
  <2>1. PlayerAfter(q) # NoName
    BY <1>1, <1>15
  <2>. QED
    BY <1>1, <1>10, <1>13, <2>1
<1>. QED
  BY <1>14, <1>15 DEF ShownInv

LEMMA SettleStep == ASSUME SessionsInv, NEW p \in Slots, Settle(p) PROVE SessionsInv'
<1>. DEFINE q == flow[p]
            a == q.answer
            t == IF Forgets(q) THEN NoToken ELSE TokenAfter(a)
            f == Follows(q)
<1>0. PICK r : r = IF f = "none" THEN NoFlow
                   ELSE Request(f, UrlOf(f), "first", NoName, t, CookieAfter(a), "no")
  OBVIOUS
<1>1. /\ Settled(q) /\ q.at = "answered" /\ token' = t
      /\ name' = (IF Forgets(q) THEN NoName ELSE NameAfter(a))
      /\ disturbed' = (IF disturbed = "mending" /\ SignsIn(q) THEN "no" ELSE disturbed)
      /\ Takes(p, a) /\ player' = PlayerAfter(q) /\ online' = OnlineAfter(q)
      /\ reauth' = (IF q.why = "reauth" THEN "no" ELSE reauth)
      /\ flow' = [flow EXCEPT ![p] = r]
  BY <1>0 DEF Settle, Settled
<1>2. /\ cookie' = CookieAfter(a) /\ legacy' = legacy /\ now' = now
  BY <1>1 DEF Takes
<1>3. SessionsTypeOK /\ SecretsKept
  BY DEF SessionsInv
<1>4. /\ TokenAfter(a) \in Tokens \cup {NoToken} /\ CookieAfter(a) \in Tokens \cup {NoToken}
      /\ NameAfter(a) \in Names \cup {NoName} /\ a.user \in Names \cup {NoName}
  BY <1>3, AfterIs
<1>5. f \in Whys /\ UrlOf(f) \in {"sync", "save", "none"} /\ (f # "none" => UrlOf(f) # "none")
  BY FollowsAre
<1>6. OnlineAfter(q) \in {"no", "yes"} /\ PlayerAfter(q) \in Names \cup {NoName}
  <2>1. online \in {"no", "yes"} /\ player \in Names \cup {NoName}
    BY <1>3 DEF SessionsTypeOK
  <2>2. OnlineAfter(q) \in {"no", "yes", online}
    BY DEF OnlineAfter
  <2>3. PlayerAfter(q) \in {player, a.user, NoName}
    BY DEF PlayerAfter
  <2>. QED
    BY <1>4, <2>1, <2>2, <2>3
<1>7. disturbed # "yes" => (Forgets(q) => a.user = NoName /\ Lapsed)
  BY <1>1, CalmEnd
<1>8. flow \in [Slots -> Flows] /\ legacy \in Names \cup {NoName} /\ NoAnswer \in Answers
      /\ reauth \in {"no", "yes"}
  BY <1>3, NothingIsKept DEF SessionsTypeOK
<1>9. ShownInv'
  BY SettleShows
<1>. HIDE DEF q, a, f
<1>10. CASE f = "none"
  <2>1. r = NoFlow /\ r \in Flows /\ r.at = "idle" /\ r.answer = NoAnswer
        /\ r.url = "none" /\ r.why = "none"
    BY <1>0, <1>10, NothingIsKept DEF NoFlow
  <2>. QED
    BY <1>1, <1>3, <1>4, <1>6, <1>7, <1>8, <1>9, <2>1, UrlsAre, TakesStep DEF a, q
<1>11. CASE f # "none"
  <2>1. r = Request(f, UrlOf(f), "first", NoName, t, CookieAfter(a), "no")
    BY <1>0, <1>11
  <2>2. t \in Tokens \cup {NoToken} /\ CookieAfter(a) \in Tokens \cup {NoToken}
    BY <1>4
  <2>3. UrlOf(f) \in {"sync", "save"} /\ UrlOf(f) \in Urls
    BY <1>5, <1>11 DEF Urls
  <2>. HIDE DEF t
  <2>4. /\ r.at = "sent" /\ r.why = f /\ r.url = UrlOf(f) /\ r.step = "first" /\ r.who = NoName
        /\ r.bearer = t /\ r.cookie = CookieAfter(a) /\ r.legacy = legacy /\ r.refused = "no"
        /\ r.answer = NoAnswer
    BY <2>1 DEF Request
  <2>5. r \in Flows
    BY <1>5, <1>8, <2>1, <2>2, <2>3 DEF Request, Flows
  <2>6. "register" \notin {r.url, UrlOf(r.why)}
    BY <2>3, <2>4
  <2>7. r = flow'[p]
    BY <1>1, <1>8
  <2>8. FlowKept(flow[p])'
    BY <1>1, <1>2, <2>3, <2>4, <2>6, <2>7 DEF FlowKept
  <2>. QED
    BY <1>1, <1>3, <1>4, <1>6, <1>7, <1>8, <1>9, <2>4, <2>5, <2>6, <2>8, TakesStep DEF a, q, t
<1>. QED
  BY <1>10, <1>11

LEMMA BeginStep ==
  ASSUME SessionsInv, NEW p \in Slots, NEW why \in Whys, NEW who \in Names \cup {NoName},
         Begin(p, why, who)
  PROVE  SessionsInv'
<1>1. /\ flow[p].at = "idle" /\ why \in {"refresh", "save", "register"} /\ Begins(p)
      /\ flow' = [flow EXCEPT ![p] = Request(why, UrlOf(why), "first", who, token, cookie, "no")]
      /\ UNCHANGED <<now, secret, registered, browserVars, player, online>>
      /\ reauth' = reauth /\ (why = "register" => who \in Names)
  BY DEF Begin, pageVars
<1>2. why # "none" /\ why # "reauth" /\ (UrlOf(why) = "register" => who \in Names)
  BY <1>1, UrlsAre
<1>3. reauth' \in {"no", "yes"}
  BY <1>1 DEF SessionsInv, SessionsTypeOK
<1>. QED
  BY <1>1, <1>2, <1>3, StartStep

LEMMA ReauthenticateStep ==
  ASSUME SessionsInv, NEW p \in Slots, NEW who \in Names, Reauthenticate(p, who)
  PROVE  SessionsInv'
<1>1. PICK why : why = "reauth"
  OBVIOUS
<1>2. why \in Whys \ {"none"} /\ UrlOf(why) = "register"
  BY <1>1, UrlsAre DEF Whys
<1>3. /\ flow[p].at = "idle" /\ Begins(p) /\ player = NoName /\ reauth' = "yes"
      /\ flow' = [flow EXCEPT ![p] = Request(why, UrlOf(why), "first", who, token, cookie, "no")]
      /\ UNCHANGED <<now, secret, registered, browserVars, player, online>>
  BY <1>1, <1>2 DEF Reauthenticate
<1>. QED
  BY <1>2, <1>3, StartStep

\* A cookie that is over told of nobody, and is dropped between flows.
LEMMA CookieStep == ASSUME SessionsInv, CookieLapses PROVE SessionsInv'
<1>1. /\ UNCHANGED <<now, secret, registered, legacy, token, name, player, online, reauth,
                     flow, disturbed, seen>>
      /\ cookie' = NoToken /\ cookie # NoToken /\ cookie.exp <= now
      /\ \A p \in Slots : flow[p].at = "idle"
  BY DEF CookieLapses, pageVars, Busy
<1>2. SessionsTypeOK' /\ NamesGiven' /\ SecretsKept' /\ FlowsInv'
  BY <1>1 DEF SessionsInv, SessionsTypeOK, NamesGiven, SecretsKept, FlowsInv, Lone
<1>3. ~Live(cookie', secret')
  BY <1>1 DEF Live
<1>4. ShownInv'
  BY <1>1, <1>3 DEF SessionsInv, ShownInv, Same, Within
<1>5. SeenInv'
  <2>1. SUFFICES ASSUME seen.who # NoName, ~Lapsed
                 PROVE  Lasts(seen.who, seen.at, token, NoToken, secret)
    BY <1>1 DEF SessionsInv, SeenInv, Lapsed
  <2>2. Lasts(seen.who, seen.at, token, cookie, secret)
    BY <2>1 DEF SessionsInv, SeenInv
  <2>3. now <= seen.at + RefreshWindow
    BY <2>1, NamesAndTokens DEF Lapsed, SessionsInv, SessionsTypeOK
  <2>4. cookie.exp \in Nat /\ now \in Nat /\ seen.at \in Nat
    BY <1>1, TokensAre DEF SessionsInv, SessionsTypeOK
  <2>. QED
    BY <1>1, <2>2, <2>3, <2>4, NamesAndTokens DEF Lasts
<1>. QED
  BY <1>2, <1>4, <1>5 DEF SessionsInv

LEMMA SessionsInvStep == SessionsInv /\ [SessionsNext]_sessionVars => SessionsInv'
<1>. SUFFICES ASSUME SessionsInv, [SessionsNext]_sessionVars PROVE SessionsInv'
  OBVIOUS
<1>1. ASSUME NEW p \in Slots, NEW status \in {"limited", "error"}, ServeBadly(p, status)
      PROVE  SessionsInv'
  BY <1>1, ServeBadlyStep
<1>2. ASSUME NEW p \in Slots, NEW arrives \in {"yes", "no"}, Serve(p, arrives) PROVE SessionsInv'
  BY <1>2, ServeStep
<1>3. ASSUME NEW p \in Slots, NEW who \in Names, Reauthenticate(p, who) PROVE SessionsInv'
  BY <1>3, ReauthenticateStep
<1>4. ASSUME NEW p \in Slots, Recovers(p) PROVE SessionsInv'
  BY <1>4, RecoversStep
<1>5. ASSUME NEW p \in Slots, Settle(p) PROVE SessionsInv'
  BY <1>5, SettleStep
<1>6. ASSUME NEW p \in Slots, NEW why \in Whys, NEW who \in Names \cup {NoName},
             Begin(p, why, who)
      PROVE  SessionsInv'
  BY <1>6, BeginStep
<1>7. ASSUME NEW u \in Names, RemoveAccount(u) PROVE SessionsInv'
  <2>1. /\ Disturbs /\ UNCHANGED <<now, secret, browserVars, pageVars, flow>>
        /\ registered' = registered \ {u}
    BY <1>7 DEF RemoveAccount
  <2>2. registered' \in SUBSET Names /\ secret' \in 0..MaxRestarts
    BY <2>1 DEF SessionsInv, SessionsTypeOK
  <2>. QED
    BY <2>1, <2>2, DisturbingStep
<1>8. CASE Restart
  <2>1. /\ Disturbs /\ UNCHANGED <<now, registered, browserVars, pageVars, flow>>
        /\ secret < MaxRestarts /\ secret' = secret + 1
    BY <1>8 DEF Restart
  <2>2. registered' \in SUBSET Names /\ secret' \in 0..MaxRestarts
    BY <2>1, NamesAndTokens DEF SessionsInv, SessionsTypeOK
  <2>. QED
    BY <2>1, <2>2, DisturbingStep
<1>9. CASE SecondPasses
  BY <1>9, SecondStep
<1>10. CASE CookieLapses
  BY <1>10, CookieStep
<1>11. CASE UNCHANGED sessionVars
  <2>1. UNCHANGED <<now, secret, registered, cookie, legacy, token, name, player, online, reauth,
                    flow, disturbed, seen>>
    BY <1>11 DEF sessionVars, browserVars, pageVars
  <2>2. /\ SessionsTypeOK' /\ NamesGiven' /\ SecretsKept' /\ SeenInv' /\ ShownInv'
    BY <2>1 DEF SessionsInv, SessionsTypeOK, NamesGiven, SecretsKept, SeenInv, ShownInv, Lapsed
  <2>3. FlowsInv'
    BY <2>1 DEF SessionsInv, FlowsInv, Lone, FlowKept, AnswerKept, Lapsed
  <2>. QED
    BY <2>2, <2>3 DEF SessionsInv
<1>. QED
  BY <1>1, <1>2, <1>3, <1>4, <1>5, <1>6, <1>7, <1>8, <1>9, <1>10, <1>11 DEF SessionsNext

\* Who the browser's requests are taken for is what its token and cookie say.
LEMMA ShownAreSignedIn == SessionsInv => SignedInAsShown
<1>. SUFFICES ASSUME SessionsInv PROVE SignedInAsShown
  OBVIOUS
<1>2. Recognised(token, cookie, legacy) = RecognisedAt(token, cookie, legacy, secret, registered, now)
  <2>1. \A t : Verified(t) <=> GoodAt(t, secret, now)
    BY DEF Verified, GoodAt, Live
  <2>2. Session(token, cookie) = SessionAt(token, cookie, secret, now)
    BY <2>1 DEF Session, SessionAt, Verified
  <2>. QED
    BY <2>2 DEF Recognised, RecognisedAt, Presented, PresentedAt
<1>3. /\ token \in Tokens \cup {NoToken} /\ cookie \in Tokens \cup {NoToken}
      /\ legacy \in Names \cup {NoName} /\ secret \in 0..MaxRestarts /\ registered \in SUBSET Names
      /\ now \in 0..LastSecond /\ seen.at \in 0..LastSecond
  BY DEF SessionsInv, SessionsTypeOK
<1>4. ActiveStaysSignedIn
  <2>. SUFFICES ASSUME seen.who # NoName, now - seen.at <= RefreshWindow
                PROVE  RecognisedAt(token, cookie, legacy, secret, registered, now) = seen.who
    BY <1>2 DEF ActiveStaysSignedIn
  <2>1. seen.at <= now /\ now <= seen.at + RefreshWindow /\ ~Lapsed
    BY <1>3, NamesAndTokens DEF SessionsInv, SeenInv, Lapsed
  <2>2. PICK who : who = seen.who
    OBVIOUS
  <2>3. PICK then : then = seen.at
    OBVIOUS
  <2>4. who \in registered /\ then \in Nat /\ Lasts(who, then, token, cookie, secret)
        /\ then <= now /\ now <= then + RefreshWindow
    BY <1>3, <2>1, <2>2, <2>3 DEF SessionsInv, SeenInv
  <2>5. RecognisedAt(token, cookie, legacy, secret, registered, now) = who
    BY <1>3, <2>4, LastingIsRecognised
  <2>. QED
    BY <2>2, <2>5
<1>5. SavesForWhomItShows
  <2>. SUFFICES ASSUME disturbed = "no", player # NoName
                PROVE  RecognisedAt(token, cookie, legacy, secret, registered, now)
                         \in {player, legacy, NoName}
    BY <1>2 DEF SavesForWhomItShows
  <2>1. Within(token, cookie, {player, legacy}, secret)
    BY DEF SessionsInv, ShownInv
  <2>2. PresentedAt(token, cookie, legacy, secret, now) \in {player, legacy, NoName}
    BY <2>1 DEF PresentedAt, SessionAt, GoodAt, Within, Live
  <2>. QED
    BY <2>2 DEF RecognisedAt
<1>. QED
  BY <1>4, <1>5 DEF SignedInAsShown

\* A player who was recognised no longer ago than the refresh window is recognised still, and
\* nobody else than the player shown is saved for: the tokens that most answers do not renew,
\* the cookies they do, and the names a browser remembers stay together through expiry,
\* refusals, lost answers, recoveries and restarts, for any number of names, flows and
\* restarts and any lifetime of a session (verifySessionToken, getUserFromReqWithSession,
\* requestJson's recovery from a 401).
THEOREM StaysSignedIn == SessionsSpec => []SignedInAsShown
<1>1. SessionsSpec => []SessionsInv
  BY SessionsInvInit, SessionsInvStep, PTL DEF SessionsSpec
<1>. QED
  BY <1>1, ShownAreSignedIn, PTL
-----------------------------------------------------------------------------
(* The JSON editor: what is saved is what is on the page, for any objects,    *)
(* lists and labels and any number of rows.                                   *)

RowLabels == FieldKeys \cup {NoKey}

JsonRow == [n : Nat, label : RowLabels, added : {"yes", "no"}, value : JsonValues]

JsonTypes ==
  /\ made \in Nat /\ loadedOnce \in Loaded
  /\ fields \in Seq([key : FieldKeys, n : Nat])
  /\ rowsShown \in Seq(JsonRow)
  /\ items \in Seq([n : Nat, value : JsonValues])
  /\ itemsShown \in Seq(Nat)

\* No two rows have the same number, and the next one made has a new one.
RowsApart ==
  /\ \A i, j \in DOMAIN rowsShown : rowsShown[i].n = rowsShown[j].n => i = j
  /\ \A i \in DOMAIN rowsShown : rowsShown[i].n <= made

\* The map has a field for each row of the page, and only those.
FieldsAreRows ==
  /\ \A i, j \in DOMAIN fields : fields[i].n = fields[j].n => i = j
  /\ \A i \in DOMAIN fields : OnPage(fields[i].n)
  /\ \A j \in DOMAIN rowsShown : \E i \in DOMAIN fields : fields[i].n = rowsShown[j].n

ItemsAreShown ==
  /\ itemsShown = [i \in DOMAIN items |-> items[i].n]
  /\ \A i, j \in DOMAIN items : items[i].n = items[j].n => i = j
  /\ \A i \in DOMAIN items : items[i].n <= made

\* A field that was loaded keeps its label, and its value until it is typed into.
LoadedStays ==
  \A j \in DOMAIN rowsShown : rowsShown[j].added = "no" =>
    /\ rowsShown[j].label \in DOMAIN loadedOnce
    /\ rowsShown[j].n \notin typedIn => rowsShown[j].value = loadedOnce[rowsShown[j].label]

JsonInv == JsonTypes /\ RowsApart /\ FieldsAreRows /\ ItemsAreShown /\ LoadedStays

LEMMA JsonInvInit == JsonInit => JsonInv
<1>. SUFFICES ASSUME NEW object \in Loaded, NEW keys \in Orders(DOMAIN object),
                     loadedOnce = object,
                     fields = [i \in DOMAIN keys |-> [key |-> keys[i], n |-> i]],
                     rowsShown = [i \in DOMAIN keys |-> NewRow(i, keys[i], "no", object[keys[i]])],
                     items = [i \in DOMAIN LoadedList |-> [n |-> Len(keys) + i, value |-> LoadedList[i]]],
                     itemsShown = [i \in DOMAIN LoadedList |-> Len(keys) + i],
                     typedIn = {},
                     made = Len(keys) + Len(LoadedList)
              PROVE JsonInv
  BY DEF JsonInit
<1>. DEFINE c == Cardinality(DOMAIN object)
<1>1. c \in Nat
  BY JsonAssumption, FS_CardinalityType
<1>2. keys \in [1..c -> DOMAIN object] /\ Len(keys) = c /\ DOMAIN keys = 1..c
  BY <1>1 DEF Orders
<1>. HIDE DEF c
<1>3. DOMAIN object \subseteq FieldKeys /\ \A k \in DOMAIN object : object[k] \in JsonValues
  BY JsonAssumption
<1>4. LoadedList \in Seq(JsonValues) /\ Len(LoadedList) \in Nat
  /\ DOMAIN LoadedList = 1..Len(LoadedList)
  BY JsonAssumption
<1>5. JsonTypes
  BY <1>1, <1>2, <1>3, <1>4 DEF JsonTypes, JsonRow, NewRow, RowLabels
<1>6. RowsApart
  BY <1>1, <1>2, <1>4 DEF RowsApart, NewRow
<1>7. FieldsAreRows
  BY <1>2 DEF FieldsAreRows, OnPage, NewRow
<1>8. ItemsAreShown
  BY <1>1, <1>2, <1>4 DEF ItemsAreShown
<1>9. LoadedStays
  BY <1>2 DEF LoadedStays, NewRow
<1>. QED  BY <1>5, <1>6, <1>7, <1>8, <1>9 DEF JsonInv

\* What is left of a list when one is taken out of it, and where it was.
LEMMA WhatIsLeft ==
  ASSUME NEW S, NEW list \in Seq(S), NEW i \in DOMAIN list
  PROVE  /\ TakenOut(list, i) \in Seq(S)
         /\ DOMAIN TakenOut(list, i) = 1..(Len(list) - 1)
         /\ \A j \in DOMAIN TakenOut(list, i) :
              TakenOut(list, i)[j] = list[IF j < i THEN j ELSE j + 1]
         /\ \A m \in DOMAIN list : m # i =>
              \E j \in DOMAIN TakenOut(list, i) : (IF j < i THEN j ELSE j + 1) = m
<1>1. Len(list) \in Nat /\ DOMAIN list = 1..Len(list) /\ Len(list) - 1 \in Nat
  OBVIOUS
<1>2. DOMAIN TakenOut(list, i) = 1..(Len(list) - 1)
  BY DEF TakenOut
<1>3. \A j \in 1..(Len(list) - 1) : TakenOut(list, i)[j] = list[IF j < i THEN j ELSE j + 1]
  BY DEF TakenOut
<1>4. \A j \in 1..(Len(list) - 1) : list[IF j < i THEN j ELSE j + 1] \in S
  BY <1>1
<1>5. TakenOut(list, i) \in Seq(S)
  BY <1>1, <1>4 DEF TakenOut
<1>6. ASSUME NEW m \in DOMAIN list, m # i
      PROVE \E j \in 1..(Len(list) - 1) : (IF j < i THEN j ELSE j + 1) = m
  <2>1. CASE m < i
    BY <1>1, <2>1
  <2>2. CASE m > i
    <3>1. m - 1 \in 1..(Len(list) - 1) /\ ~(m - 1 < i) /\ (m - 1) + 1 = m
      BY <1>1, <2>2
    <3>. QED  BY <3>1
  <2>. QED  BY <1>1, <1>6, <2>1, <2>2
<1>. QED  BY <1>2, <1>3, <1>5, <1>6

\* What is said of every row of a list is said of every row that is left.
LEMMA LeftAreApart ==
  ASSUME NEW S, NEW list \in Seq(S), NEW i \in DOMAIN list,
         NEW j \in DOMAIN TakenOut(list, i)
  PROVE  /\ (IF j < i THEN j ELSE j + 1) \in DOMAIN list \ {i}
         /\ \A m \in DOMAIN TakenOut(list, i) :
              (IF j < i THEN j ELSE j + 1) = (IF m < i THEN m ELSE m + 1) => j = m
<1>1. Len(list) \in Nat /\ DOMAIN list = 1..Len(list)
      /\ DOMAIN TakenOut(list, i) = 1..(Len(list) - 1)
  BY WhatIsLeft
<1>. QED  BY <1>1

LEMMA JsonRowsAre ==
  JsonTypes => \A j \in DOMAIN rowsShown :
    rowsShown[j] \in JsonRow /\ rowsShown[j].n \in Nat /\ rowsShown[j].value \in JsonValues
<1>1. JsonTypes => \A j \in DOMAIN rowsShown : rowsShown[j] \in JsonRow
  BY DEF JsonTypes
<1>. QED  BY <1>1 DEF JsonRow

LEMMA JsonInvStep == JsonInv /\ [JsonNext]_jsonVars => JsonInv'
<1>. SUFFICES ASSUME JsonInv, [JsonNext]_jsonVars PROVE JsonInv'
  OBVIOUS
<1>. USE DEF JsonInv
<1>0. /\ made \in Nat /\ made + 1 \in Nat /\ made + 1 > made
      /\ DOMAIN fields = 1..Len(fields) /\ DOMAIN rowsShown = 1..Len(rowsShown)
      /\ DOMAIN items = 1..Len(items) /\ DOMAIN itemsShown = DOMAIN items
  BY DEF JsonTypes, ItemsAreShown
<1>1. ASSUME NEW k \in RowLabels, NEW type \in ValueTypes, AddField(k, type) PROVE JsonInv'
  <2>. DEFINE row == NewRow(made + 1, k, "yes", DefaultValue(type))
             field == [key |-> k, n |-> made + 1]
  <2>1. /\ fields' = Append(fields, field)
        /\ rowsShown' = Append(rowsShown, row)
        /\ made' = made + 1
        /\ UNCHANGED <<items, itemsShown, loadedOnce, typedIn>>
    <3>1. {i \in DOMAIN fields : fields[i].key = k} = {}
      BY <1>1 DEF AddField, HasKey
    <3>2. PutField(k, made + 1) = Append(fields, field)
      BY <3>1, Zenon DEF PutField
    <3>. QED  BY <1>1, <3>2, Zenon DEF AddField
  <2>2. row \in JsonRow
        /\ row.n = made + 1 /\ row.added = "yes"
    BY <1>0 DEF JsonRow, NewRow, DefaultValue, JsonValues
  <2>3. field \in [key : FieldKeys, n : Nat] /\ field.n = made + 1
    BY <1>0, <1>1 DEF AddField, RowLabels
  <2>. HIDE DEF row, field
  <2>4. JsonTypes'
    BY <1>0, <2>1, <2>2, <2>3 DEF JsonTypes
  <2>5. /\ DOMAIN rowsShown' = 1..(Len(rowsShown) + 1)
        /\ \A j \in DOMAIN rowsShown : j \in DOMAIN rowsShown' /\ rowsShown'[j] = rowsShown[j]
        /\ \A j \in DOMAIN rowsShown' : j \notin DOMAIN rowsShown => j = Len(rowsShown) + 1
        /\ Len(rowsShown) + 1 \notin DOMAIN rowsShown
        /\ Len(rowsShown) + 1 \in DOMAIN rowsShown'
        /\ rowsShown'[Len(rowsShown) + 1] = row
    BY <2>1, <2>2 DEF JsonTypes
  <2>6. /\ DOMAIN fields' = 1..(Len(fields) + 1)
        /\ \A j \in DOMAIN fields : j \in DOMAIN fields' /\ fields'[j] = fields[j]
        /\ \A j \in DOMAIN fields' : j \notin DOMAIN fields => j = Len(fields) + 1
        /\ Len(fields) + 1 \in DOMAIN fields'
        /\ fields'[Len(fields) + 1] = field
    BY <2>1, <2>3 DEF JsonTypes
  <2>7. \A j \in DOMAIN rowsShown : rowsShown[j].n # made + 1
    BY <1>0 DEF RowsApart, JsonTypes, JsonRow
  <2>8. \A i \in DOMAIN fields : fields[i].n # made + 1
    BY <2>7 DEF FieldsAreRows, OnPage
  <2>9. RowsApart'
    <3>1. ASSUME NEW i \in DOMAIN rowsShown', NEW j \in DOMAIN rowsShown',
                 rowsShown'[i].n = rowsShown'[j].n
          PROVE i = j
      BY <2>2, <2>5, <2>7, <3>1 DEF RowsApart
    <3>2. ASSUME NEW i \in DOMAIN rowsShown' PROVE rowsShown'[i].n <= made'
      <4>1. CASE i \in DOMAIN rowsShown
        <5>1. rowsShown[i].n \in Nat /\ rowsShown[i].n <= made
          BY <4>1, JsonRowsAre DEF RowsApart
        <5>. QED  BY <1>0, <2>1, <2>5, <4>1, <5>1
      <4>2. CASE i \notin DOMAIN rowsShown
        BY <1>0, <2>1, <2>2, <2>5, <4>2
      <4>. QED  BY <4>1, <4>2
    <3>. QED  BY <3>1, <3>2 DEF RowsApart
  <2>10. FieldsAreRows'
    <3>1. ASSUME NEW i \in DOMAIN fields', NEW j \in DOMAIN fields', fields'[i].n = fields'[j].n
          PROVE i = j
      BY <2>3, <2>6, <2>8, <3>1 DEF FieldsAreRows
    <3>2. ASSUME NEW i \in DOMAIN fields'
          PROVE \E j \in DOMAIN rowsShown' : rowsShown'[j].n = fields'[i].n
      BY <2>2, <2>3, <2>5, <2>6 DEF FieldsAreRows, OnPage
    <3>3. ASSUME NEW j \in DOMAIN rowsShown'
          PROVE \E i \in DOMAIN fields' : fields'[i].n = rowsShown'[j].n
      BY <2>2, <2>3, <2>5, <2>6 DEF FieldsAreRows
    <3>. QED  BY <3>1, <3>2, <3>3 DEF FieldsAreRows, OnPage
  <2>11. ItemsAreShown'
    <3>1. \A i \in DOMAIN items : items[i].n <= made + 1
      BY <1>0 DEF ItemsAreShown, JsonTypes
    <3>. QED  BY <2>1, <3>1 DEF ItemsAreShown
  <2>12. LoadedStays'
    BY <2>1, <2>2, <2>5 DEF LoadedStays
  <2>. QED  BY <2>4, <2>9, <2>10, <2>11, <2>12
<1>2. ASSUME NEW i \in DOMAIN fields, RemoveField(i) PROVE JsonInv'
  <2>. DEFINE r == CHOOSE j \in DOMAIN rowsShown : rowsShown[j].n = fields[i].n
             Left(j) == IF j < r THEN j ELSE j + 1
             Kept(j) == IF j < i THEN j ELSE j + 1
  <2>1. r \in DOMAIN rowsShown /\ rowsShown[r].n = fields[i].n
    BY DEF FieldsAreRows, OnPage
  <2>2. rowsShown' = TakenOut(rowsShown, r) /\ fields' = TakenOut(fields, i)
        /\ UNCHANGED <<items, itemsShown, loadedOnce, typedIn, made>>
    BY <1>2 DEF RemoveField
  <2>. HIDE DEF r
  <2>3. /\ rowsShown' \in Seq(JsonRow)
        /\ \A j \in DOMAIN rowsShown' : rowsShown'[j] = rowsShown[Left(j)]
        /\ \A m \in DOMAIN rowsShown : m # r => \E j \in DOMAIN rowsShown' : Left(j) = m
    BY <2>1, <2>2, WhatIsLeft DEF JsonTypes
  <2>4. /\ fields' \in Seq([key : FieldKeys, n : Nat])
        /\ \A j \in DOMAIN fields' : fields'[j] = fields[Kept(j)]
        /\ \A m \in DOMAIN fields : m # i => \E j \in DOMAIN fields' : Kept(j) = m
    BY <2>2, WhatIsLeft DEF JsonTypes
  <2>5. /\ \A j \in DOMAIN rowsShown' : Left(j) \in DOMAIN rowsShown \ {r}
        /\ \A j, m \in DOMAIN rowsShown' : Left(j) = Left(m) => j = m
    BY <2>1, <2>2, LeftAreApart DEF JsonTypes
  <2>6. /\ \A j \in DOMAIN fields' : Kept(j) \in DOMAIN fields \ {i}
        /\ \A j, m \in DOMAIN fields' : Kept(j) = Kept(m) => j = m
    BY <2>2, LeftAreApart DEF JsonTypes
  <2>. HIDE DEF Left, Kept
  <2>7. JsonTypes'
    BY <2>2, <2>3, <2>4 DEF JsonTypes
  <2>8. RowsApart'
    BY <2>2, <2>3, <2>5 DEF RowsApart
  <2>9. FieldsAreRows'
    <3>1. ASSUME NEW a \in DOMAIN fields', NEW b \in DOMAIN fields', fields'[a].n = fields'[b].n
          PROVE a = b
      BY <2>4, <2>6, <3>1 DEF FieldsAreRows
    <3>2. ASSUME NEW a \in DOMAIN fields'
          PROVE \E j \in DOMAIN rowsShown' : rowsShown'[j].n = fields'[a].n
      <4>1. PICK m \in DOMAIN rowsShown : rowsShown[m].n = fields[Kept(a)].n
        BY <2>6 DEF FieldsAreRows, OnPage
      <4>2. m # r
        BY <2>1, <2>6, <4>1 DEF FieldsAreRows
      <4>. QED  BY <2>3, <2>4, <4>1, <4>2
    <3>3. ASSUME NEW j \in DOMAIN rowsShown'
          PROVE \E a \in DOMAIN fields' : fields'[a].n = rowsShown'[j].n
      <4>1. PICK m \in DOMAIN fields : fields[m].n = rowsShown[Left(j)].n
        BY <2>5 DEF FieldsAreRows
      <4>2. m # i
        BY <2>1, <2>5, <4>1 DEF RowsApart
      <4>. QED  BY <2>3, <2>4, <4>1, <4>2
    <3>. QED  BY <3>1, <3>2, <3>3 DEF FieldsAreRows, OnPage
  <2>10. ItemsAreShown'
    BY <2>2 DEF ItemsAreShown
  <2>11. LoadedStays'
    BY <2>2, <2>3, <2>5 DEF LoadedStays
  <2>. QED  BY <2>7, <2>8, <2>9, <2>10, <2>11
<1>3. ASSUME NEW j \in DOMAIN rowsShown, NEW k \in RowLabels, Relabel(j, k) PROVE JsonInv'
  <2>1. /\ rowsShown' = [rowsShown EXCEPT ![j].label = k] /\ rowsShown[j].added = "yes"
        /\ UNCHANGED <<fields, items, itemsShown, loadedOnce, typedIn, made>>
    BY <1>3 DEF Relabel
  <2>. DEFINE row == [rowsShown[j] EXCEPT !.label = k]
  <2>2. /\ row \in JsonRow /\ row.n = rowsShown[j].n /\ row.added = rowsShown[j].added
        /\ rowsShown' = [rowsShown EXCEPT ![j] = row]
    <3>1. rowsShown[j] \in JsonRow
      BY DEF JsonTypes
    <3>. QED  BY <2>1, <3>1 DEF JsonRow
  <2>. HIDE DEF row
  <2>3. /\ DOMAIN rowsShown' = DOMAIN rowsShown
        /\ \A m \in DOMAIN rowsShown : m # j => rowsShown'[m] = rowsShown[m]
        /\ rowsShown'[j].n = rowsShown[j].n /\ rowsShown'[j].added = rowsShown[j].added
    BY <2>2 DEF JsonTypes
  <2>4. \A m \in DOMAIN rowsShown : rowsShown'[m].n = rowsShown[m].n
    BY <2>3
  <2>5. JsonTypes'
    <3>1. rowsShown' \in Seq(JsonRow)
      BY <2>2 DEF JsonTypes
    <3>. QED  BY <2>1, <3>1 DEF JsonTypes
  <2>6. RowsApart' /\ ItemsAreShown'
    BY <2>1, <2>3, <2>4 DEF RowsApart, ItemsAreShown
  <2>7. FieldsAreRows'
    BY <2>1, <2>3, <2>4 DEF FieldsAreRows, OnPage
  <2>8. LoadedStays'
    BY <2>1, <2>3 DEF LoadedStays
  <2>. QED  BY <2>5, <2>6, <2>7, <2>8
<1>4. ASSUME NEW j \in DOMAIN rowsShown, NEW raw \in {0, 1, Garbled}, TypeValue(j, raw) PROVE JsonInv'
  <2>1. /\ rowsShown' = [rowsShown EXCEPT ![j].value.raw = raw]
        /\ typedIn' = typedIn \cup {rowsShown[j].n}
        /\ UNCHANGED <<fields, items, itemsShown, loadedOnce, made>>
    BY <1>4 DEF TypeValue
  <2>. DEFINE v == [rowsShown[j].value EXCEPT !.raw = raw]
             row == [rowsShown[j] EXCEPT !.value = v]
  <2>2. v \in JsonValues
    <3>1. rowsShown[j].value \in JsonValues
      BY JsonRowsAre
    <3>. QED  BY <3>1 DEF JsonValues
  <2>3. /\ row \in JsonRow /\ row.n = rowsShown[j].n /\ row.added = rowsShown[j].added
        /\ row.label = rowsShown[j].label
        /\ rowsShown' = [rowsShown EXCEPT ![j] = row]
    <3>1. rowsShown[j] \in JsonRow
      BY DEF JsonTypes
    <3>2. rowsShown' = [rowsShown EXCEPT ![j] = row]
      BY <2>1
    <3>. HIDE DEF v
    <3>. QED  BY <2>2, <3>1, <3>2 DEF JsonRow
  <2>. HIDE DEF v, row
  <2>4. /\ DOMAIN rowsShown' = DOMAIN rowsShown
        /\ \A m \in DOMAIN rowsShown : m # j => rowsShown'[m] = rowsShown[m]
        /\ rowsShown'[j].n = rowsShown[j].n /\ rowsShown'[j].added = rowsShown[j].added
        /\ rowsShown'[j].label = rowsShown[j].label
    BY <2>3 DEF JsonTypes
  <2>5. \A m \in DOMAIN rowsShown : rowsShown'[m].n = rowsShown[m].n
    BY <2>4
  <2>6. JsonTypes'
    <3>1. rowsShown' \in Seq(JsonRow)
      BY <2>3 DEF JsonTypes
    <3>. QED  BY <2>1, <3>1 DEF JsonTypes
  <2>7. RowsApart' /\ ItemsAreShown'
    BY <2>1, <2>4, <2>5 DEF RowsApart, ItemsAreShown
  <2>8. FieldsAreRows'
    BY <2>1, <2>4, <2>5 DEF FieldsAreRows, OnPage
  <2>9. LoadedStays'
    BY <2>1, <2>4, <2>5 DEF LoadedStays
  <2>. QED  BY <2>6, <2>7, <2>8, <2>9
<1>5. ASSUME NEW type \in ValueTypes, AppendItem(type) PROVE JsonInv'
  <2>. DEFINE item == [n |-> made + 1, value |-> DefaultValue(type)]
  <2>1. /\ items' = Append(items, item) /\ itemsShown' = Append(itemsShown, made + 1)
        /\ made' = made + 1 /\ UNCHANGED <<fields, rowsShown, loadedOnce, typedIn>>
    BY <1>5 DEF AppendItem
  <2>2. item \in [n : Nat, value : JsonValues] /\ item.n = made + 1
    BY <1>0 DEF DefaultValue, JsonValues
  <2>. HIDE DEF item
  <2>3. JsonTypes'
    BY <1>0, <2>1, <2>2 DEF JsonTypes
  <2>4. /\ Len(itemsShown) = Len(items) /\ DOMAIN items' = 1..(Len(items) + 1)
        /\ DOMAIN itemsShown' = 1..(Len(items) + 1)
        /\ \A i \in DOMAIN items : items'[i] = items[i] /\ itemsShown'[i] = itemsShown[i]
        /\ items'[Len(items) + 1] = item /\ itemsShown'[Len(items) + 1] = made + 1
        /\ \A i \in DOMAIN items' : i \in DOMAIN items \/ i = Len(items) + 1
    <3>1. Len(itemsShown) = Len(items)
      BY DEF ItemsAreShown, JsonTypes
    <3>. QED  BY <2>1, <2>2, <3>1 DEF JsonTypes
  <2>5. \A i \in DOMAIN items' : itemsShown'[i] = items'[i].n
    BY <2>2, <2>4 DEF ItemsAreShown
  <2>6. itemsShown' = [i \in DOMAIN items' |-> items'[i].n]
    <3>1. itemsShown' = [i \in DOMAIN itemsShown' |-> itemsShown'[i]]
      BY <2>3 DEF JsonTypes
    <3>. QED  BY <2>4, <2>5, <3>1, Zenon
  <2>7. \A i \in DOMAIN items : items[i].n \in Nat /\ items[i].n <= made
    BY DEF ItemsAreShown, JsonTypes
  <2>8. \A i \in DOMAIN items : items[i].n # made + 1 /\ items[i].n <= made + 1
    BY <1>0, <2>7
  <2>9. ItemsAreShown'
    BY <1>0, <2>1, <2>2, <2>4, <2>6, <2>8 DEF ItemsAreShown
  <2>10. RowsApart'
    <3>1. \A i \in DOMAIN rowsShown : rowsShown[i].n \in Nat /\ rowsShown[i].n <= made
      BY JsonRowsAre DEF RowsApart
    <3>2. \A i \in DOMAIN rowsShown : rowsShown[i].n <= made + 1
      BY <1>0, <3>1
    <3>. QED  BY <2>1, <3>2 DEF RowsApart
  <2>. QED  BY <2>1, <2>3, <2>9, <2>10 DEF FieldsAreRows, OnPage, LoadedStays
<1>6. ASSUME NEW i \in DOMAIN items, RemoveItem(i) PROVE JsonInv'
  <2>. DEFINE r == CHOOSE j \in DOMAIN itemsShown : itemsShown[j] = items[i].n
  <2>1. r = i
    BY <1>0 DEF ItemsAreShown
  <2>2. itemsShown' = TakenOut(itemsShown, i) /\ items' = TakenOut(items, i)
        /\ UNCHANGED <<fields, rowsShown, loadedOnce, typedIn, made>>
    BY <1>6, <2>1 DEF RemoveItem
  <2>. HIDE DEF r
  <2>. DEFINE Kept(j) == IF j < i THEN j ELSE j + 1
  <2>3. /\ items' \in Seq([n : Nat, value : JsonValues])
        /\ DOMAIN items' = 1..(Len(items) - 1)
        /\ \A j \in DOMAIN items' : items'[j] = items[Kept(j)]
    BY <2>2, WhatIsLeft DEF JsonTypes
  <2>4. /\ itemsShown' \in Seq(Nat)
        /\ DOMAIN itemsShown' = 1..(Len(itemsShown) - 1)
        /\ \A j \in DOMAIN itemsShown' : itemsShown'[j] = itemsShown[Kept(j)]
    <3>1. itemsShown \in Seq(Nat) /\ i \in DOMAIN itemsShown
      BY <1>0 DEF JsonTypes
    <3>. QED  BY <2>2, <3>1, WhatIsLeft
  <2>5. /\ \A j \in DOMAIN items' : Kept(j) \in DOMAIN items \ {i}
        /\ \A j, m \in DOMAIN items' : Kept(j) = Kept(m) => j = m
    BY <2>2, LeftAreApart DEF JsonTypes
  <2>6. Len(itemsShown) = Len(items)
    BY DEF ItemsAreShown, JsonTypes
  <2>. HIDE DEF Kept
  <2>7. itemsShown' = [j \in DOMAIN items' |-> items'[j].n]
    <3>1. itemsShown' = [j \in DOMAIN itemsShown' |-> itemsShown'[j]]
      BY <2>4
    <3>2. DOMAIN itemsShown' = DOMAIN items'
      BY <2>3, <2>4, <2>6
    <3>3. \A j \in DOMAIN items' : itemsShown'[j] = items'[j].n
      BY <2>3, <2>4, <2>5, <3>2 DEF ItemsAreShown
    <3>. QED  BY <3>1, <3>2, <3>3, Zenon
  <2>8. ItemsAreShown'
    <3>1. \A j \in DOMAIN items' : items'[j].n <= made
      BY <2>3, <2>5 DEF ItemsAreShown
    <3>2. \A j, m \in DOMAIN items' : items'[j].n = items'[m].n => j = m
      BY <2>3, <2>5 DEF ItemsAreShown
    <3>. QED  BY <2>2, <2>7, <3>1, <3>2 DEF ItemsAreShown
  <2>9. JsonTypes'
    BY <2>2, <2>3, <2>4 DEF JsonTypes
  <2>. QED  BY <2>2, <2>8, <2>9, Zenon DEF RowsApart, FieldsAreRows, OnPage, LoadedStays
<1>7. CASE UNCHANGED jsonVars
  BY <1>7 DEF jsonVars, JsonTypes, RowsApart, FieldsAreRows, OnPage, ItemsAreShown, LoadedStays
<1>. QED  BY <1>1, <1>2, <1>3, <1>4, <1>5, <1>6, <1>7 DEF JsonNext, RowLabels

\* A row is found by its number, and of the fields only its own has it.
LEMMA SavedAsShown ==
  ASSUME JsonInv, NEW j \in DOMAIN rowsShown, rowsShown[j].label # NoKey,
         \A m \in DOMAIN rowsShown : rowsShown[m].label = rowsShown[j].label => m = j
  PROVE  Saved[rowsShown[j].label] = ReadValue(rowsShown[j].value)
<1>. DEFINE k == rowsShown[j].label
<1>1. PICK i \in DOMAIN fields : fields[i].n = rowsShown[j].n
  BY DEF JsonInv, FieldsAreRows
<1>2. \A a \in DOMAIN fields :
        \E m \in DOMAIN rowsShown : rowsShown[m].n = fields[a].n /\ RowOf(fields[a].n) = rowsShown[m]
  BY DEF JsonInv, FieldsAreRows, OnPage, RowOf
<1>3. RowOf(fields[i].n) = rowsShown[j]
  BY <1>1, <1>2 DEF JsonInv, RowsApart
<1>4. \A a \in DOMAIN fields : RowOf(fields[a].n).label = k => a = i
  BY <1>1, <1>2 DEF JsonInv, FieldsAreRows
<1>. DEFINE claims == {a \in DOMAIN fields : RowOf(fields[a].n).label = k}
            last == CHOOSE a \in claims : \A b \in claims : b <= a
<1>5. claims = {i}
  BY <1>3, <1>4
<1>6. i <= i
  BY DEF JsonInv, JsonTypes
<1>. HIDE DEF claims
<1>7. last = i
  BY <1>5, <1>6
<1>8. k \in SavedKeys
  BY <1>3 DEF SavedKeys
<1>9. Saved[k] = ReadValue(RowOf(fields[last].n).value)
  BY <1>8 DEF Saved, claims
<1>. QED  BY <1>3, <1>7, <1>9

LEMMA PageIsSavedThen == JsonInv => PageIsSaved
<1>. SUFFICES ASSUME JsonInv PROVE PageIsSaved
  OBVIOUS
<1>1. ASSUME NEW j \in DOMAIN rowsShown, rowsShown[j].added = "no", rowsShown[j].n \notin typedIn,
             \A m \in DOMAIN rowsShown : rowsShown[m].label = rowsShown[j].label => m = j
      PROVE Saved[rowsShown[j].label] = loadedOnce[rowsShown[j].label]
  <2>1. rowsShown[j].label \in DOMAIN loadedOnce
        /\ rowsShown[j].value = loadedOnce[rowsShown[j].label]
    BY <1>1 DEF JsonInv, LoadedStays
  <2>2. rowsShown[j].label # NoKey
        /\ ReadValue(loadedOnce[rowsShown[j].label]) = loadedOnce[rowsShown[j].label]
    BY <2>1, JsonAssumption DEF JsonInv, JsonTypes
  <2>3. Saved[rowsShown[j].label] = ReadValue(rowsShown[j].value)
    BY <1>1, <2>2, SavedAsShown
  <2>. QED  BY <2>1, <2>2, <2>3
<1>. QED  BY <1>1 DEF PageIsSaved, JsonInv, FieldsAreRows, ItemsAreShown

\* For any objects, lists and labels and any number of rows: however rows are added,
\* labelled, typed into and removed, what getValue reads from the maps kept beside the
\* page is what the page shows.
THEOREM PagesAreSaved == JsonSpec => []PageIsSaved
<1>1. JsonSpec => []JsonInv
  BY JsonInvInit, JsonInvStep, PTL DEF JsonSpec
<1>. QED  BY <1>1, PageIsSavedThen, PTL
=============================================================================
