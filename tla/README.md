# Flappy Bingus: a verification project

TLA+ models of the Flappy Bingus server, game and client, checked with TLC on
small instances and proved about with TLAPS. Paths are relative to the root of
the repository.

## 1. The system

A browser game with a Node server. `server.cjs` is one process: HTTP handlers
run on one event loop and change state in MongoDB (`db/mongo.cjs`), in a few
files and in the memory of services. A handler runs alone between two `await`s
and anything may run at one, so a request here is a process whose steps are the
stretches between its awaits, and a document a handler read is a snapshot
(`snap`) that may be stale when it writes.

| Component | State | Operations | Talks to | What is hard | What makes it correct |
|---|---|---|---|---|---|
| Player accounts (`server.cjs`, `db/mongo.cjs`, `services/scoreService.cjs`, `currency.cjs`, `unlockables.cjs`) | `users`, `support_offers` documents | register, session lookup, score, select cosmetic, purchase, offer callback | database; every other handler of the same player | interleaving at awaits, stale snapshots, repeated callbacks, failure between two writes, an account removed by an operator | coins neither invented nor lost, nothing owned for free, an offer paid once, only sold cosmetics selected, no run uncounted |
| Best runs (`services/bestRuns.cjs`, `recordBestRun`) | `best_runs` documents | upload of a finished run | accounts (best score) | compare, await, write without a condition | the stored score is the stored replay's; a best run never worsens |
| Replay to MP4 (`services/replayMp4Pipeline.cjs`) | two indexes, a queue, a running flag, files | request, status, download, stop | best runs, ffmpeg | callbacks that pile up, an await during which the store changes, a process that restarts | one encoder, indexes agree, no job left asleep, one encoding per replay, whole files only |
| Configuration stores (`services/serverConfig.cjs`, `gameConfigStore.cjs`) | configuration in memory, in the database, in a file; a modification time | load, save, reload, admin edits | database, file system, an operator's editor | three copies written one after another, file writes that are not atomic, read-modify-write across awaits | copies agree at rest, a saved edit stays |
| Icon registry (`services/iconRegistryStore.cjs`, `saveIconRegistry`) | `icon_registry` collection, cached list | load, replace, legacy migration | database | two-step replacement | after a replacement exactly its icons are there |
| Sessions (`server.cjs`, `public/js/session*.js`, `userHintRecovery.js`) | signed cookie or bearer token, remembered name | sign, verify, renew, recover from a 401 | accounts | expiry while a request is under way, answers out of order | a player is never logged out by a stale answer, no recovery loop |
| Rate limiter (`server.cjs`) | windows per address and route | count, sweep, reconfigure | every handler | sweeping while counting | at most the limit per window |
| MongoDB connection (`db/mongo.cjs`) | client, database handle, status | connect, retry, health | every handler | concurrent first requests, failed attempts | a returned connection is usable, status matches |
| Achievements (`services/achievements.cjs`, `achievementDefinitions.cjs`, `public/js/achievements.js`) | progress and state per player | evaluate a run, merge | accounts, game | two implementations, monotone merging | unlocked stays unlocked, client and server agree |
| Game simulation (`public/js/game.js`, `mechanics.js`, `entities.js`, `pipes/`) | player, pipes, orbs, combo, cooldowns, score | update a step, use a skill, spawn, collide | replay, menus | boundaries in time, several timers | score and combo bookkeeping, invulnerability, life cycle |
| Replay recording and playback (`replayManager.js`, `replayUtils.js`) | random tape, tick log, pending actions | record a step, play back | game | the same random numbers in the same order | playback reaches the recorded state |
| Game over and uploads (`main.js`, `bestRunRecorder.js`) | current run, best score, user | submit score, upload best run, restart | game, API | a new run while the last one's answers are awaited | what is uploaded is the run that ended |
| Client menus (`*MenuHandlers.js`, `trailSaveResponse.js`, `shopMenu.js`) | selected cosmetic, user | select, save, purchase | API | answers out of order, optimistic updates | the menu ends on what the server stored |
| Headless engine (`engine/*.js`) | clock, action queue, event log, snapshots, remote states | step, enqueue, record, interpolate | replay rendering, tests | caps and boundaries | order kept, bounded, nothing skipped |
| Tutorial (`public/js/tutorial.js`) | stage and its counters, overridden configuration and settings | enter, tick, retry, exit | game, profile | leaving at any moment | no lesson is stuck, nothing is left behind |
| Controls (`public/js/input.js`, `keybinds.js`, `rebindControls.js`, `/api/binds`) | bindings of page, cookie and account, keys held | press, release, rebind with a swap, save, load | menus, accounts | a save put back late, two validators, a listener that takes the keys from the game | each input has one action, the server takes what the page holds |
| Themes (`public/js/themes.js`) | name, values and mode of a tab; storage | choose, edit, reset, randomize, export, import | none | two tabs store over each other, a store fails silently | a preset's name means its values, what was stored is what comes back |
| Replay browser (`public/js/replayBrowser*.js`) | list, selection, fetched runs, the game that plays | select, fetch, reload, play, pause, restart, step | best runs, game | late answers, several frame loops, a random source that is used up | what plays is what is said to play |
| Operator's pages (`public/bigflappin/`, `public/traileditor/`, `public/icon/`, `public/achievementeditor/`) | cards and fields, a selected document | load, type, add, remove, apply a preset, save | admin endpoints, normalizers | whole copies saved over each other, fields found by an index, answers that come late | a save changes what was changed, and stores what is shown |

Left out for good: drawing, audio, layout, read-only endpoints, static
pages, player cards and previews, vendored ffmpeg, coverage scripts. They keep
no state the others depend on.

## 2. The modules

| Module | Models | State, and what it is in the code |
|---|---|---|
| `Wallet` | `services/currency.cjs` | operators: a wallet is a function of the two currencies, `Absent` where the document has no entry |
| `Unlockables` | `services/unlockables.cjs`, `trailCatalog.cjs` | operators: the catalog is a constant; `IsUnlockSatisfied` is `isUnlockSatisfied` |
| `Accounts` | the handlers of `server.cjs` that write a user, and the updates of `db/mongo.cjs` | `accounts`, `users`, `offers`: what MongoDB holds; `req[r]`: a request in flight, where it is (`at`) and the document it read (`snap`). History: `granted`, `bought`, `tally`, `recorded`, `credited` |
| `Ledger` | the promise of the accounts: coins are granted and spent exactly | abstract specification, implemented by `Accounts` with one request at a time |
| `BestRuns` | `POST /api/run/best` | `bestScore` of the user documents, the `best_runs` documents, uploads in flight |
| `RenderPipeline` | `replayMp4Pipeline.cjs` and its three endpoints | `entries`, `hashIndex` (the two maps of the store), `jobs`, `running`, `encoding` (jobs inside `processJob`), `wakeups` (callbacks of `setImmediate` that are due), `files` |
| `ConfigStore` | `serverConfig.cjs`, `gameConfigStore.cjs`, the admin endpoints | `current`, `seen` (`lastMtimeMs`), `db`, `file`, `mtime`, `up`, requests in flight |
| `Game` | `public/js/game.js`, `mechanics.js`, `perfectGaps.js`, the pipe and orb spawners | timers, spawn plans, warnings, gates and their books (`gapMeta`), combo, streak, score. `at` is the place within `update`: a frame is several steps |
| `Client` | `main.js`, `replayManager.js`, `replayArtifacts.js`, `bestRunRecorder.js`, the random sources of `util.js` | `shown` (panels), `game`, `live`, `active` (`activeRun`), `rand` (`_rand01`), `playback` (calls of `play` under way), `request` (game over handlers that await) |
| `RateLimiter` | `_rateLimitState` of `server.cjs`, `_clientRateState` of `api.js` | `windows` per key, `cfg` in force, when the last sweep was. History: `granted` |
| `MongoConnection` | `connect`, `ensureConnected` of `db/mongo.cjs` | `client`, `connected`, `caller[c]`: an operation and the attempt it awaits |
| `IconRegistry` | `iconRegistryStore.cjs`, `saveIconRegistry`, the admin endpoint, the migration at a start | `stored` (the collection), `cached` (the list in memory), replacements in flight |
| `Sessions` | tokens and cookies of `server.cjs`, recovery in `api.js`, `session.js`, the flows of `sessionFlows.js` | the browser's `token`, `cookie`, remembered name and `player`, the server's accounts and secret, flows under way |
| `Menus` | the handlers of the trail, icon and texture menus, options, bindings, the purchase dialog | `shown` (each menu's choice), `player`, `account` (what the server has), handlers that await |
| `Achievements` | `achievements.cjs`, `achievementDefinitions.cjs`, `public/js/achievements.js` | definitions, `earned` (the account), the run's statistics, what the browser knew and announced |
| `Tutorial` | `tutorial.js` and the parts of `main.js` that start, leave and drive it | step, `scene`, counters, `tuning` (overrides in force), backups, clicks that wait |
| `Engine` | `engine/*.js` and the page's adapter to it | world, event log and animations, drivers, the buffer of remote snapshots |
| `Controls` | `input.js`, `keybinds.js`, `rebindControls.js`, the server's check and storage of bindings | `binds` and their copies (`cookie`, `stored`), `listening` (`rebindActive`), `keys` (`Input.keys`), saves under way. History: `whole`, `unseen` |
| `Themes` | `themes.js` | `tab` (the editor's `state` in each tab), `storage` (`localStorage`). History: `kept`, and `made`, which travels with a theme |
| `ReplayBrowser` | `replayBrowser.js`, `replayBrowserPlayer.js` | selection, cache and notices; the controller's game, source, tick and waiting callbacks |
| `Forms` | the editors of trails, icons, achievements and configurations with their handlers and normalizers | `held` (what the server stores), the cards of each page, saves in flight |
| `IconCard` | the card of an icon in the icon editor | the rows of effects and animations with the index each field was given |
| `Desk` | the database editor of `bigflappin/admin.js` | collection, selected document, editor on the page, calls in flight |
| `JsonEditor` | `bigflappin/modules/editor*.js` | fields and items as kept, rows as shown |

`Accounts` takes its operators from `Wallet` and `Unlockables`; `MCAccounts`
composes it with `Ledger` through a refinement mapping. `X` is instantiated for
TLC by `MCX` and proved about in `XProofs`; what `MCServices` and `MCScreens`
instantiate is proved about in `ServicesProofs` and `ScreensProofs`, but for `BestRuns`,
which has its own. The other components meet in data
only: `BestRuns` and `RenderPipeline` read a best score and a best run that
other components write, and each has the action by which it changes
(`SubmitScore`, `StoreBestRun`); `Accounts` lets a run earn any score, coins and
achievements; `Client` lets a run end with any score and the server answer
anything, so it holds whatever `Game` and `Accounts` do.

Components that share no state are instantiated together: `MCServices` (uploads
of best runs, rate limiter, connection, icon registry, sessions, forms, icon
card, database editor, JSON editor, replay browser) and `MCScreens` (controls, themes, menus,
achievements, tutorial, engine). A behaviour runs one of the parts, chosen in
the initial state: to interleave them would multiply the states and add no
behaviour of any of them.

How the code becomes actions:

- **A handler is split at its awaits and nowhere else.** A request's next step
  is one stretch of code up to the next `await`; what it read earlier is in its
  record. A MongoDB update of one document is atomic; two updates are two steps.
- **Failure** is a step of its own where an await can throw: `EndWithoutWrite`,
  `OfferFails`, `Fail`, `EncodeFails`, `Die`. After `Die`, memory is lost and
  the database and the file are what they are, also half written (`Torn`).
- **A frame** of the game is the sequence of phases of `Game.update`, each a
  step, because the order in which gates, orbs, combos and collisions are
  handled is where its books can go wrong. Skills are used between frames.
- **A request of a page** is a step when it is sent, one when the server serves
  it and one when its answer arrives, so answers are lost, refused and
  overtaken. What the code keeps while it waits is in the record of the handler.
- **Geometry is a choice**: which pipe is hit, when a gate is beyond the margin
  and how many orbs die are existentially quantified. Every real frame is among
  the choices.
- **`playback[p]`** keeps what a call of `play` saved in its local variables
  (the random source and the hidden panels), since that is what its `finally`
  block puts back, whoever has changed them since.

Variables marked "history" are written by the model only to state properties;
no guard reads them.

## 3. What is checked

Every property is an invariant or an action property of the run named here, and
for each one there is a mutant of a modelled definition (a dropped guard, an
unrestored source, a wrong index...) under which TLC finds it violated.

| Run | Question | Result |
|---|---|---|
| `races` | two requests of one player at a time, every interleaving | coins stay in sync between the legacy field and the wallet; what is for sale is paid for before it is owned or selected; an offer is paid once for each time it goes on record, and goes on record again only after it was paid; no run goes uncounted |
| `serial` | one request at a time, a store that may fail, an account that may be removed | accounts implement `Ledger`; coins are conserved; achievements are never forgotten |
| `lostcoins` | are coins conserved when requests overlap | **no**: a purchase overwrites the wallet with one computed from a stale snapshot |
| `repaid` | is an offer paid once when its callback is repeated, one callback at a time and nothing failing | **no**: the record of an offer just paid is deleted, so the next callback pays it again |
| `renders` | two requests, two spellings of a name, stop, restart | one encoder and no lost wake-up, indexes that agree with one render per replay, whole files only, and what is queued settles |
| `stale` | is a request answered about the replay it asked for | **no**: the fallback on the player's name finds the old replay |
| `config` | two requests, an operator, deaths, refused writes, a database that is down | nothing refused is served; undisturbed, the copies agree and part edits keep the rest |
| `drift` | does memory stay with the database when nothing fails | **no**: a check for the missing file races the first save |
| `services` | eleven parts: three uploads of one player; windows, sweeps and edits of limits; overlapping connection attempts; replacements of the icon registry that fail and die; sessions that expire, restarts, lost answers, and flows that overlap; two pages of the operator's tools; the card of an icon; the database and JSON editors; the replay browser | a stored score is its replay's and worsens only through an upload that had found an older one; no more than two windows' worth is let through in one; a client that was handed out is open; a restart serves the same icons; an active player stays signed in and is the one saved for; an untouched entry comes back as it was seen; a card reads as it shows and a preset keeps the rest; a quiet editor saves what it shows where it came from; what is saved is on the page; the browser plays what it says |
| `game` | runs of three frames under five configurations | score, protection, streaks and the books of a frame are right at every boundary |
| `client` | two runs, the tutorial, two replays, game overs that await answers | without haste recordings, uploads and retry seeds are of the right run and a best run is sent; a replay leaves nothing behind |
| `screens` | six parts: menus with answers in any order; achievements of two runs across an edit; the tutorial; the engine; the controls; the themes of two tabs | quiet menus show what is stored; unlocked is what was earned, and what was announced is unlocked; the tutorial leaves nothing behind and never gets stuck; the engine's reports are true; each input keeps one action; a tab shows the theme stored last, and a preset's name means its values |

Several of these properties are conjunctions of named parts that one hazard
can break in several ways (`SoldIsPaid`, `QueueIsServed`,
`StoreIsSound`, `FrameBooks`, `HandlersEndTheirRun`, `SignedInAsShown`,
`BrowserPlaysWhatItSays`, `ReportsAreTrue`, `AchievementsAreTrue`, `TutorialLetsGo`,
`ControlsStayUsable`); the parts are stated, with their
comments, next to them. The type invariants are proved, or were
checked while the modules were written, and are not part of the runs.

The four runs that end in a violation are listed as findings with the text of
the repository they contradict.

**Bounds.** An offer goes on record twice at most in `races`, `lostcoins` and `repaid` (`MaxRecords`: paid,
taken back, and paid again), once in `serial`. The account an operator removes is that of a single
handler in `serial`; for handlers that overlap this is proved only. Two requests of one player (three for uploads, in `services`) are the least that
interleave, and the handlers read and write one player's documents only; a
third request adds no new pair. The catalog has a cosmetic of each way to unlock and
each currency. The four replays of the uploads give worse, equal and better scores, and zero. `renders`
takes every hash for renderable and two hashes, since the pipeline compares
hashes for equality only. `MaxMtime` counts the writes of the file (4: two
saves and an edit after the first one); times grow strictly, as on the file
systems the server runs on. A `game` run lasts `MaxTime` = 3 frames with timers
of 1 to 4, so that each timer is run out, cut short and renewed; two gaps are
enough for one to close while the other opens, and `MaxPipes` = 3 so that the
cap of 280 bites. The five configurations each enable what interacts (two
skills; one skill with gaps; orbs alone) and are chosen in `Init`. `client`: two
runs are the one that ended and the one started too soon; two replays overlap;
scores 0 and 1 with best scores 0 and 1 give worse, equal and better.

In `services`, the limiter runs 4 units of time with windows of 3 and 4 and
limits 1 and 2, so a window ends, is swept and is opened again under another
configuration; three callers and four clients are enough for an attempt that
fails to meet one that succeeded and one that is under way; two icons and two
styles tell a replacement from the one it overlaps; a session lives 2 seconds,
is renewed in the last of them, and one restart may change the secret. Sessions are two
of the parts: one flow at a time while time passes, accounts go and the server restarts; and two
flows that overlap, while none of that happens, to show that what they leave behind
is mended (`disturbed`, below). Two
pages of one tool, one edit and one save each, are the least that save over
each other; a card takes five changes with two rows to a list, so that a row is
moved, removed and put back; the desk makes three calls, a collection and two
documents. In the replay browser player `a` has a recording with a tape, two
ticks long and in two versions, `b` one with a seed, one tick long; two requests
and two frame loops overlap.

In `screens`, two flows overlap (they are symmetric) and a behaviour runs at most
three handlers of one kind of choice (`MaxKinds`, `Handlers`); two runs, one edit of the
definitions, and progress capped at 3 make a run that is recorded after the
next one began, and a requirement reached by two runs only; the tutorial asks
for two orbs in a row in place of five; the engine is stepped three ticks in a world
so small that a dash reaches its sides, with two commands queued at most (`MaxQueued`) and
room for three events and two snapshots. What the player owns is watched where icons are
chosen only, since nothing else can be bought; a tutorial counts the clicks that wait.
Three skills are the least in which a swap and a default may both take an input; the cookie and
the account hold nothing, another set, or one of which the page refuses a part; four
loads, rebinds and presses with two saves let a late refusal meet a newer set (releases and repeats are free).
Two tabs with a color and a range, two presets and two changes let each store over the other; a toggle is
normalized as a color is.

**Fairness** is assumed in `renders` only: callbacks given to `setImmediate`
are called (`RunNext`), and an encoder ends, since `encodeMp4` kills it after
120 s (`EncodeEnds`). Requests, players, operators and restarts are not fair.

**Deadlock** is checked in every run but `services` and `screens`, whose parts
come to an end when their bounds are used up.

## 4. What is proved

For every value of the constants that meets the assumptions named `...Assumption`
in the modules, and without the bounds (`MaxRuns` in `Accounts` and the like
are arbitrary naturals). Each theorem is `Init => Inv`, `Inv /\ [Next]_vars => Inv'`
with one lemma per action or group of actions, and a last temporal step.

- **`AccountsProofs`**: `TypeCorrect`, from `WellFormed`, which adds to the type
  invariant what the record of a request holds at each of its steps.
  `OffersAreAlwaysAccountedFor`, from `OffersInv`: at most one request settles a
  transaction, while it does so the transaction is on record, unpaid until it has paid it and paid
  as often as recorded from then on, and what is not on record was paid as often as it was. The unique index
  bounds what is paid by what was put on record; it does not make that once, since
  the code itself takes the record back (section 5).
  `BustercoinsStayInSync`, `NothingIsEverFree` and `OnlyTheSoldIsSelected` (together
  `TheSoldIsAlwaysPaid`), from `AccountsInv`: the documents *and every snapshot in flight* are sound, which
  is needed because handlers write what they computed from snapshots. A
  snapshot may be stale, but what it allows was allowed before, and what an
  account was granted only grows: that is why nothing is ever free although coins
  can be lost. `NoRunIsLost`, from `CountedInv`: a handler with a snapshot is that of an
  account, so a run is added to the counters of the document that is there.
  `LoneRequestsConserveCoins`, `LoneRequestsForgetNothing` and `LoneRequestsKeepALedger`
  assume `LoneRequest` (one handler in flight; players, operators and failures
  of the store are still arbitrary), from `LoneInv`: a lone request's snapshot is as
  fresh as the document, so that what is written back overwrites nothing. Every
  step is then one of the ledger's (`LedgerStep`): an account is opened, coins come
  in, or an item is sold. The last theorem is the refinement `ExactLedger`.
- **`BestRunsProofs`**: `ScoresMatchReplays`, `OnlyStaleUploadsWorsen`, and
  `LoneUploadsNeverWorsen` (if uploads never overlap, a best run never worsens).
- **`RenderPipelineProofs`**: `OneEncoderAtATime` and `NoWakeupIsLost` (together
  `QueueIsAlwaysServed`), `IndexesStayInAgreement` and `ReplaysAreRenderedOnce`
  (together `StoreStaysSound`), `OnlyWholeFilesAreServed`, all
  from `PipelineInv`, which says where each entry is by its status: queued
  entries have exactly one job, the one being encoded is out of the queue, and
  both indexes hold the same entry under the same key.
- **`ConfigStoreProofs`**: `RefusedEditsAreNeverServed`, from `ConfigInv` (every
  configuration in memory, file, database or a request's hands was entered).
  `CopiesStayInAgreement` and `PartEditsKeepTheRest`, from `AloneInv`: while
  nothing disturbs it, one request is in flight at most, and what it holds
  relates the copies at each of its steps.
- **`GameProofs`**: `ScoreAddsUp`, `CombosHaveTime`, `ProtectedPlayersAreNotHit`
  (from `safeUntil <= timeAlive + invT`: no skill shortens a protection),
  `WarningsTellTheTruth` (in the phases of a frame before the warnings are
  rebuilt they are those of the last frame), and `BooksAreKept` and `StreakIsFair`
  from `BooksInv`: the books of a gap count the pipes it still has, exist as
  long as its gate or a pipe does, and a gate leaves only in the phase that
  closes its books. `FramesKeepBooks` joins what holds between frames.
- **`ClientProofs`**: `ClientTypes`, `RunsAreRecorded`, `HandlersEndNoOther`,
  `ReplaysCleanUp` and `BestRunsAreSent`, for any number of runs, scores and
  replays, from `ClientInv`. It has a part for each actor: the run that is played
  is the one that is recorded (`LiveInv`; a replay shown over it is the only one and
  has kept its tape), a handler that waits finds the recording of its run
  (`PendingInv`), what the uploader remembers was sent (`UploadInv`), and a replay
  alone will put back what it found (`CalmInv`). Each relies on whoever interferes
  being told of in `rushed` or `stirred`, which is why the theorems say "unless".
- **`ServicesProofs`**, a section for each part of `MCServices`:
  - `LimitIsKept`, from `LimiterInv`: a window is forgotten only when it has passed, so
    the grants of windows that do not follow each other are a window's length apart.
    Those of one span then belong to two windows at most, and are mapped one to one into
    `1..2 * MaxLimit`.
  - `ClientsStayOpen`, from `ConnectionInv`: a client under construction belongs to one
    attempt alone until it is the store's, so that an attempt that fails closes
    what nobody else has.
  - `RestartsServeTheSame`, from `RegistryInv`: all icons of a replacement that runs
    alone are stored but those it has left to write.
  - `QuietDeskSaves`, from `DeskInv`: unless opens went astray, one call is under way at
    most, and its answer will find the selection it was made for.
  - `CardsReadAsShown` and `PresetsKeep`, from `CardInv`: each field carries the index of its
    row wherever it is read, and a guided row has a type its target allows.
  - `BrowserIsTrue`, from `BrowserInv`: what the game is set to, the run that is worn and
    what will be put back agree, and of a tape no more was drawn than ticks were
    played, until a restart (`again`).
  - `FormsKeep`, from `FormsInv`: whatever page, answer or save in flight an entry
    nobody touched is in, it is there as it was seen, at its place of the list.
  - `StaysSignedIn`, from `SessionsInv`: while nothing is disturbed, token and cookie are
    the same player's or one of them has lapsed, and the one flow under way was sent with both.
  - `PagesAreSaved`, from `JsonInv`: the map of the fields and the rows of the page are one
    to one, and a row that was loaded keeps its label, and its value until it is typed into.
- **`ScreensProofs`**, a section for each part of `MCScreens`:
  - `ThemesKept`, from `ThemesInv`: what is stored is what was kept last, and each theme is what its
    maker says.
  - `StaysUsable`, from `ControlsInv`: as long as every set that came was
    unambiguous, so is what a save carries and what it may put back.
  - `LetsGo`, from `TutorialInv`: while the tutorial is under way it holds what has to be put
    back, and a lesson has its scene to come or what comes of it.
  - `TrueToTheRuns`, from `AchievementsInv`: an account's progress is the sum of its runs,
    the page never knows more than the account, and what was announced of a
    run is unlocked or will be when that run is recorded.
  - `EngineIsTrue`, from `EngineInv`: the log is in the order of the clock and its last word on dashes
    and phases is what holds, an animation was played once for each trigger that was seen, and
    a snapshot is in the buffer or older than all of a full one.
  - `MenusShowWhatIsStored`, from `MenusInv`: the answers on their way are in the order they
    were served (`OrderInv`); each tells what is stored unless a handler that writes was served
    after it, or one served later has been dealt with already (`AnswersTell`); a handler
    that met no other one finds the page as it left it, and would put back what is stored
    (`AloneInv`); and while no handler that concerns what is watched waits, page and
    server agree on it (`Agreement`), for a trail the page's player too, whom
    every other answer shows again.

The assumptions say no more than that the data has the shape the code reads:
the fields a JSON document has are finite and its values read back as they are
(`JsonAssumption`), requirements are numbers under the known keys
(`AchievementsAssumption`), "no trigger" is not one (`EngineAssumption`), only icons have
to be bought and "signed out" is no account (`MenusAssumption`). Where a
proof needs induction over a number (how far a fold, a tally or a list of catches has
got), it takes the least number at which the claim fails (`LeastOf`) and
refutes it: this needs no theorem with an operator parameter.

Model-checked only: `QueuedSettles` (liveness under fairness, which this prover does
not reach). Every other property of a passing run has its theorem.

## 5. Where the code departs from what it says or should do

Findings of violation runs: `lostcoins`, `repaid`, `stale`, `drift` (section 3).
The models contain these as well; the properties are stated around them:

- **Offers are paid again, or never** (`mongo.cjs:642`-`664`). The code reads the field
  `value` of what `findOneAndUpdate` answers; the driver that `package-lock.json` pins
  (mongodb 6.21.0) answers with the document, or `null`. An offer that was just paid is
  therefore taken for one without an account: its record is deleted, the callback is told
  `user_not_found`, and the next callback pays it again (`repaid`). Where the account
  really is gone, reading `value` of `null` throws and the record stays. It also stays,
  unpaid, when the store fails or the process stops between the insert and the
  payment; every retry is then told `duplicate`. The other updates of a user have the same shape: a
  score is stored and then answered with an error (`mongo.cjs:464`); a selection, a purchase, key
  bindings and settings are stored and answered with `ok` and no user (`mongo.cjs:567`, `610`, `675`).
  After a trail, icon or texture the page then has no player until the next refresh or sign-in.
- **Two scores that overlap** (`mongo.cjs:438`): the achievements of the slower one replace
  those of the faster one. `NothingForgotten` is checked for requests that come one at a time.
- **Long runs are not kept** (`bestRunRecorder.js:3`, `166`-`169`): a recording of more than 5 MiB is
  not sent, which at 480 ticks a second is a run of about two and a half minutes. The
  tests ask for this (`bestRunRecorder.spec.js:153`); a player's best run is then
  not the one that is stored. In `Client` whether a recording `fits` is open, and `BestRunIsSent`
  is about those that do.
- **A game over handler finishes the wrong run** (`main.js:2054`-`2130`).
  Pressing R while the score is being sent starts a new run; the handler then
  marks *that* run ended: its ticks are no longer recorded, its actions are no
  longer applied, "Retry Previous Seed" offers its seed although `main.js:631`
  calls it the "Seed of the most recently finished run", and its fragment of a
  recording may be uploaded with the score of the run before. `rushed` is the set of
  runs this can happen to.
- **Replays that overlap** (`main.js:877`, `replayManager.js:268`): a replay
  asked for in the menu starts whenever it arrives, also over a run or another
  replay. Each puts back the random source and the panels it found, so a live
  run may draw from a tape that is exhausted; `frame` then throws before it asks
  for the next frame. `stirred` marks such states.
- A worse best run wins when two uploads overlap (`mongo.cjs:505`): allowed by
  `WorsensOnlyIfStale`, excluded by `LoneUploadsNeverWorsen`.
- A render that failed is never retried, where
  `docs/REPLAY_TO_MP4_PIPELINE_SPEC.md:69` asks for three attempts.
- An operator's edit between the write and the stat of a save is taken for
  read (`serverConfig.cjs:161`).
- A server started without the database keeps edits in the file only; the next
  start with the database reverts them (`server.cjs:3181`).
- **The free trail nobody meant** (`trailStyleOverrides.cjs:232`,
  `server.cjs:548`, `unlockables.cjs:58`): a trail's optional minimal score is
  stored as `null` and read back as `Number(null)`, which is 0; any score then
  unlocks the trail whatever its achievement. `UNLOCKABLES_SYSTEM.md:27` only
  calls the score fallback optional.
- **Pages save whole copies** (`bigflappin/admin.js:236` and the editors): a
  concurrent save is lost; the achievements page renders what it first loaded,
  so its next save reverts its own last one; the menu tool, pressed before its first answer,
  sends no menus and restores the defaults. Icons cannot be removed, and built-in icons and
  trails reappear. A save of what was not edited drops the legacy animation and the
  texture of built-in animated icons and the minimal score of `world_record`; an
  achievement's unlock without an id becomes free; two saves in flight
  may be applied in either order.
- **The icon card**: the texture of a preset has no effect; parameters that are not JSON
  are dropped silently; JSON without version, palette and circle is taken as legacy and
  loses effects and animations; an animation whose type does not fit its target is
  changed as soon as its card is made; a target `effects[i]` is a position and does not
  follow the effect when it moves.
- **The database editor** (`bigflappin/admin.js:315`): opens that overlap or
  fail leave a document in the editor that is not the selected one, and Save
  overwrites the selected one with it. `astray` marks this. In the JSON editor `null`
  stays `null` whatever is typed, a number that is none becomes 0, and the later
  of two equal labels wins.
- **Restart in the replay browser** (`replayBrowserPlayer.js:118`), also Play at the end,
  leaves the random source where the tape has got to: a seeded run
  goes astray, a taped one throws, and the page goes on saying that it plays. Time that was
  paused is played at once on resuming; reloading the list disables the buttons of a replay
  that plays; a run that was fetched late replaces one selected since (`crossed`); a fetch
  that is rejected leaves "Loading" on the page. Runs are kept for good, so a refreshed
  list may describe a newer run than the one that plays.
- **Sessions**: two flows that overlap may leave a browser with the token of one player and the
  cookie of another, each taken from the answer that came last (`session.js`, `api.js`): the page
  shows one and, once the token has lapsed, saves for the other. `disturbed` marks this. It is mended
  by the next sign-in that has the browser to itself, which gives both; the name in an old cookie
  may come back even then, once the token is forgotten (`legacy`).
- **Tutorial**: a Start pressed while the sounds load takes the step's
  scene away (`swept`); Back from the practice step leaves the scoring that was
  taught not applied again; settings of a profile that arrives during the tutorial are overwritten when
  it stops (`late`); a second perfect is not counted while the first is still shown; the
  dash step ends also when its pipe merely leaves; a sound that failed to
  load is never tried again.
- **Controls**: the page takes mouse buttons 0 to 2, the server 0 to 4 (`keybinds.js:48`,
  `server.cjs:1149`), and what is refused becomes the default, whatever else is bound to it: a set the
  server takes may be ambiguous on the page (`whole`). `keyup` is ignored while the UI has the focus
  (`input.js:179`, "prevents odd stuck-state"), so a key released there stays held (`unseen`). A key that
  repeats when Rebind was pressed by it is bound. A refused save puts back the set of its own
  start, also over a newer one.
- **Themes**: a custom theme comes back under the default preset's name after a reload (`themes.js:1346`), and
  Reset then goes to that preset.
- **Engine in the page**: the driver counts two ticks a step, and the engine's default bounds of
  300 by 300 report bounces of dashes that the larger game did not see.
- The marker pipes of a special wall are placed outside the field and leave it
  only when the cap of 280 pipes drops them (`game.js:2013`).

## 6. What is abstracted

- `findOneAndUpdate` answers as the pinned driver's does: with the document or
  `null`. The tests' stubs answer with an object that has a `value`, and the pages' handlers
  are written for answers that carry the account. `Menus` is modelled for those answers: a
  save the server stored is answered with the account or fails. The answer `ok` without a user,
  which the pinned driver leads to, is not modelled there; it takes away the page's player
  (`trailSaveResponse.js:51`) and `QuietMenusShowWhatIsStored` says nothing without one.
- ffmpeg does not outlive the server. Paths of encoded files are one per entry.
- Configurations are taken as normalized. `fs.writeFile` truncates and then
  writes. The game configuration store is the same store without the check for
  a changed file.
- `Game`: positions, particles, texts, the slow field's effect on speed,
  statistics no rule reads. The difficulty curve is a choice of interval; the
  spawn budget always has room for a pipe; times are whole frames, so sums of
  floats do not drift; bounces are bounded by a number no dash reaches in time.
- `Client`: what a recording contains is reduced to whether it is true to the
  run. That cursor coordinates are rounded in an uploaded recording, and that
  skill settings are not in it, is outside the model. A start pressed while the
  sounds load takes effect at once. An upload that fails is one that is never
  answered: neither changes what the uploader remembers. A frame loop that
  stopped is a loop whose `Tick` is never taken again. Modal windows are left
  out: they cover the panels and change nothing else.
- `RateLimiter`, `MongoConnection`, `IconRegistry`: an icon's style is one value; the driver
  connects, fails and times out as it likes.
- `Menus`: only icons have to be bought; whether the coins suffice is the
  server's choice; signing in is in `Sessions`.
- `Controls`: a refresh is answered with what is stored when it ends (older answers are in `Menus`); a
  rate limit or a lost session is a refused save; the cursor is left out. `Themes`: a
  field has two values and one out of range; random themes are any.
- `Achievements`: each skill has its own minimum of uses, as in the code; the catalog of the
  run asks for none of them, the proof is for any. The meters of the list are left out. What overlapping score
  handlers do to each other is in `Accounts`; the page's copy of the
  trail catalog is left out.
- `Tutorial`: places and times are reduced to whether something is still to
  come. `Engine`: whole steps and places; its random generator, which no system uses, is left out. The page's driver copies time,
  place and speed of the game's player; a scenario may emit a teleport only: one that emits the
  start of a dash by hand makes the log say what does not hold.
- `Sessions`: a cookie's Max-Age is the lifetime of its token counted from the answer's arrival
  (`CookieLapses`); one that is over during a flow is dropped when the flow has ended. A
  reauthentication takes the name that was typed, which may be any, before the remembered one.
- `ReplayBrowser`: a start and a tick draw one number each, time is whole ticks; layout,
  filters and sorting are left out.
- The editors: an entry is its looks, the part no form shows, and its unlock;
  of a JSON value one level stands for all. The server refuses a list of trails
  with a color or range that is none as a whole; the page never sends one, since it leaves out what it cannot read. Purchases are not among the unlocks of
  `Forms`: a price is kept as a minimal score is. Previews, the search for
  presets and `ConfigEditor.html` are left out.

The components marked `not_modelled` in `PROJECT.json` are in the plan, but for
those that section 1 leaves out for good.

## 7. Plan

Done: the server's accounts, best runs, renders and configuration, the game and the client
with its uploads; then achievements, the services around the accounts, sessions,
menus, tutorial, engine, replay browser and the operator's pages. What is left,
in the order of how much depends on it:

1. Composition: `Accounts` with the `Achievements` of a run in place of an
   arbitrary set, `Menus` over `Sessions`.
2. Settings and skill totals of the user documents, and the
   normalization of configurations.
