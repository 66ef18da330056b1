------------------------------ MODULE Accounts ------------------------------
(***************************************************************************)
(* The player accounts: the `users` and `support_offers` collections of    *)
(* db/mongo.cjs and the HTTP handlers of server.cjs that change them.      *)
(*                                                                         *)
(* The server is one Node process.  A handler runs alone between two       *)
(* awaits and any other handler may run at an await, so a request is a     *)
(* process whose steps are the stretches between its awaits.  What it      *)
(* keeps across them is the user document it read (snap), and the writes   *)
(* it finally sends are computed from that snapshot.  One MongoDB          *)
(* operation on one document is atomic.                                    *)
(*                                                                         *)
(* The driver that package-lock.json pins answers findOneAndUpdate with    *)
(* the document itself, or null, where db/mongo.cjs reads a field `value`  *)
(* of the answer.  A score is stored and then answered with an error, a    *)
(* selection and a purchase are stored and answered without a user; what a *)
(* support offer leaves is OfferCredit's.                                  *)
(***************************************************************************)
EXTENDS Unlockables

CONSTANTS
  Users,        \* the keys of the users collection
  Reqs,         \* requests that can be in flight at the same time
  Txns,         \* transaction ids of support offers
  Reward,       \* the supportcoins each transaction pays
  Scores,       \* scores a run can submit
  Earnings,     \* bustercoins a run can submit
  Opening,      \* documents an account may have when the server starts
  Removable,    \* accounts an operator may remove under the server's feet
  StoreMayFail, \* may the database fail between the two writes of an offer?
  MaxRuns,      \* bound: runs recorded per account
  MaxRecords,   \* bound: times a transaction is put on record
  Worth,        \* Worth[c][S]: what the purchases in S cost in currency c
  Nobody, NoTxn \* the fields of an idle request

Documents ==
  [runs : Nat,
   bestScore : Nat,
   bustercoins : Nat,
   currencies : Wallets,
   ownedUnlockables : SUBSET Items,
   achievements : SUBSET Feats,
   selected : [Types -> Items]]

\* bustercoins, the legacy field, and the wallet's own balance agree.
InSync(user) ==
  user.currencies[Bustercoin] \in {Absent, user.bustercoins}

PriceIn(c, i) ==
  IF i \in Purchasable /\ Catalog[i].currency = c THEN Catalog[i].cost ELSE 0

ASSUME AccountsAssumption ==
  /\ Reward \in [Txns -> Nat \ {0}]
  /\ Scores \subseteq Nat
  /\ Earnings \subseteq Nat
  /\ MaxRuns \in Nat
  /\ MaxRecords \in Nat
  /\ StoreMayFail \in BOOLEAN
  /\ Removable \subseteq Users
  /\ Nobody \notin Users
  /\ NoTxn \notin Txns

\* An account may predate currencies: its wallet may lack fields.
ASSUME OpeningAssumption ==
  \A d \in Opening : /\ d \in Documents
                     /\ InSync(d)
                     /\ d.ownedUnlockables \subseteq Purchasable
                     /\ \A t \in Types : d.selected[t] \in Purchasable
                                           => d.selected[t] \in d.ownedUnlockables

ASSUME WorthAssumption ==
  /\ Worth \in [Currencies -> [SUBSET Items -> Nat]]
  /\ \A c \in Currencies : Worth[c][{}] = 0
  /\ \A c \in Currencies, S \in SUBSET Items, i \in Items :
       i \notin S => Worth[c][S \cup {i}] = Worth[c][S] + PriceIn(c, i)
-----------------------------------------------------------------------------
VARIABLES
  accounts,   \* the keys that have a document
  users,      \* the document of each key
  offers,     \* the transactions on record in support_offers
  req,        \* the requests in flight
  \* history of the committed writes, read by the properties only
  granted,    \* per account and currency: what it opened with and was given
  bought,     \* per account: the purchases ever written to it
  tally,      \* per account: the number of recorded runs and the best of them
  recorded,   \* per transaction: how many times it was put on record
  credited    \* per transaction: how many times it was paid

store == <<accounts, users, offers>>
history == <<granted, bought, tally, recorded, credited>>
vars == <<accounts, users, offers, req, granted, bought, tally, recorded, credited>>

BuildUserDefaults ==
  [runs |-> 0, bestScore |-> 0, bustercoins |-> 0,
   currencies |-> BustercoinsOnly(0),
   ownedUnlockables |-> {}, achievements |-> {}, selected |-> Fallback]

Steps == {"idle", "insert", "rank", "ready", "offer", "credit", "undo"}

Requests ==
  [at : Steps, who : Users \cup {Nobody}, snap : Documents,
   recordHolder : BOOLEAN, txn : Txns \cup {NoTxn}]

Idle ==
  [at |-> "idle", who |-> Nobody, snap |-> BuildUserDefaults,
   recordHolder |-> FALSE, txn |-> NoTxn]

\* What normalizing a document leaves of its wallet.
Purse(user) ==
  NormalizeCurrencyWallet(user.currencies, BustercoinsOnly(user.bustercoins))

Balance(user, c) == GetCurrencyBalance(Purse(user), c)

(***************************************************************************)
(* Every document is normalized after it is read.  The in-memory copy      *)
(* changes, the stored document does not.                                  *)
(***************************************************************************)
EnsureUserSchema(user, recordHolder) ==
  LET filled == [user EXCEPT
                   !.currencies = Purse(user),
                   !.bustercoins = Balance(user, Bustercoin),
                   !.achievements = SyncTrailAchievements(user, recordHolder)]
  IN  [filled EXCEPT !.selected =
         [t \in Types |-> IF IsUnlockSatisfied(filled.selected[t], filled, recordHolder)
                          THEN filled.selected[t] ELSE Fallback[t]]]

TypeOK ==
  /\ accounts \subseteq Users
  /\ users \in [Users -> Documents]
  /\ offers \subseteq Txns
  /\ req \in [Reqs -> Requests]
  /\ granted \in [Users -> [Currencies -> Nat]]
  /\ bought \in [Users -> SUBSET Purchasable]
  /\ tally \in [Users -> [runs : Nat, best : Nat]]
  /\ recorded \in [Txns -> Nat]
  /\ credited \in [Txns -> Nat]

Init ==
  /\ accounts \in SUBSET Users
  /\ users \in [Users -> Opening \cup {BuildUserDefaults}]
  /\ \A u \in Users : IF u \in accounts THEN users[u] \in Opening
                                        ELSE users[u] = BuildUserDefaults
  /\ offers = {}
  /\ req = [r \in Reqs |-> Idle]
  /\ granted = [u \in Users |-> [c \in Currencies |->
                  Balance(users[u], c) + Worth[c][users[u].ownedUnlockables]]]
  /\ bought = [u \in Users |-> users[u].ownedUnlockables]
  /\ tally = [u \in Users |-> [runs |-> users[u].runs, best |-> users[u].bestScore]]
  /\ recorded = [t \in Txns |-> 0]
  /\ credited = [t \in Txns |-> 0]
-----------------------------------------------------------------------------
Respond(r) == req' = [req EXCEPT ![r] = Idle]

Proceed(r, step) == req' = [req EXCEPT ![r].at = step]

(***************************************************************************)
(* POST /api/register.  The insert is sent when the lookup found nothing;  *)
(* the unique index on key turns the insert that comes second into a       *)
(* lookup.  A registration that finds the account writes nothing here (it  *)
(* may rename the account within its key).                                 *)
(***************************************************************************)
RegisterFind(r, u) ==
  /\ req[r].at = "idle"
  /\ u \notin accounts
  /\ req' = [req EXCEPT ![r] = [Idle EXCEPT !.at = "insert", !.who = u]]
  /\ UNCHANGED <<store, history>>

\* Mutant: the insert is an upsert that sets the defaults on a document found.
RegisterInsertResets(r) ==
  /\ req[r].at = "insert"
  /\ users' = [users EXCEPT ![req[r].who] = BuildUserDefaults]
  /\ accounts' = accounts \cup {req[r].who}
  /\ Respond(r)
  /\ UNCHANGED <<offers, history>>

RegisterInsert(r) ==
  LET u == req[r].who
  IN  /\ req[r].at = "insert"
      /\ users' = IF u \in accounts THEN users
                                    ELSE [users EXCEPT ![u] = BuildUserDefaults]
      /\ accounts' = accounts \cup {u}
      /\ Respond(r)
      /\ UNCHANGED <<offers, history>>

(***************************************************************************)
(* getUserFromReq: the lookup of the account, then the leaderboard query   *)
(* that tells whether the player holds the record, then normalization.  A  *)
(* tie for the top goes to the account written last, which the model does  *)
(* not track: any of the best may be first.                                *)
(***************************************************************************)
GetUserFromReq(r, u) ==
  /\ req[r].at = "idle"
  /\ u \in accounts
  /\ req' = [req EXCEPT ![r] = [Idle EXCEPT !.at = "rank", !.who = u, !.snap = users[u]]]
  /\ UNCHANGED <<store, history>>

TopHighscores ==
  {u \in accounts : \A v \in accounts : users[v].bestScore <= users[u].bestScore}

IsRecordHolder(u) ==
  IF accounts = {} THEN {FALSE} ELSE {u = top : top \in TopHighscores}

Rank(r) ==
  /\ req[r].at = "rank"
  /\ \E holder \in IsRecordHolder(req[r].who) :
       req' = [req EXCEPT ![r].at = "ready",
                          ![r].recordHolder = holder,
                          ![r].snap = EnsureUserSchema(req[r].snap, holder)]
  /\ UNCHANGED <<store, history>>

\* Mutant: a wallet without bustercoins starts from zero.
RecordScoreSeedsZero(u, snap, score, earned, unlocked) ==
  LET found == IF u \in accounts THEN users[u] ELSE snap
      held == IF found.currencies = NoWallet THEN snap.currencies ELSE found.currencies
  IN  [found EXCEPT !.runs = @ + 1,
                    !.bestScore = IF score > @ THEN score ELSE @,
                    !.bustercoins = @ + earned,
                    !.currencies = [held EXCEPT ![Bustercoin] = OrElse(@, 0) + earned],
                    !.achievements = unlocked]

(***************************************************************************)
(* POST /api/score: the pipeline update of recordScore, applied by the     *)
(* database to the document it finds.  Only what the document lacks is     *)
(* seeded from the snapshot (everything, when there is no document), and   *)
(* the achievements are replaced by those evaluated from the snapshot.     *)
(***************************************************************************)
RecordScore(u, snap, score, earned, unlocked) ==
  LET found == IF u \in accounts THEN users[u] ELSE snap
      held == IF found.currencies = NoWallet THEN snap.currencies ELSE found.currencies
  IN  [found EXCEPT
         !.runs = @ + 1,
         !.bestScore = IF score > @ THEN score ELSE @,
         !.bustercoins = @ + earned,
         !.currencies = [held EXCEPT ![Bustercoin] = OrElse(@, snap.bustercoins) + earned],
         !.achievements = unlocked]

\* Mutant: the run's achievements replace those won before.
SubmitScoreForgets(r, score, earned, won) ==
  LET u == req[r].who
  IN  /\ req[r].at = "ready"
      /\ tally[u].runs < MaxRuns
      /\ users' = [users EXCEPT ![u] = RecordScore(u, req[r].snap, score, earned, won)]
      /\ accounts' = accounts \cup {u}
      /\ granted' = [granted EXCEPT ![u][Bustercoin] = @ + earned]
      /\ tally' = [tally EXCEPT ![u].runs = @ + 1,
                                ![u].best = IF score > @ THEN score ELSE @]
      /\ Respond(r)
      /\ UNCHANGED <<offers, bought, recorded, credited>>

SubmitScore(r, score, earned, won) ==
  LET u == req[r].who
      snap == req[r].snap
  IN  /\ req[r].at = "ready"
      /\ tally[u].runs < MaxRuns
      /\ users' = [users EXCEPT ![u] =
                     RecordScore(u, snap, score, earned, snap.achievements \cup won)]
      /\ accounts' = accounts \cup {u}
      /\ granted' = [granted EXCEPT ![u][Bustercoin] = @ + earned]
      /\ tally' = [tally EXCEPT ![u].runs = @ + 1,
                                ![u].best = IF score > @ THEN score ELSE @]
      /\ Respond(r)
      /\ UNCHANGED <<offers, bought, recorded, credited>>

(***************************************************************************)
(* POST /api/cosmetics/{trail,icon,pipe_texture}: checked on the snapshot, *)
(* written as one field.                                                   *)
(***************************************************************************)
SelectCosmetic(r, i) ==
  LET u == req[r].who
  IN  /\ req[r].at = "ready"
      /\ IsUnlockSatisfied(i, req[r].snap, req[r].recordHolder)
      /\ users' = IF u \in accounts
                  THEN [users EXCEPT ![u].selected[Catalog[i].type] = i]
                  ELSE users
      /\ Respond(r)
      /\ UNCHANGED <<accounts, offers, history>>

\* Mutant: the item is added to those owned by now, the wallet stays the
\* snapshot's.
PurchaseAddsToSet(user, snap, i) ==
  LET wallet == DebitCurrency(snap.currencies, Catalog[i].currency, Catalog[i].cost)
  IN  [user EXCEPT !.ownedUnlockables = @ \cup {i},
                   !.currencies = wallet,
                   !.bustercoins = GetCurrencyBalance(wallet, Bustercoin)]

\* Mutant: the items owned before are dropped.
PurchaseReplaces(user, snap, i) ==
  LET wallet == DebitCurrency(snap.currencies, Catalog[i].currency, Catalog[i].cost)
  IN  [user EXCEPT !.ownedUnlockables = {i},
                   !.currencies = wallet,
                   !.bustercoins = GetCurrencyBalance(wallet, Bustercoin)]

(***************************************************************************)
(* POST /api/shop/purchase: ownership, wallet and legacy balance are all   *)
(* written back from the snapshot.                                         *)
(***************************************************************************)
PurchaseUnlockable(user, snap, i) ==
  LET wallet == DebitCurrency(snap.currencies, Catalog[i].currency, Catalog[i].cost)
  IN  [user EXCEPT
         !.ownedUnlockables = snap.ownedUnlockables \cup {i},
         !.currencies = wallet,
         !.bustercoins = GetCurrencyBalance(wallet, Bustercoin)]

Purchase(r, i) ==
  LET u == req[r].who
      snap == req[r].snap
  IN  /\ req[r].at = "ready"
      /\ Catalog[i].unlock = "purchase"
      /\ ~IsUnlockSatisfied(i, snap, req[r].recordHolder)
      /\ CanDebit(snap.currencies, Catalog[i].currency, Catalog[i].cost)
      /\ IF u \in accounts
         THEN /\ users' = [users EXCEPT ![u] = PurchaseUnlockable(@, snap, i)]
              /\ bought' = [bought EXCEPT ![u] = @ \cup {i}]
         ELSE UNCHANGED <<users, bought>>
      /\ Respond(r)
      /\ UNCHANGED <<accounts, offers, granted, tally, recorded, credited>>

(***************************************************************************)
(* The request ends and has written nothing: a handler that only reads, a  *)
(* body that is refused, a database that fails before the first write.     *)
(***************************************************************************)
EndWithoutWrite(r) ==
  /\ req[r].at \in {"insert", "rank", "ready", "offer"}
  /\ Respond(r)
  /\ UNCHANGED <<store, history>>
-----------------------------------------------------------------------------
(***************************************************************************)
(* /api/support/offer-complete, the callback of an ad provider, which may  *)
(* be repeated or sent twice at once.  After the lookup of the account,    *)
(* recordSupportOffer inserts the transaction (the unique index refuses a  *)
(* second one: "duplicate") and pays it into the wallet.                   *)
(***************************************************************************)
OfferFind(r, u, t) ==
  /\ req[r].at = "idle"
  /\ u \in accounts
  /\ req' = [req EXCEPT ![r] = [Idle EXCEPT !.at = "offer", !.who = u, !.txn = t]]
  /\ UNCHANGED <<store, history>>

\* Mutant: no unique index on transactionId.
OfferInsertAgain(r) ==
  LET t == req[r].txn
  IN  /\ req[r].at = "offer"
      /\ recorded[t] < MaxRecords
      /\ Proceed(r, "credit")
      /\ recorded' = [recorded EXCEPT ![t] = @ + 1]
      /\ offers' = offers \cup {t}
      /\ UNCHANGED <<accounts, users, granted, bought, tally, credited>>

OfferInsert(r) ==
  LET t == req[r].txn
  IN  /\ req[r].at = "offer"
      /\ IF t \in offers
         THEN /\ Respond(r)
              /\ UNCHANGED recorded
         ELSE /\ recorded[t] < MaxRecords
              /\ Proceed(r, "credit")
              /\ recorded' = [recorded EXCEPT ![t] = @ + 1]
      /\ offers' = offers \cup {t}
      /\ UNCHANGED <<accounts, users, granted, bought, tally, credited>>

Credited(user, amount) ==
  [user EXCEPT !.currencies[Supportcoin] = OrElse(@, 0) + amount]

(***************************************************************************)
(* The payment.  The answer is the account's document, which has no        *)
(* `value`: an offer just paid goes on as one whose account is not found.  *)
(* Where the account is gone the answer is null, reading its `value`       *)
(* throws, and the record stays.                                           *)
(***************************************************************************)
OfferCredit(r) ==
  LET u == req[r].who
      t == req[r].txn
  IN  /\ req[r].at = "credit"
      /\ IF u \in accounts
         THEN /\ users' = [users EXCEPT ![u] = Credited(@, Reward[t])]
              /\ granted' = [granted EXCEPT ![u][Supportcoin] = @ + Reward[t]]
              /\ credited' = [credited EXCEPT ![t] = @ + 1]
              /\ Proceed(r, "undo")
         ELSE /\ Respond(r)
              /\ UNCHANGED <<users, granted, credited>>
      /\ UNCHANGED <<accounts, offers, bought, tally, recorded>>

\* The record is taken back and the callback answered "user_not_found".
OfferUndo(r) ==
  /\ req[r].at = "undo"
  /\ offers' = offers \ {req[r].txn}
  /\ Respond(r)
  /\ UNCHANGED <<accounts, users, history>>

(***************************************************************************)
(* The database fails, or the process dies, after the transaction went on  *)
(* record and before it is settled; the handler answers 500 or nothing.    *)
(***************************************************************************)
OfferFails(r) ==
  /\ StoreMayFail
  /\ req[r].at \in {"credit", "undo"}
  /\ Respond(r)
  /\ UNCHANGED <<store, history>>

(***************************************************************************)
(* PUT /api/admin/collections/users/:id replaces a document by any other:  *)
(* seen from its old key, the account is gone.                             *)
(***************************************************************************)
RemoveAccount(u) ==
  /\ u \in accounts \cap Removable
  /\ accounts' = accounts \ {u}
  /\ users' = [users EXCEPT ![u] = BuildUserDefaults]
  /\ UNCHANGED <<offers, req, history>>

Next ==
  \/ \E r \in Reqs, u \in Users : RegisterFind(r, u) \/ GetUserFromReq(r, u)
  \/ \E r \in Reqs : RegisterInsert(r) \/ Rank(r) \/ EndWithoutWrite(r)
  \/ \E r \in Reqs, score \in Scores, earned \in Earnings, won \in SUBSET Feats :
       SubmitScore(r, score, earned, won)
  \/ \E r \in Reqs, i \in Items : SelectCosmetic(r, i) \/ Purchase(r, i)
  \/ \E r \in Reqs, u \in Users, t \in Txns : OfferFind(r, u, t)
  \/ \E r \in Reqs : OfferInsert(r) \/ OfferCredit(r) \/ OfferUndo(r) \/ OfferFails(r)
  \/ \E u \in Users : RemoveAccount(u)

Spec == Init /\ [][Next]_vars
-----------------------------------------------------------------------------
(***************************************************************************)
(* Safety.                                                                 *)
(***************************************************************************)

\* A document's two bustercoin balances, the legacy field and the wallet's,
\* never drift apart, however purchases computed from stale snapshots and
\* score updates applied by the database interleave (recordScore increments
\* each of them on its own, purchaseUnlockable sets both).
CoinsInSync == \A u \in accounts : InSync(users[u])

\* Nothing is free: in each currency, the balance plus the price of what the
\* account owns never exceeds what it was given.  Two purchases from the same
\* snapshot may lose a purchase, but never pay for one with the other's coins.
NothingIsFree ==
  \A u \in accounts, c \in Currencies :
    Balance(users[u], c) + Worth[c][users[u].ownedUnlockables] <= granted[u][c]

\* A support offer is paid at most once, whatever callbacks are repeated.  The
\* record of an offer is removed after it was paid (OfferCredit), so this does
\* not hold.
CreditedOnce == \A t \in Txns : credited[t] <= 1

\* Each time an offer is put on record it is paid once, and only the record
\* that still stands may be unpaid: whatever callbacks are repeated, run at
\* once or die half way, and whatever account is removed meanwhile, an offer
\* is paid no more often than the unique index let it on record, and is put
\* on record again only after it was paid (recordSupportOffer).
OffersAreAccountedFor ==
  \A t \in Txns :
    \/ credited[t] = recorded[t]
    \/ t \in offers /\ credited[t] + 1 = recorded[t]

\* A cosmetic that has to be bought is never selected by an account it was
\* not sold to, even when the purchase was since overwritten.
SelectedWasSold ==
  \A u \in accounts, t \in Types :
    users[u].selected[t] \in Purchasable => users[u].selected[t] \in bought[u]

\* What is for sale is paid for: in coins the account was given, and before it
\* is ever selected.
SoldIsPaid == NothingIsFree /\ SelectedWasSold

\* No recorded run is lost: the counters of an account that is never removed
\* are those of all the runs the server recorded (recordScore is atomic, and
\* a registration racing with it does not reset the document).
RunsAreCounted ==
  \A u \in accounts \ Removable :
    /\ users[u].runs = tally[u].runs
    /\ users[u].bestScore = tally[u].best

\* Served one request at a time, an account forgets nothing.
NothingForgotten ==
  [][\A u \in accounts \ Removable :
       /\ u \in accounts'
       /\ users[u].ownedUnlockables \subseteq users'[u].ownedUnlockables
       /\ users[u].achievements \subseteq users'[u].achievements]_vars

\* The accounts that no operator removes.
Kept == Users \ Removable

Ledger == INSTANCE Ledger WITH
  Users <- Kept,
  open <- accounts \cap Kept,
  balance <- [u \in Kept |-> [c \in Currencies |-> Balance(users[u], c)]],
  owned <- [u \in Kept |-> users[u].ownedUnlockables]

\* Served one request at a time, the accounts nobody removes are an exact ledger.
ExactLedger == Ledger!Spec

\* The coins an account was given are in its wallet or were spent on what it
\* owns.  This does not hold when a purchase overlaps with another request of
\* its account.
CoinsAreConserved ==
  \A u \in accounts \ Removable, c \in Currencies :
    Balance(users[u], c) + Worth[c][users[u].ownedUnlockables] = granted[u][c]
=============================================================================
