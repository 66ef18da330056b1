--------------------------- MODULE AccountsProofs ---------------------------
(***************************************************************************)
(* Theorems about the player accounts, for every set of users, requests,   *)
(* items, prices, scores and transactions.                                 *)
(***************************************************************************)
EXTENDS Accounts, TLAPS

-----------------------------------------------------------------------------
(***************************************************************************)
(* Wallets.                                                                *)
(***************************************************************************)

\* Normalizing gives a wallet that is not empty (normalizeCurrencyWallet).
LEMMA NormalizeType ==
  ASSUME NEW w \in Wallets, NEW f \in Wallets
  PROVE  /\ NormalizeCurrencyWallet(w, f) \in Wallets
         /\ NormalizeCurrencyWallet(w, f) # NoWallet
<1>1. BustercoinsOnly(0) \in Wallets /\ BustercoinsOnly(0) # NoWallet
  BY DEF BustercoinsOnly, Wallets, NoWallet, Currencies, Bustercoin, Supportcoin, Absent
<1>2. [c \in Currencies |-> OrElse(w[c], f[c])] \in Wallets
  BY DEF Wallets, OrElse, Absent
<1> QED
  BY <1>1, <1>2 DEF NormalizeCurrencyWallet

\* A wallet that has a field is its own normal form.
LEMMA NormalizeSelf ==
  ASSUME NEW w \in Wallets, w # NoWallet
  PROVE  NormalizeCurrencyWallet(w, NoWallet) = w
<1>1. [c \in Currencies |-> OrElse(w[c], NoWallet[c])] = w
  BY DEF Wallets, OrElse, NoWallet
<1> QED
  BY <1>1 DEF NormalizeCurrencyWallet

\* A balance is a natural number; it is zero for a field that is missing
\* (getCurrencyBalance).
LEMMA BalanceOfWallet ==
  ASSUME NEW w \in Wallets, NEW c \in Currencies
  PROVE  /\ GetCurrencyBalance(w, c) \in Nat
         /\ w # NoWallet => GetCurrencyBalance(w, c) = OrElse(w[c], 0)
         /\ w = NoWallet => GetCurrencyBalance(w, c) = 0
<1>1. NoWallet \in Wallets
  BY DEF NoWallet, Wallets, Absent
<1>2. NormalizeCurrencyWallet(w, NoWallet) \in Wallets
  BY <1>1, NormalizeType
<1>3. GetCurrencyBalance(w, c) \in Nat
  BY <1>2 DEF GetCurrencyBalance, OrElse, Wallets, Absent
<1>4. ASSUME w # NoWallet PROVE GetCurrencyBalance(w, c) = OrElse(w[c], 0)
  BY <1>4, NormalizeSelf DEF GetCurrencyBalance
<1>5. ASSUME w = NoWallet PROVE GetCurrencyBalance(w, c) = 0
  <2>1. [x \in Currencies |-> OrElse(w[x], NoWallet[x])] = NoWallet
    BY <1>5 DEF NoWallet, OrElse
  <2>2. NormalizeCurrencyWallet(w, NoWallet) = BustercoinsOnly(0)
    BY <2>1 DEF NormalizeCurrencyWallet
  <2> QED
    BY <2>2 DEF GetCurrencyBalance, BustercoinsOnly, NoWallet, OrElse, Currencies, Absent
<1> QED
  BY <1>3, <1>4, <1>5

\* What normalizing makes of the wallet of a document: the bustercoins come
\* from the legacy field when the wallet has none (ensureUserSchema).
LEMMA PurseOf ==
  ASSUME NEW d \in Documents
  PROVE  /\ Purse(d) \in Wallets
         /\ Purse(d) # NoWallet
         /\ Purse(d)[Bustercoin] = OrElse(d.currencies[Bustercoin], d.bustercoins)
         /\ Purse(d)[Supportcoin] = d.currencies[Supportcoin]
<1>1. d.currencies \in Wallets /\ d.bustercoins \in Nat
  BY DEF Documents
<1>2. BustercoinsOnly(d.bustercoins) \in Wallets
  BY <1>1 DEF BustercoinsOnly, NoWallet, Wallets, Absent
<1>3. Purse(d) \in Wallets /\ Purse(d) # NoWallet
  BY <1>1, <1>2, NormalizeType DEF Purse
<1> DEFINE merged == [c \in Currencies |-> OrElse(d.currencies[c], BustercoinsOnly(d.bustercoins)[c])]
<1>4. /\ merged[Bustercoin] = OrElse(d.currencies[Bustercoin], d.bustercoins)
      /\ merged[Supportcoin] = d.currencies[Supportcoin]
  BY <1>1 DEF BustercoinsOnly, NoWallet, OrElse, Currencies, Bustercoin, Supportcoin
<1>5. merged[Bustercoin] # Absent
  BY <1>1, <1>4 DEF OrElse, Absent
<1>6. merged # NoWallet
  BY <1>5 DEF NoWallet, Currencies
<1>7. Purse(d) = merged
  BY <1>6 DEF Purse, NormalizeCurrencyWallet
<1> QED
  BY <1>3, <1>4, <1>7

\* The balances of a document.
LEMMA BalanceOf ==
  ASSUME NEW d \in Documents
  PROVE  /\ \A c \in Currencies : Balance(d, c) \in Nat
         /\ Balance(d, Bustercoin) = OrElse(d.currencies[Bustercoin], d.bustercoins)
         /\ Balance(d, Supportcoin) = OrElse(d.currencies[Supportcoin], 0)
<1>1. \A c \in Currencies : /\ Balance(d, c) \in Nat
                            /\ Balance(d, c) = OrElse(Purse(d)[c], 0)
  BY PurseOf, BalanceOfWallet DEF Balance
<1>2. d.bustercoins \in Nat /\ d.currencies \in Wallets
  BY DEF Documents
<1>3. OrElse(OrElse(d.currencies[Bustercoin], d.bustercoins), 0)
        = OrElse(d.currencies[Bustercoin], d.bustercoins)
  BY <1>2 DEF OrElse, Absent
<1> QED
  BY <1>1, <1>3, PurseOf DEF Currencies
-----------------------------------------------------------------------------
(***************************************************************************)
(* Documents: each operation makes a document of a document.               *)
(***************************************************************************)

LEMMA DefaultsType ==
  /\ BuildUserDefaults \in Documents
  /\ BuildUserDefaults.currencies[Bustercoin] = 0
  /\ \A c \in Currencies : Balance(BuildUserDefaults, c) = 0
<1>1. BustercoinsOnly(0) \in Wallets
  BY DEF BustercoinsOnly, NoWallet, Wallets, Absent
<1>2. Fallback \in [Types -> Items]
  BY CatalogAssumption
<1>3. BuildUserDefaults \in Documents
  BY <1>1, <1>2 DEF BuildUserDefaults, Documents
<1>4. /\ BustercoinsOnly(0)[Bustercoin] = 0
      /\ BustercoinsOnly(0)[Supportcoin] = Absent
  BY DEF BustercoinsOnly, NoWallet, Currencies, Bustercoin, Supportcoin
<1> QED
  BY <1>3, <1>4, BalanceOf DEF BuildUserDefaults, OrElse, Currencies

\* A document read from the database is normalized once: its balances, its
\* purchases and its counters stay, its wallet has bustercoins, and what it
\* selects it may select (ensureUserSchema).
LEMMA EnsureUserSchemaOf ==
  ASSUME NEW d \in Documents, NEW holder \in BOOLEAN
  PROVE  LET e == EnsureUserSchema(d, holder)
         IN  /\ e \in Documents
             /\ e.currencies = Purse(d)
             /\ e.bustercoins = Balance(d, Bustercoin)
             /\ e.ownedUnlockables = d.ownedUnlockables
             /\ e.runs = d.runs
             /\ e.bestScore = d.bestScore
             /\ d.achievements \subseteq e.achievements
             /\ \A t \in Types : e.selected[t] \in Purchasable
                                   => e.selected[t] \in d.ownedUnlockables
<1> DEFINE ach == SyncTrailAchievements(d, holder)
           filled == [d EXCEPT !.currencies = Purse(d),
                               !.bustercoins = Balance(d, Bustercoin),
                               !.achievements = ach]
           sel == [t \in Types |-> IF IsUnlockSatisfied(filled.selected[t], filled, holder)
                                   THEN filled.selected[t] ELSE Fallback[t]]
<1>1. ach \in SUBSET Feats /\ d.achievements \subseteq ach
  BY DEF SyncTrailAchievements, Documents
<1>2. Purse(d) \in Wallets /\ Balance(d, Bustercoin) \in Nat
  BY PurseOf, BalanceOf DEF Currencies
<1>3. filled \in Documents
  BY <1>1, <1>2 DEF Documents
<1>4. /\ filled.ownedUnlockables = d.ownedUnlockables
      /\ filled.selected = d.selected
      /\ filled.currencies = Purse(d)
      /\ filled.bustercoins = Balance(d, Bustercoin)
      /\ filled.achievements = ach
      /\ filled.runs = d.runs
      /\ filled.bestScore = d.bestScore
  BY DEF Documents
<1>5. sel \in [Types -> Items]
  BY <1>4, CatalogAssumption DEF Documents
<1>6. ASSUME NEW t \in Types, sel[t] \in Purchasable
      PROVE  sel[t] \in d.ownedUnlockables
  <2>1. Catalog[sel[t]].unlock = "purchase"
    BY <1>6 DEF Purchasable
  <2>2. sel[t] # Fallback[t]
    BY <2>1, CatalogAssumption
  <2>3. IsUnlockSatisfied(sel[t], filled, holder)
    BY <2>2
  <2> QED
    BY <2>1, <2>3, <1>4 DEF IsUnlockSatisfied
<1>7. EnsureUserSchema(d, holder) = [filled EXCEPT !.selected = sel]
  BY DEF EnsureUserSchema
<1> HIDE DEF ach, filled, sel
<1>8. [filled EXCEPT !.selected = sel] \in Documents
  BY <1>3, <1>5 DEF Documents
<1> QED
  BY <1>1, <1>3, <1>4, <1>6, <1>7, <1>8 DEF Documents

\* A debit that the wallet covers is a subtraction in one currency
\* (debitCurrency).
LEMMA DebitOf ==
  ASSUME NEW w \in Wallets, NEW c \in Currencies, NEW cost \in Nat,
         CanDebit(w, c, cost)
  PROVE  LET v == DebitCurrency(w, c, cost)
         IN  /\ v \in Wallets
             /\ v # NoWallet
             /\ w # NoWallet => \A x \in Currencies :
                  OrElse(v[x], 0) = OrElse(w[x], 0) - (IF x = c THEN cost ELSE 0)
             /\ w[Bustercoin] # Absent => v[Bustercoin] # Absent
<1> DEFINE n == NormalizeCurrencyWallet(w, NoWallet)
           b == GetCurrencyBalance(w, c)
           v == DebitCurrency(w, c, cost)
<1>1. NoWallet \in Wallets
  BY DEF NoWallet, Wallets, Absent
<1>2. n \in Wallets /\ n # NoWallet
  BY <1>1, NormalizeType
<1>3. b \in Nat /\ b >= cost /\ b - cost \in Nat
  BY BalanceOfWallet DEF CanDebit
<1>4. v = [n EXCEPT ![c] = b - cost]
  BY DEF DebitCurrency
<1>5. v \in Wallets /\ v[c] = b - cost /\ \A x \in Currencies \ {c} : v[x] = n[x]
  BY <1>2, <1>3, <1>4 DEF Wallets
<1>6. v # NoWallet
  BY <1>3, <1>5 DEF NoWallet, Absent
<1>7. ASSUME w # NoWallet
      PROVE  \A x \in Currencies :
               OrElse(v[x], 0) = OrElse(w[x], 0) - (IF x = c THEN cost ELSE 0)
  <2>1. n = w /\ b = OrElse(w[c], 0)
    BY <1>7, NormalizeSelf, BalanceOfWallet
  <2>2. OrElse(v[c], 0) = OrElse(w[c], 0) - cost
    BY <2>1, <1>3, <1>5 DEF OrElse, Absent
  <2>3. \A x \in Currencies \ {c} : OrElse(v[x], 0) = OrElse(w[x], 0) - 0
    BY <2>1, <1>5 DEF OrElse, Absent, Wallets
  <2> QED
    BY <2>2, <2>3
<1>8. ASSUME w[Bustercoin] # Absent PROVE v[Bustercoin] # Absent
  <2>1. w # NoWallet
    BY <1>8 DEF NoWallet, Currencies
  <2>2. n = w
    BY <2>1, NormalizeSelf
  <2> QED
    BY <2>2, <1>3, <1>5, <1>8 DEF Absent, Currencies
<1> QED
  BY <1>5, <1>6, <1>7, <1>8

\* What a recorded run makes of a document (recordScore).
LEMMA RecordScoreOf ==
  ASSUME users \in [Users -> Documents], NEW u \in Users, NEW snap \in Documents,
         NEW score \in Nat, NEW earned \in Nat, NEW unlocked \in SUBSET Feats
  PROVE  LET found == IF u \in accounts THEN users[u] ELSE snap
             held == IF found.currencies = NoWallet THEN snap.currencies ELSE found.currencies
             e == RecordScore(u, snap, score, earned, unlocked)
         IN  /\ e \in Documents
             /\ e.runs = found.runs + 1
             /\ e.bestScore = IF score > found.bestScore THEN score ELSE found.bestScore
             /\ e.bustercoins = found.bustercoins + earned
             /\ e.currencies[Bustercoin] = OrElse(held[Bustercoin], snap.bustercoins) + earned
             /\ e.currencies[Bustercoin] \in Nat
             /\ e.currencies[Supportcoin] = held[Supportcoin]
             /\ e.ownedUnlockables = found.ownedUnlockables
             /\ e.selected = found.selected
             /\ e.achievements = unlocked
<1> DEFINE found == IF u \in accounts THEN users[u] ELSE snap
           held == IF found.currencies = NoWallet THEN snap.currencies ELSE found.currencies
           coins == OrElse(held[Bustercoin], snap.bustercoins) + earned
           wallet == [held EXCEPT ![Bustercoin] = coins]
           best == IF score > found.bestScore THEN score ELSE found.bestScore
           e == [found EXCEPT !.runs = found.runs + 1, !.bestScore = best,
                              !.bustercoins = found.bustercoins + earned,
                              !.currencies = wallet, !.achievements = unlocked]
<1>1. found \in Documents
  OBVIOUS
<1>2. held \in Wallets
  BY <1>1 DEF Documents
<1>3. coins \in Nat
  BY <1>2 DEF Wallets, OrElse, Documents, Currencies, Absent
<1>4. /\ wallet \in Wallets
      /\ wallet[Bustercoin] = coins
      /\ wallet[Supportcoin] = held[Supportcoin]
  BY <1>2, <1>3 DEF Wallets, Currencies, Bustercoin, Supportcoin
<1>5. best \in Nat /\ found.runs + 1 \in Nat /\ found.bustercoins + earned \in Nat
  BY <1>1 DEF Documents
<1>6. RecordScore(u, snap, score, earned, unlocked) = e
  BY DEF RecordScore
<1> HIDE DEF found, coins, wallet, best
<1>7. e \in Documents
  BY <1>1, <1>4, <1>5 DEF Documents
<1>8. /\ e.runs = found.runs + 1
      /\ e.bestScore = best
      /\ e.bustercoins = found.bustercoins + earned
      /\ e.currencies = wallet
      /\ e.ownedUnlockables = found.ownedUnlockables
      /\ e.selected = found.selected
      /\ e.achievements = unlocked
  BY <1>1 DEF Documents
<1> QED
  BY <1>3, <1>4, <1>6, <1>7, <1>8 DEF found, held, coins, best

\* A score leaves what the account owns and has selected alone.
LEMMA RecordScoreKeeps ==
  ASSUME users \in [Users -> Documents], NEW u \in Users, NEW snap \in Documents,
         NEW score \in Nat, NEW earned \in Nat, NEW unlocked \in SUBSET Feats
  PROVE  LET found == IF u \in accounts THEN users[u] ELSE snap
             e == RecordScore(u, snap, score, earned, unlocked)
         IN  e.ownedUnlockables = found.ownedUnlockables /\ e.selected = found.selected
BY RecordScoreOf

\* What a purchase that the snapshot covers makes of a document
\* (purchaseUnlockable): its coins and inventory are the snapshot's.
LEMMA PurchaseUnlockableOf ==
  ASSUME NEW d \in Documents, NEW snap \in Documents, NEW i \in Items,
         CanDebit(snap.currencies, Catalog[i].currency, Catalog[i].cost)
  PROVE  LET e == PurchaseUnlockable(d, snap, i)
             wallet == DebitCurrency(snap.currencies, Catalog[i].currency, Catalog[i].cost)
         IN  /\ e \in Documents
             /\ e.currencies = wallet
             /\ e.bustercoins = GetCurrencyBalance(wallet, Bustercoin)
             /\ e.ownedUnlockables = snap.ownedUnlockables \cup {i}
             /\ e.runs = d.runs
             /\ e.bestScore = d.bestScore
             /\ e.selected = d.selected
             /\ e.achievements = d.achievements
<1> DEFINE wallet == DebitCurrency(snap.currencies, Catalog[i].currency, Catalog[i].cost)
           coins == GetCurrencyBalance(wallet, Bustercoin)
           e == [d EXCEPT !.ownedUnlockables = snap.ownedUnlockables \cup {i},
                          !.currencies = wallet, !.bustercoins = coins]
<1>1. Catalog[i].currency \in Currencies /\ Catalog[i].cost \in Nat
  BY CatalogAssumption DEF Definitions
<1>2. snap.currencies \in Wallets
  BY DEF Documents
<1>3. wallet \in Wallets
  BY <1>1, <1>2, DebitOf
<1>4. coins \in Nat
  BY <1>3, BalanceOfWallet DEF Currencies
<1>5. PurchaseUnlockable(d, snap, i) = e
  BY DEF PurchaseUnlockable
<1> HIDE DEF wallet, coins
<1>6. e \in Documents
  BY <1>3, <1>4 DEF Documents
<1>7. /\ e.currencies = wallet
      /\ e.bustercoins = coins
      /\ e.ownedUnlockables = snap.ownedUnlockables \cup {i}
      /\ e.runs = d.runs
      /\ e.bestScore = d.bestScore
      /\ e.selected = d.selected
      /\ e.achievements = d.achievements
  BY DEF Documents
<1> QED
  BY <1>5, <1>6, <1>7 DEF wallet, coins

\* What a paid offer makes of a document (recordSupportOffer).
LEMMA CreditedOf ==
  ASSUME NEW d \in Documents, NEW amount \in Nat
  PROVE  LET e == Credited(d, amount)
         IN  /\ e \in Documents
             /\ e.currencies[Bustercoin] = d.currencies[Bustercoin]
             /\ e.currencies[Supportcoin] = OrElse(d.currencies[Supportcoin], 0) + amount
             /\ e.currencies # NoWallet
             /\ e.bustercoins = d.bustercoins
             /\ e.ownedUnlockables = d.ownedUnlockables
             /\ e.runs = d.runs
             /\ e.bestScore = d.bestScore
             /\ e.selected = d.selected
             /\ e.achievements = d.achievements
<1> DEFINE coins == OrElse(d.currencies[Supportcoin], 0) + amount
           wallet == [d.currencies EXCEPT ![Supportcoin] = coins]
           e == [d EXCEPT !.currencies = wallet]
<1>1. d.currencies \in Wallets
  BY DEF Documents
<1>2. coins \in Nat
  BY <1>1 DEF Wallets, OrElse, Currencies, Absent
<1>3. /\ wallet \in Wallets
      /\ wallet[Bustercoin] = d.currencies[Bustercoin]
      /\ wallet[Supportcoin] = coins
      /\ wallet # NoWallet
  BY <1>1, <1>2 DEF Wallets, Currencies, Bustercoin, Supportcoin, NoWallet, Absent
<1>4. Credited(d, amount) = e
  BY DEF Credited
<1> HIDE DEF coins, wallet
<1>5. e \in Documents
  BY <1>3 DEF Documents
<1>6. /\ e.currencies = wallet
      /\ e.bustercoins = d.bustercoins
      /\ e.ownedUnlockables = d.ownedUnlockables
      /\ e.runs = d.runs
      /\ e.bestScore = d.bestScore
      /\ e.selected = d.selected
      /\ e.achievements = d.achievements
  BY DEF Documents
<1> QED
  BY <1>3, <1>4, <1>5, <1>6 DEF coins
\* It is paid into one of the balances.
LEMMA CreditedBalance ==
  ASSUME NEW d \in Documents, NEW amount \in Nat
  PROVE  \A x \in Currencies :
           Balance(Credited(d, amount), x)
             = Balance(d, x) + (IF x = Supportcoin THEN amount ELSE 0)
<1>1. PICK e \in Documents : e = Credited(d, amount)
  BY CreditedOf
<1>2. /\ e.currencies[Bustercoin] = d.currencies[Bustercoin]
      /\ e.currencies[Supportcoin] = OrElse(d.currencies[Supportcoin], 0) + amount
      /\ e.bustercoins = d.bustercoins
  BY <1>1, CreditedOf
<1>3. Balance(e, Bustercoin) = Balance(d, Bustercoin) + 0
  BY <1>2, BalanceOf DEF Currencies
<1>4. Balance(e, Supportcoin) = Balance(d, Supportcoin) + amount
  <2>1. OrElse(d.currencies[Supportcoin], 0) \in Nat
    BY DEF Documents, Wallets, Currencies, OrElse, Absent
  <2> QED
    BY <1>2, <2>1, BalanceOf DEF OrElse, Absent
<1> QED
  BY <1>1, <1>3, <1>4 DEF Currencies, Bustercoin, Supportcoin
-----------------------------------------------------------------------------
(***************************************************************************)
(* Type correctness.  A request in flight names an account, and the one    *)
(* that handles an offer names a transaction.                              *)
(***************************************************************************)

Addressed ==
  \A r \in Reqs :
    /\ req[r].at # "idle" => req[r].who \in Users
    /\ req[r].at \in {"offer", "credit", "undo"} => req[r].txn \in Txns

WellFormed == TypeOK /\ Addressed

LEMMA IdleType == Idle \in Requests /\ Idle.at = "idle"
BY DefaultsType DEF Idle, Requests, Steps

LEMMA InitWellFormed == Init => WellFormed
<1> SUFFICES ASSUME Init PROVE WellFormed
  OBVIOUS
<1>1. \A u \in Users : users[u] \in Documents
  BY DefaultsType, OpeningAssumption DEF Init
<1>2. \A u \in Users : users[u].ownedUnlockables \in SUBSET Purchasable
  BY OpeningAssumption DEF Init, BuildUserDefaults
<1>3. users \in [Users -> Documents]
  BY <1>1 DEF Init
<1>4. req \in [Reqs -> Requests] /\ \A r \in Reqs : req[r].at = "idle"
  BY IdleType DEF Init
<1>5. \A u \in Users, c \in Currencies :
        Balance(users[u], c) + Worth[c][users[u].ownedUnlockables] \in Nat
  <2> TAKE u \in Users, c \in Currencies
  <2>1. Balance(users[u], c) \in Nat
    BY <1>1, BalanceOf
  <2>2. users[u].ownedUnlockables \in SUBSET Items
    BY <1>1 DEF Documents
  <2> QED
    BY <2>1, <2>2, WorthAssumption
<1>6. granted \in [Users -> [Currencies -> Nat]]
  BY <1>5 DEF Init
<1>7. bought \in [Users -> SUBSET Purchasable]
  BY <1>2 DEF Init
<1>8. tally \in [Users -> [runs : Nat, best : Nat]]
  BY <1>1 DEF Init, Documents
<1> QED
  BY <1>3, <1>4, <1>6, <1>7, <1>8 DEF WellFormed, TypeOK, Addressed, Init

\* The requests stay well formed when one of them ends, is set, proceeds.
LEMMA RespondWellFormed ==
  ASSUME WellFormed, NEW r \in Reqs, Respond(r)
  PROVE  req' \in [Reqs -> Requests] /\ Addressed'
BY IdleType DEF Respond, WellFormed, TypeOK, Addressed

LEMMA RequestWellFormed ==
  ASSUME WellFormed, NEW r \in Reqs, NEW q \in Requests, q.who \in Users,
         q.at \in {"offer", "credit", "undo"} => q.txn \in Txns,
         req' = [req EXCEPT ![r] = q]
  PROVE  req' \in [Reqs -> Requests] /\ Addressed'
BY DEF WellFormed, TypeOK, Addressed

LEMMA ProceedWellFormed ==
  ASSUME WellFormed, NEW r \in Reqs, NEW step \in Steps, Proceed(r, step),
         req[r].at \in {"offer", "credit", "undo"}
  PROVE  req' \in [Reqs -> Requests] /\ Addressed'
<1> DEFINE q == [req[r] EXCEPT !.at = step]
<1>1. req[r] \in Requests /\ req[r].who \in Users /\ req[r].txn \in Txns
  BY DEF WellFormed, TypeOK, Addressed
<1>2. q \in Requests /\ q.at = step /\ q.who = req[r].who /\ q.txn = req[r].txn
  BY <1>1 DEF Requests
<1>3. req' = [req EXCEPT ![r] = q]
  BY DEF Proceed
<1> HIDE DEF q
<1> QED
  BY <1>1, <1>2, <1>3, RequestWellFormed

\* Every step of every request keeps the types.
LEMMA NextWellFormed == WellFormed /\ [Next]_vars => WellFormed'
<1> SUFFICES ASSUME WellFormed, [Next]_vars
             PROVE  WellFormed'
  OBVIOUS
<1>0. TypeOK /\ Addressed
  BY DEF WellFormed
<1>1. ASSUME NEW r \in Reqs, NEW u \in Users, RegisterFind(r, u)
      PROVE  WellFormed'
  <2> DEFINE q == [Idle EXCEPT !.at = "insert", !.who = u]
  <2>1. q \in Requests /\ q.who = u /\ q.at = "insert"
    BY IdleType DEF Requests, Steps
  <2>2. req' \in [Reqs -> Requests] /\ Addressed'
    BY <1>1, <2>1, RequestWellFormed DEF RegisterFind
  <2> QED
    BY <1>0, <1>1, <2>2 DEF WellFormed, TypeOK, RegisterFind, store, history
<1>2. ASSUME NEW r \in Reqs, NEW u \in Users, GetUserFromReq(r, u)
      PROVE  WellFormed'
  <2> DEFINE q == [Idle EXCEPT !.at = "rank", !.who = u, !.snap = users[u]]
  <2>1. q \in Requests /\ q.who = u /\ q.at = "rank"
    BY <1>0, IdleType DEF Requests, Steps, TypeOK
  <2>2. req' \in [Reqs -> Requests] /\ Addressed'
    BY <1>2, <2>1, RequestWellFormed DEF GetUserFromReq
  <2> QED
    BY <1>0, <1>2, <2>2 DEF WellFormed, TypeOK, GetUserFromReq, store, history
<1>3. ASSUME NEW r \in Reqs, RegisterInsert(r)
      PROVE  WellFormed'
  <2>1. req' \in [Reqs -> Requests] /\ Addressed'
    BY <1>3, RespondWellFormed DEF RegisterInsert
  <2>2. req[r].who \in Users
    BY <1>0, <1>3 DEF Addressed, RegisterInsert
  <2>3. users' \in [Users -> Documents] /\ accounts' \subseteq Users
    BY <1>0, <1>3, <2>2, DefaultsType DEF RegisterInsert, TypeOK
  <2> QED
    BY <1>0, <1>3, <2>1, <2>3 DEF WellFormed, TypeOK, RegisterInsert, history
<1>4. ASSUME NEW r \in Reqs, Rank(r)
      PROVE  WellFormed'
  <2>1. PICK holder \in IsRecordHolder(req[r].who) :
          req' = [req EXCEPT ![r] =
                    [req[r] EXCEPT !.at = "ready", !.recordHolder = holder,
                                   !.snap = EnsureUserSchema(req[r].snap, holder)]]
    BY <1>4 DEF Rank
  <2>2. holder \in BOOLEAN
    BY DEF IsRecordHolder
  <2>3. req[r] \in Requests /\ req[r].who \in Users
    BY <1>0, <1>4 DEF Addressed, Rank, TypeOK
  <2> DEFINE e == EnsureUserSchema(req[r].snap, holder)
             q == [req[r] EXCEPT !.at = "ready", !.recordHolder = holder, !.snap = e]
  <2>4. e \in Documents
    BY <2>2, <2>3, EnsureUserSchemaOf DEF Requests
  <2> HIDE DEF e
  <2>5. q \in Requests /\ q.who = req[r].who /\ q.at = "ready"
    BY <2>2, <2>3, <2>4 DEF Requests, Steps
  <2>6. req' = [req EXCEPT ![r] = q]
    BY <2>1 DEF e
  <2> HIDE DEF q
  <2>7. req' \in [Reqs -> Requests] /\ Addressed'
    BY <2>3, <2>5, <2>6, RequestWellFormed
  <2> QED
    BY <1>0, <1>4, <2>7 DEF WellFormed, TypeOK, Rank, store, history
<1>5. ASSUME NEW r \in Reqs, EndWithoutWrite(r)
      PROVE  WellFormed'
  <2>1. req' \in [Reqs -> Requests] /\ Addressed'
    BY <1>5, RespondWellFormed DEF EndWithoutWrite
  <2> QED
    BY <1>0, <1>5, <2>1 DEF WellFormed, TypeOK, EndWithoutWrite, store, history
<1>6. ASSUME NEW r \in Reqs, NEW score \in Scores, NEW earned \in Earnings,
             NEW won \in SUBSET Feats, SubmitScore(r, score, earned, won)
      PROVE  WellFormed'
  <2> DEFINE u == req[r].who
             snap == req[r].snap
             e == RecordScore(u, snap, score, earned, snap.achievements \cup won)
  <2>1. req' \in [Reqs -> Requests] /\ Addressed'
    BY <1>6, RespondWellFormed DEF SubmitScore
  <2>2. u \in Users /\ snap \in Documents /\ score \in Nat /\ earned \in Nat
    BY <1>0, <1>6, AccountsAssumption DEF Addressed, SubmitScore, TypeOK, Requests
  <2>3. e \in Documents
    <3>1. snap.achievements \cup won \in SUBSET Feats
      BY <2>2 DEF Documents
    <3> QED
      BY <1>0, <2>2, <3>1, RecordScoreOf DEF TypeOK
  <2>4. users' = [users EXCEPT ![u] = e] /\ accounts' = accounts \cup {u}
    BY <1>6 DEF SubmitScore
  <2> HIDE DEF e
  <2>5. users' \in [Users -> Documents] /\ accounts' \subseteq Users
    BY <1>0, <2>2, <2>3, <2>4 DEF TypeOK
  <2>6. granted' \in [Users -> [Currencies -> Nat]]
    <3>1. granted' = [granted EXCEPT ![u] = [granted[u] EXCEPT ![Bustercoin] =
                        granted[u][Bustercoin] + earned]]
      BY <1>6 DEF SubmitScore
    <3>2. granted[u][Bustercoin] + earned \in Nat
      BY <1>0, <2>2 DEF TypeOK, Currencies
    <3> QED
      BY <1>0, <2>2, <3>1, <3>2 DEF TypeOK
  <2>7. tally' \in [Users -> [runs : Nat, best : Nat]]
    BY <1>0, <1>6, <2>2 DEF TypeOK, SubmitScore
  <2> QED
    BY <1>0, <1>6, <2>1, <2>5, <2>6, <2>7 DEF WellFormed, TypeOK, SubmitScore
<1>7. ASSUME NEW r \in Reqs, NEW i \in Items, SelectCosmetic(r, i)
      PROVE  WellFormed'
  <2>1. req' \in [Reqs -> Requests] /\ Addressed'
    BY <1>7, RespondWellFormed DEF SelectCosmetic
  <2> DEFINE u == req[r].who
             e == [users[u] EXCEPT !.selected = [users[u].selected EXCEPT ![Catalog[i].type] = i]]
  <2>2. u \in Users /\ users[u] \in Documents
    BY <1>0, <1>7 DEF Addressed, SelectCosmetic, TypeOK
  <2>3. e \in Documents
    BY <2>2 DEF Documents
  <2>4. users' = users \/ users' = [users EXCEPT ![u] = e]
    BY <1>7 DEF SelectCosmetic
  <2> HIDE DEF e
  <2>5. users' \in [Users -> Documents]
    BY <1>0, <2>2, <2>3, <2>4 DEF TypeOK
  <2> QED
    BY <1>0, <1>7, <2>1, <2>5 DEF WellFormed, TypeOK, SelectCosmetic, history
<1>8. ASSUME NEW r \in Reqs, NEW i \in Items, Purchase(r, i)
      PROVE  WellFormed'
  <2>1. req' \in [Reqs -> Requests] /\ Addressed'
    BY <1>8, RespondWellFormed DEF Purchase
  <2> DEFINE u == req[r].who
             snap == req[r].snap
             e == PurchaseUnlockable(users[u], snap, i)
  <2>2. u \in Users /\ users[u] \in Documents /\ snap \in Documents
    BY <1>0, <1>8 DEF Addressed, Purchase, TypeOK, Requests
  <2>3. e \in Documents
    BY <1>8, <2>2, PurchaseUnlockableOf DEF Purchase
  <2>4. /\ users' = users \/ users' = [users EXCEPT ![u] = e]
        /\ bought' = bought \/ bought' = [bought EXCEPT ![u] = bought[u] \cup {i}]
    BY <1>8 DEF Purchase
  <2>5. i \in Purchasable
    BY <1>8 DEF Purchase, Purchasable
  <2> HIDE DEF e
  <2>6. users' \in [Users -> Documents]
    BY <1>0, <2>2, <2>3, <2>4 DEF TypeOK
  <2>7. bought' \in [Users -> SUBSET Purchasable]
    <3>1. bought[u] \cup {i} \in SUBSET Purchasable
      BY <1>0, <2>2, <2>5 DEF TypeOK
    <3> QED
      BY <1>0, <2>4, <3>1 DEF TypeOK
  <2> QED
    BY <1>0, <1>8, <2>1, <2>6, <2>7 DEF WellFormed, TypeOK, Purchase
<1>9. ASSUME NEW r \in Reqs, NEW u \in Users, NEW t \in Txns, OfferFind(r, u, t)
      PROVE  WellFormed'
  <2> DEFINE q == [Idle EXCEPT !.at = "offer", !.who = u, !.txn = t]
  <2>1. q \in Requests /\ q.who = u /\ q.txn = t
    BY IdleType DEF Requests, Steps
  <2>2. req' \in [Reqs -> Requests] /\ Addressed'
    BY <1>9, <2>1, RequestWellFormed DEF OfferFind
  <2> QED
    BY <1>0, <1>9, <2>2 DEF WellFormed, TypeOK, OfferFind, store, history
<1>10. ASSUME NEW r \in Reqs, OfferInsert(r)
       PROVE  WellFormed'
  <2>1. PICK t \in Txns : t = req[r].txn
    BY <1>0, <1>10 DEF Addressed, OfferInsert
  <2>2. req' \in [Reqs -> Requests] /\ Addressed'
    BY <1>10, RespondWellFormed, ProceedWellFormed DEF OfferInsert, Steps
  <2>3. recorded' = recorded \/ recorded' = [recorded EXCEPT ![t] = recorded[t] + 1]
    BY <1>10, <2>1 DEF OfferInsert
  <2>4. recorded[t] + 1 \in Nat
    BY <1>0 DEF TypeOK
  <2>5. recorded' \in [Txns -> Nat]
    BY <1>0, <2>3, <2>4 DEF TypeOK
  <2> QED
    BY <1>0, <1>10, <2>1, <2>2, <2>5 DEF WellFormed, TypeOK, OfferInsert
<1>11. ASSUME NEW r \in Reqs, OfferCredit(r)
       PROVE  WellFormed'
  <2> DEFINE u == req[r].who
             t == req[r].txn
             e == Credited(users[u], Reward[t])
  <2>1. req' \in [Reqs -> Requests] /\ Addressed'
    BY <1>11, RespondWellFormed, ProceedWellFormed DEF OfferCredit, Steps
  <2>2. u \in Users /\ t \in Txns /\ users[u] \in Documents /\ Reward[t] \in Nat
    BY <1>0, <1>11, AccountsAssumption DEF Addressed, OfferCredit, TypeOK
  <2>3. e \in Documents
    BY <2>2, CreditedOf
  <2>4. \/ UNCHANGED <<users, granted, credited>>
        \/ /\ users' = [users EXCEPT ![u] = e]
           /\ granted' = [granted EXCEPT ![u] = [granted[u] EXCEPT ![Supportcoin] =
                            granted[u][Supportcoin] + Reward[t]]]
           /\ credited' = [credited EXCEPT ![t] = @ + 1]
    BY <1>11 DEF OfferCredit
  <2>5. granted[u][Supportcoin] + Reward[t] \in Nat
    BY <1>0, <2>2 DEF TypeOK, Currencies
  <2> HIDE DEF e
  <2>6. users' \in [Users -> Documents]
    BY <1>0, <2>3, <2>4 DEF TypeOK
  <2>7. granted' \in [Users -> [Currencies -> Nat]]
    <3> DEFINE g == [granted[u] EXCEPT ![Supportcoin] = granted[u][Supportcoin] + Reward[t]]
    <3>1. g \in [Currencies -> Nat]
      BY <1>0, <2>2, <2>5 DEF TypeOK
    <3>2. granted' = granted \/ granted' = [granted EXCEPT ![u] = g]
      BY <2>4
    <3> HIDE DEF g
    <3> QED
      BY <1>0, <3>1, <3>2 DEF TypeOK
  <2>8. credited' \in [Txns -> Nat]
    <3>1. credited' = credited \/ credited' = [credited EXCEPT ![t] = credited[t] + 1]
      BY <2>4
    <3>2. credited[t] + 1 \in Nat
      BY <1>0, <2>2 DEF TypeOK
    <3> QED
      BY <1>0, <3>1, <3>2 DEF TypeOK
  <2> QED
    BY <1>0, <1>11, <2>1, <2>6, <2>7, <2>8 DEF WellFormed, TypeOK, OfferCredit
<1>12. ASSUME NEW r \in Reqs, OfferUndo(r) \/ OfferFails(r)
       PROVE  WellFormed'
  <2>1. req' \in [Reqs -> Requests] /\ Addressed'
    BY <1>12, RespondWellFormed DEF OfferUndo, OfferFails
  <2> QED
    BY <1>0, <1>12, <2>1 DEF WellFormed, TypeOK, OfferUndo, OfferFails, store, history
<1>13. ASSUME NEW u \in Users, RemoveAccount(u)
       PROVE  WellFormed'
  BY <1>0, <1>13, DefaultsType DEF WellFormed, TypeOK, Addressed, RemoveAccount, history
<1>14. CASE UNCHANGED vars
  BY <1>0, <1>14 DEF WellFormed, TypeOK, Addressed, vars
<1> QED
  BY <1>1, <1>2, <1>3, <1>4, <1>5, <1>6, <1>7, <1>8, <1>9, <1>10, <1>11, <1>12, <1>13, <1>14
  DEF Next

\* Every reachable state is well formed ...
LEMMA AlwaysWellFormed == Spec => []WellFormed
BY InitWellFormed, NextWellFormed, PTL DEF Spec

\* ... so the documents, snapshots and ledgers of the server keep their types:
\* no balance is ever negative and nothing that is not for sale is ever sold,
\* for any catalog and any number of users and requests.
THEOREM TypeCorrect == Spec => []TypeOK
<1>1. WellFormed => TypeOK
  BY DEF WellFormed
<1> QED
  BY <1>1, AlwaysWellFormed, PTL
-----------------------------------------------------------------------------
(***************************************************************************)
(* Support offers.  That each record of an offer is paid once is not       *)
(* inductive: it also takes that only one handler settles a transaction,   *)
(* that it does so while the transaction is on record, and that what is    *)
(* not on record was paid as often as it was recorded.                     *)
(***************************************************************************)

\* A handler that is about to pay an offer, and one that is about to take its
\* record back.
Paying(r, t) == req[r].at = "credit" /\ req[r].txn = t

TakingBack(r, t) == req[r].at = "undo" /\ req[r].txn = t

Settling(r, t) == Paying(r, t) \/ TakingBack(r, t)

SettledByOne ==
  \A r1, r2 \in Reqs, t \in Txns : Settling(r1, t) /\ Settling(r2, t) => r1 = r2

SettledInTurn ==
  \A r \in Reqs, t \in Txns :
    /\ Paying(r, t) => t \in offers /\ credited[t] + 1 = recorded[t]
    /\ TakingBack(r, t) => t \in offers /\ credited[t] = recorded[t]

TakenBackIsPaid == \A t \in Txns : t \notin offers => credited[t] = recorded[t]

OffersInv ==
  OffersAreAccountedFor /\ SettledByOne /\ SettledInTurn /\ TakenBackIsPaid

OfferStep(r) == OfferInsert(r) \/ OfferCredit(r) \/ OfferUndo(r) \/ OfferFails(r)

SameSettlers ==
  \A r \in Reqs, t \in Txns : /\ Paying(r, t)' <=> Paying(r, t)
                              /\ TakingBack(r, t)' <=> TakingBack(r, t)

\* Nothing else touches the offers or the handlers that settle them.
LEMMA OfferSteps ==
  ASSUME WellFormed, [Next]_vars
  PROVE  \/ \E r \in Reqs : OfferStep(r)
         \/ /\ UNCHANGED <<offers, recorded, credited>>
            /\ SameSettlers
<1>0. req \in [Reqs -> Requests]
  BY DEF WellFormed, TypeOK
<1> DEFINE Other == /\ UNCHANGED <<offers, recorded, credited>>
                    /\ SameSettlers
<1>1. ASSUME NEW r \in Reqs, NEW q, req' = [req EXCEPT ![r] = q],
             req[r].at \notin {"credit", "undo"}, q.at \notin {"credit", "undo"},
             UNCHANGED <<offers, recorded, credited>>
      PROVE  Other
  BY <1>0, <1>1 DEF SameSettlers, Paying, TakingBack
<1>2. ASSUME NEW r \in Reqs, Respond(r), req[r].at \notin {"credit", "undo"},
             UNCHANGED <<offers, recorded, credited>>
      PROVE  Other
  BY <1>1, <1>2, IdleType DEF Respond
<1> HIDE DEF Other
<1>3. ASSUME NEW r \in Reqs, NEW u \in Users, RegisterFind(r, u) PROVE Other
  <2> DEFINE q == [Idle EXCEPT !.at = "insert", !.who = u]
  <2>1. q.at = "insert"
    BY DEF Idle
  <2> QED
    BY <1>1, <1>3, <2>1 DEF RegisterFind, store, history
<1>4. ASSUME NEW r \in Reqs, NEW u \in Users, GetUserFromReq(r, u) PROVE Other
  <2> DEFINE q == [Idle EXCEPT !.at = "rank", !.who = u, !.snap = users[u]]
  <2>1. q.at = "rank"
    BY DEF Idle
  <2> QED
    BY <1>1, <1>4, <2>1 DEF GetUserFromReq, store, history
<1>5. ASSUME NEW r \in Reqs, Rank(r) PROVE Other
  <2>1. PICK holder \in IsRecordHolder(req[r].who) :
          req' = [req EXCEPT ![r] =
                    [req[r] EXCEPT !.at = "ready", !.recordHolder = holder,
                                   !.snap = EnsureUserSchema(req[r].snap, holder)]]
    BY <1>5 DEF Rank
  <2> DEFINE q == [req[r] EXCEPT !.at = "ready", !.recordHolder = holder,
                                 !.snap = EnsureUserSchema(req[r].snap, holder)]
  <2>2. q.at = "ready"
    BY <1>0 DEF Requests
  <2> QED
    BY <1>1, <1>5, <2>1, <2>2 DEF Rank, store, history
<1>6. ASSUME NEW r \in Reqs, RegisterInsert(r) \/ EndWithoutWrite(r) PROVE Other
  BY <1>2, <1>6 DEF RegisterInsert, EndWithoutWrite, store, history
<1>7. ASSUME NEW r \in Reqs, NEW score \in Scores, NEW earned \in Earnings,
             NEW won \in SUBSET Feats, SubmitScore(r, score, earned, won)
      PROVE  Other
  BY <1>2, <1>7 DEF SubmitScore
<1>8. ASSUME NEW r \in Reqs, NEW i \in Items, SelectCosmetic(r, i) \/ Purchase(r, i)
      PROVE  Other
  BY <1>2, <1>8 DEF SelectCosmetic, Purchase, history
<1>9. ASSUME NEW r \in Reqs, NEW u \in Users, NEW t \in Txns, OfferFind(r, u, t)
      PROVE  Other
  <2> DEFINE q == [Idle EXCEPT !.at = "offer", !.who = u, !.txn = t]
  <2>1. q.at = "offer"
    BY DEF Idle
  <2> QED
    BY <1>1, <1>9, <2>1 DEF OfferFind, store, history
<1>10. ASSUME UNCHANGED <<offers, recorded, credited, req>> PROVE Other
  BY <1>10 DEF Other, SameSettlers, Paying, TakingBack
<1>11. ASSUME NEW u \in Users, RemoveAccount(u) PROVE Other
  BY <1>10, <1>11 DEF RemoveAccount, history
<1>12. CASE UNCHANGED vars
  BY <1>10, <1>12 DEF vars, Other
<1> QED
  BY <1>3, <1>4, <1>5, <1>6, <1>7, <1>8, <1>9, <1>11, <1>12 DEF Next, OfferStep, Other

\* What the steps of an offer do to the handlers that settle offers.
LEMMA Settlers ==
  ASSUME WellFormed, NEW r \in Reqs
  PROVE  /\ Respond(r) => \A q \in Reqs, t \in Txns :
                            /\ Paying(q, t)' <=> q # r /\ Paying(q, t)
                            /\ TakingBack(q, t)' <=> q # r /\ TakingBack(q, t)
         /\ Proceed(r, "credit") => \A q \in Reqs, t \in Txns :
              /\ Paying(q, t)' <=> IF q = r THEN t = req[r].txn ELSE Paying(q, t)
              /\ TakingBack(q, t)' <=> q # r /\ TakingBack(q, t)
         /\ Proceed(r, "undo") => \A q \in Reqs, t \in Txns :
              /\ Paying(q, t)' <=> q # r /\ Paying(q, t)
              /\ TakingBack(q, t)' <=> IF q = r THEN t = req[r].txn ELSE TakingBack(q, t)
<1>1. req \in [Reqs -> Requests]
  BY DEF WellFormed, TypeOK
<1>2. Respond(r) => \A q \in Reqs, t \in Txns :
                      /\ Paying(q, t)' <=> q # r /\ Paying(q, t)
                      /\ TakingBack(q, t)' <=> q # r /\ TakingBack(q, t)
  BY <1>1, IdleType DEF Respond, Paying, TakingBack
<1>3. ASSUME NEW step \in {"credit", "undo"}, Proceed(r, step)
      PROVE  /\ req'[r].at = step /\ req'[r].txn = req[r].txn
             /\ \A q \in Reqs \ {r} : req'[q] = req[q]
  BY <1>1, <1>3 DEF Proceed, Requests
<1>4. ASSUME Proceed(r, "credit")
      PROVE  \A q \in Reqs, t \in Txns :
               /\ Paying(q, t)' <=> IF q = r THEN t = req[r].txn ELSE Paying(q, t)
               /\ TakingBack(q, t)' <=> q # r /\ TakingBack(q, t)
  BY <1>3, <1>4 DEF Paying, TakingBack
<1>5. ASSUME Proceed(r, "undo")
      PROVE  \A q \in Reqs, t \in Txns :
               /\ Paying(q, t)' <=> q # r /\ Paying(q, t)
               /\ TakingBack(q, t)' <=> IF q = r THEN t = req[r].txn ELSE TakingBack(q, t)
  BY <1>3, <1>5 DEF Paying, TakingBack
<1> QED
  BY <1>2, <1>4, <1>5

LEMMA OffersInvInit == Init => OffersInv
BY IdleType DEF Init, OffersInv, OffersAreAccountedFor, SettledByOne, SettledInTurn,
                TakenBackIsPaid, Settling, Paying, TakingBack

LEMMA OffersInvInductive == WellFormed /\ OffersInv /\ [Next]_vars => OffersInv'
<1> SUFFICES ASSUME WellFormed, OffersInv, [Next]_vars
             PROVE  OffersInv'
  OBVIOUS
<1>0. credited \in [Txns -> Nat] /\ recorded \in [Txns -> Nat]
  BY DEF WellFormed, TypeOK
<1> USE DEF OffersInv, OffersAreAccountedFor, SettledByOne, SettledInTurn,
            TakenBackIsPaid, Settling
<1>1. CASE UNCHANGED <<offers, recorded, credited>> /\ SameSettlers
  BY <1>1 DEF SameSettlers
<1>2. ASSUME NEW r \in Reqs, OfferInsert(r)
      PROVE  OffersInv'
  <2>0. PICK t \in Txns : t = req[r].txn
    BY <1>2 DEF OfferInsert, WellFormed, Addressed
  <2>1. credited' = credited /\ offers' = offers \cup {t}
    BY <1>2, <2>0 DEF OfferInsert
  <2>2. CASE t \in offers
    <3>1. Respond(r) /\ recorded' = recorded
      BY <1>2, <2>0, <2>2 DEF OfferInsert
    <3> QED
      BY <2>1, <2>2, <3>1, Settlers
  <2>3. CASE t \notin offers
    <3>1. Proceed(r, "credit") /\ recorded' = [recorded EXCEPT ![t] = recorded[t] + 1]
      BY <1>2, <2>0, <2>3 DEF OfferInsert
    <3>2. \A q \in Reqs, s \in Txns :
            /\ Paying(q, s)' <=> IF q = r THEN s = t ELSE Paying(q, s)
            /\ TakingBack(q, s)' <=> q # r /\ TakingBack(q, s)
      BY <2>0, <3>1, Settlers
    <3>3. \A q \in Reqs : ~Settling(q, t)
      BY <2>3
    <3>4. recorded'[t] = recorded[t] + 1 /\ \A s \in Txns \ {t} : recorded'[s] = recorded[s]
      BY <1>0, <3>1
    <3>5. credited[t] = recorded[t]
      BY <2>3
    <3>6. SettledByOne'
      BY <3>2, <3>3
    <3>7. SettledInTurn'
      BY <2>1, <3>2, <3>3, <3>4, <3>5
    <3>8. OffersAreAccountedFor' /\ TakenBackIsPaid'
      BY <2>1, <3>4, <3>5
    <3> QED
      BY <3>6, <3>7, <3>8
  <2> QED
    BY <2>2, <2>3
<1>3. ASSUME NEW r \in Reqs, OfferCredit(r)
      PROVE  OffersInv'
  <2>0. PICK t \in Txns : t = req[r].txn
    BY <1>3 DEF OfferCredit, WellFormed, Addressed
  <2>1. offers' = offers /\ recorded' = recorded /\ Paying(r, t)
    BY <1>3, <2>0 DEF OfferCredit, Paying
  <2>2. t \in offers /\ credited[t] + 1 = recorded[t]
    BY <2>1
  <2>3. CASE req[r].who \in accounts
    <3>1. Proceed(r, "undo") /\ credited' = [credited EXCEPT ![t] = credited[t] + 1]
      BY <1>3, <2>0, <2>3 DEF OfferCredit
    <3>2. \A q \in Reqs, s \in Txns :
            /\ Paying(q, s)' <=> q # r /\ Paying(q, s)
            /\ TakingBack(q, s)' <=> IF q = r THEN s = t ELSE TakingBack(q, s)
      BY <2>0, <3>1, Settlers
    <3>3. credited'[t] = recorded[t] /\ \A s \in Txns \ {t} : credited'[s] = credited[s]
      BY <1>0, <2>2, <3>1
    <3>4. \A q \in Reqs : Settling(q, t) => q = r
      BY <2>1
    <3>5. SettledByOne'
      BY <2>1, <3>2, <3>4
    <3>6. SettledInTurn'
      BY <2>1, <2>2, <3>2, <3>3, <3>4
    <3>7. OffersAreAccountedFor' /\ TakenBackIsPaid'
      BY <2>1, <2>2, <3>3
    <3> QED
      BY <3>5, <3>6, <3>7
  <2>4. CASE req[r].who \notin accounts
    <3>1. Respond(r) /\ credited' = credited
      BY <1>3, <2>4 DEF OfferCredit
    <3> QED
      BY <2>1, <3>1, Settlers
  <2> QED
    BY <2>3, <2>4
<1>4. ASSUME NEW r \in Reqs, OfferUndo(r)
      PROVE  OffersInv'
  <2>0. PICK t \in Txns : t = req[r].txn
    BY <1>4 DEF OfferUndo, WellFormed, Addressed
  <2>1. /\ TakingBack(r, t) /\ Respond(r) /\ offers' = offers \ {t}
        /\ credited' = credited /\ recorded' = recorded
    BY <1>4, <2>0 DEF OfferUndo, TakingBack, history
  <2>2. \A q \in Reqs, s \in Txns : /\ Paying(q, s)' <=> q # r /\ Paying(q, s)
                                    /\ TakingBack(q, s)' <=> q # r /\ TakingBack(q, s)
    BY <2>1, Settlers
  <2>3. credited[t] = recorded[t] /\ \A q \in Reqs : ~Paying(q, t)' /\ ~TakingBack(q, t)'
    BY <2>1, <2>2
  <2>4. SettledByOne'
    BY <2>2
  <2>5. SettledInTurn'
    BY <2>1, <2>2, <2>3
  <2> QED
    BY <2>1, <2>3, <2>4, <2>5
<1>5. ASSUME NEW r \in Reqs, OfferFails(r)
      PROVE  OffersInv'
  <2>1. Respond(r) /\ offers' = offers /\ credited' = credited /\ recorded' = recorded
    BY <1>5 DEF OfferFails, store, history
  <2> QED
    BY <2>1, Settlers
<1> QED
  BY <1>1, <1>2, <1>3, <1>4, <1>5, OfferSteps DEF OfferStep

\* However many times the callback of an offer is sent, at once or again, and
\* whenever the database fails, the process dies or the account vanishes
\* between the writes: each record of the offer is paid once, and only one that
\* still stands may be unpaid (recordSupportOffer).
THEOREM OffersAreAlwaysAccountedFor == Spec => []OffersAreAccountedFor
<1>1. OffersInv => OffersAreAccountedFor
  BY DEF OffersInv
<1> QED
  BY <1>1, OffersInvInit, OffersInvInductive, AlwaysWellFormed, PTL DEF Spec
-----------------------------------------------------------------------------
(***************************************************************************)
(* Coins and purchases.  The writes of a handler are computed from its     *)
(* snapshot, so the invariant speaks of the snapshots in flight as much as *)
(* of the documents: a snapshot may be stale but it is never richer than   *)
(* what the account was given, and one that will seed the wallet of a      *)
(* legacy document is not stale at all.                                    *)
(***************************************************************************)

Sound(d, u) ==
  /\ InSync(d)
  /\ \A c \in Currencies : Balance(d, c) + Worth[c][d.ownedUnlockables] <= granted[u][c]
  /\ d.ownedUnlockables \subseteq bought[u]
  /\ \A t \in Types : d.selected[t] \in Purchasable => d.selected[t] \in bought[u]

HoldsSnapshot(r) == req[r].at \in {"rank", "ready"}

DocumentsSound == \A u \in accounts : Sound(users[u], u)

SnapshotsSound ==
  \A r \in Reqs : HoldsSnapshot(r) =>
    /\ Sound(req[r].snap, req[r].who)
    /\ req[r].at = "ready" => req[r].snap.currencies[Bustercoin] # Absent

SeedsAreFresh ==
  \A r \in Reqs : HoldsSnapshot(r) /\ req[r].who \in accounts =>
    LET d == users[req[r].who]
        s == req[r].snap
    IN  /\ d.currencies[Bustercoin] = Absent => s.bustercoins = d.bustercoins
        /\ d.currencies = NoWallet => s.currencies[Supportcoin] = Absent

AccountsInv == DocumentsSound /\ SnapshotsSound /\ SeedsAreFresh

\* What an account owns has a price.
LEMMA ValueType ==
  ASSUME NEW d \in Documents, NEW c \in Currencies
  PROVE  /\ Balance(d, c) \in Nat
         /\ Worth[c][d.ownedUnlockables] \in Nat
         /\ Balance(d, c) + Worth[c][d.ownedUnlockables] \in Nat
<1>1. Balance(d, c) \in Nat
  BY BalanceOf
<1>2. d.ownedUnlockables \in SUBSET Items
  BY DEF Documents
<1>3. Worth[c][d.ownedUnlockables] \in Nat
  BY <1>2, WorthAssumption
<1> QED
  BY <1>1, <1>3

\* What an account was given and what it bought only grow, so a document that
\* was sound stays sound.
LEMMA SoundForGood ==
  ASSUME NEW d \in Documents, NEW u \in Users, Sound(d, u),
         granted \in [Users -> [Currencies -> Nat]],
         granted' \in [Users -> [Currencies -> Nat]],
         \A c \in Currencies : granted[u][c] <= granted'[u][c],
         bought[u] \subseteq bought'[u]
  PROVE  Sound(d, u)'
<1>1. \A c \in Currencies : Balance(d, c) + Worth[c][d.ownedUnlockables] \in Nat
  BY ValueType
<1>2. \A c \in Currencies : granted[u][c] \in Nat /\ granted'[u][c] \in Nat
  OBVIOUS
<1>3. ASSUME NEW c \in Currencies
      PROVE  Balance(d, c) + Worth[c][d.ownedUnlockables] <= granted'[u][c]
  <2> DEFINE n == Balance(d, c) + Worth[c][d.ownedUnlockables]
  <2>1. n <= granted[u][c] /\ granted[u][c] <= granted'[u][c]
    BY DEF Sound
  <2>2. n \in Nat
    BY <1>1
  <2> HIDE DEF n
  <2>3. n <= granted'[u][c]
    BY <1>2, <2>1, <2>2
  <2> QED
    BY <2>3 DEF n
<1> QED
  BY <1>3 DEF Sound

\* A step that writes no document and reads none into a snapshot.
LEMMA QuietStep ==
  ASSUME AccountsInv, UNCHANGED <<accounts, users, granted, bought>>,
         \A r \in Reqs : HoldsSnapshot(r)' => req'[r] = req[r]
  PROVE  AccountsInv'
<1>1. DocumentsSound'
  BY DEF AccountsInv, DocumentsSound, Sound
<1>2. ASSUME NEW r \in Reqs, HoldsSnapshot(r)'
      PROVE  HoldsSnapshot(r) /\ req'[r] = req[r]
  BY <1>2 DEF HoldsSnapshot
<1>3. SnapshotsSound'
  BY <1>2 DEF AccountsInv, SnapshotsSound, Sound
<1>4. SeedsAreFresh'
  BY <1>2 DEF AccountsInv, SeedsAreFresh
<1> QED
  BY <1>1, <1>3, <1>4 DEF AccountsInv

\* No request has a snapshot that it did not have before.
SnapshotsKept ==
  \A q \in Reqs : HoldsSnapshot(q)' => HoldsSnapshot(q) /\ req'[q] = req[q]

\* A request that ends, or goes on to take back its record, leaves the
\* snapshots of the others.
LEMMA OthersKeepSnapshots ==
  ASSUME WellFormed, NEW r \in Reqs, Respond(r) \/ Proceed(r, "undo")
  PROVE  SnapshotsKept /\ ~HoldsSnapshot(r)'
BY IdleType DEF WellFormed, TypeOK, Requests, Respond, Proceed, HoldsSnapshot, SnapshotsKept

\* A step that writes one document.
LEMMA WriteStep ==
  ASSUME WellFormed, AccountsInv, SnapshotsKept,
         NEW u \in Users, NEW e \in Documents,
         users' = [users EXCEPT ![u] = e],
         accounts' = accounts \cup {u},
         granted' \in [Users -> [Currencies -> Nat]],
         \A v \in Users, c \in Currencies : granted[v][c] <= granted'[v][c],
         \A v \in Users : bought[v] \subseteq bought'[v],
         Sound(e, u)',
         e.currencies[Bustercoin] = Absent =>
           /\ u \in accounts
           /\ users[u].currencies[Bustercoin] = Absent
           /\ e.bustercoins = users[u].bustercoins,
         e.currencies = NoWallet => users[u].currencies = NoWallet
  PROVE  AccountsInv'
<1>0. TypeOK /\ Addressed
  BY DEF WellFormed
<1>1. users'[u] = e /\ \A v \in Users \ {u} : users'[v] = users[v]
  BY <1>0 DEF TypeOK
<1>2. ASSUME NEW d \in Documents, NEW v \in Users, Sound(d, v)
      PROVE  Sound(d, v)'
  BY <1>0, <1>2, SoundForGood DEF TypeOK
<1>3. DocumentsSound'
  <2> SUFFICES ASSUME NEW v \in accounts' PROVE Sound(users[v], v)'
    BY DEF DocumentsSound
  <2>1. CASE v = u
    BY <1>1, <2>1 DEF Sound
  <2>2. CASE v # u
    <3>1. v \in accounts /\ v \in Users
      BY <1>0, <2>2 DEF TypeOK
    <3>2. PICK d \in Documents : d = users[v]
      BY <1>0, <3>1 DEF TypeOK
    <3>3. Sound(d, v)
      BY <3>1, <3>2 DEF AccountsInv, DocumentsSound
    <3>4. Sound(d, v)'
      BY <1>2, <3>1, <3>3
    <3>5. users'[v] = d
      BY <1>1, <2>2, <3>1, <3>2
    <3> QED
      BY <3>4, <3>5 DEF Sound
  <2> QED
    BY <2>1, <2>2
<1>4. ASSUME NEW q \in Reqs, HoldsSnapshot(q)'
      PROVE  HoldsSnapshot(q) /\ req'[q] = req[q]
  BY <1>4 DEF SnapshotsKept
<1>5. SnapshotsSound'
  <2> SUFFICES ASSUME NEW q \in Reqs, HoldsSnapshot(q)'
               PROVE  /\ Sound(req[q].snap, req[q].who)'
                      /\ req'[q].at = "ready" => req'[q].snap.currencies[Bustercoin] # Absent
    BY DEF SnapshotsSound
  <2>1. HoldsSnapshot(q) /\ req'[q] = req[q]
    BY <1>4
  <2>2. PICK d \in Documents, v \in Users : d = req[q].snap /\ v = req[q].who
    BY <1>0, <2>1 DEF TypeOK, Addressed, Requests, HoldsSnapshot
  <2>3. /\ Sound(d, v)
        /\ req[q].at = "ready" => req[q].snap.currencies[Bustercoin] # Absent
    BY <2>1, <2>2 DEF AccountsInv, SnapshotsSound
  <2>4. Sound(d, v)'
    BY <1>2, <2>3
  <2> QED
    BY <2>1, <2>2, <2>3, <2>4 DEF Sound
<1>6. SeedsAreFresh'
  <2> SUFFICES ASSUME NEW q \in Reqs, HoldsSnapshot(q)', req'[q].who \in accounts'
               PROVE  LET d == users'[req'[q].who]
                          s == req'[q].snap
                      IN  /\ d.currencies[Bustercoin] = Absent => s.bustercoins = d.bustercoins
                          /\ d.currencies = NoWallet => s.currencies[Supportcoin] = Absent
    BY DEF SeedsAreFresh
  <2>1. HoldsSnapshot(q) /\ req'[q] = req[q]
    BY <1>4
  <2>2. req[q].who \in Users
    BY <1>0, <2>1 DEF Addressed, HoldsSnapshot
  <2>3. CASE req[q].who = u
    <3>1. e.currencies = NoWallet => e.currencies[Bustercoin] = Absent
      BY DEF NoWallet, Currencies
    <3> QED
      BY <1>1, <2>1, <2>3, <3>1 DEF AccountsInv, SeedsAreFresh
  <2>4. CASE req[q].who # u
    BY <1>1, <2>1, <2>2, <2>4 DEF AccountsInv, SeedsAreFresh
  <2> QED
    BY <2>3, <2>4
<1> QED
  BY <1>3, <1>5, <1>6 DEF AccountsInv

\* Each operation makes a sound document of a sound document or snapshot: a new
\* account ...
LEMMA DefaultsSound ==
  ASSUME WellFormed, NEW u \in Users
  PROVE  Sound(BuildUserDefaults, u)
<1>1. InSync(BuildUserDefaults)
  BY DefaultsType DEF InSync, BuildUserDefaults
<1>2. ASSUME NEW c \in Currencies
      PROVE  Balance(BuildUserDefaults, c) + Worth[c][BuildUserDefaults.ownedUnlockables]
               <= granted[u][c]
  <2>1. Balance(BuildUserDefaults, c) = 0 /\ Worth[c][{}] = 0
    BY DefaultsType, WorthAssumption
  <2>2. granted[u][c] \in Nat
    BY DEF WellFormed, TypeOK
  <2> QED
    BY <2>1, <2>2 DEF BuildUserDefaults
<1>3. \A t \in Types : Fallback[t] \notin Purchasable
  BY CatalogAssumption DEF Purchasable
<1> QED
  BY <1>1, <1>2, <1>3 DEF Sound, BuildUserDefaults

\* ... a normalized snapshot ...
LEMMA EnsuredSound ==
  ASSUME NEW d \in Documents, NEW holder \in BOOLEAN, NEW u \in Users, Sound(d, u)
  PROVE  LET e == EnsureUserSchema(d, holder)
         IN  /\ Sound(e, u)
             /\ e.currencies[Bustercoin] # Absent
             /\ e.bustercoins = d.bustercoins
             /\ e.currencies[Supportcoin] = d.currencies[Supportcoin]
<1> DEFINE e == EnsureUserSchema(d, holder)
<1>1. /\ e \in Documents
      /\ e.currencies = Purse(d)
      /\ e.bustercoins = Balance(d, Bustercoin)
      /\ e.ownedUnlockables = d.ownedUnlockables
      /\ \A t \in Types : e.selected[t] \in Purchasable => e.selected[t] \in d.ownedUnlockables
  BY EnsureUserSchemaOf
<1> HIDE DEF e
<1>2. d.bustercoins \in Nat
  BY DEF Documents
<1>3. Balance(d, Bustercoin) = d.bustercoins
  BY BalanceOf DEF Sound, InSync, OrElse
<1>4. e.currencies[Bustercoin] = d.bustercoins
  BY <1>1, PurseOf DEF Sound, InSync, OrElse
<1>5. e.currencies[Supportcoin] = d.currencies[Supportcoin]
  BY <1>1, PurseOf
<1>6. \A c \in Currencies : Balance(e, c) = Balance(d, c)
  BY <1>1, <1>2, <1>3, <1>4, <1>5, BalanceOf DEF Currencies, OrElse
<1>7. InSync(e)
  BY <1>1, <1>3, <1>4 DEF InSync
<1>8. e.currencies[Bustercoin] # Absent
  BY <1>2, <1>4 DEF Absent
<1>9. Sound(e, u)
  BY <1>1, <1>6, <1>7 DEF Sound
<1> QED
  BY <1>1, <1>3, <1>5, <1>8, <1>9 DEF e

\* ... coins of one currency paid in, and recorded as given ...
LEMMA PaidInSound ==
  ASSUME WellFormed, NEW u \in Users, NEW d \in Documents, NEW e \in Documents,
         NEW c \in Currencies, NEW n \in Nat, Sound(d, u),
         InSync(e),
         \A x \in Currencies : Balance(e, x) = Balance(d, x) + (IF x = c THEN n ELSE 0),
         e.ownedUnlockables = d.ownedUnlockables,
         e.selected = d.selected,
         granted' = [granted EXCEPT ![u][c] = @ + n],
         bought' = bought
  PROVE  /\ Sound(e, u)'
         /\ granted' \in [Users -> [Currencies -> Nat]]
         /\ \A v \in Users, x \in Currencies : granted[v][x] <= granted'[v][x]
<1>1. granted \in [Users -> [Currencies -> Nat]]
  BY DEF WellFormed, TypeOK
<1> DEFINE g == [granted[u] EXCEPT ![c] = granted[u][c] + n]
<1>2. /\ g \in [Currencies -> Nat]
      /\ \A x \in Currencies : g[x] = granted[u][x] + (IF x = c THEN n ELSE 0)
  BY <1>1
<1>3. granted' = [granted EXCEPT ![u] = g]
  OBVIOUS
<1> HIDE DEF g
<1>4. /\ granted' \in [Users -> [Currencies -> Nat]]
      /\ granted'[u] = g
      /\ \A v \in Users \ {u} : granted'[v] = granted[v]
  BY <1>1, <1>2, <1>3
<1>5. ASSUME NEW v \in Users, NEW x \in Currencies
      PROVE  granted[v][x] <= granted'[v][x]
  <2>1. granted[v][x] \in Nat
    BY <1>1
  <2> QED
    BY <1>2, <1>4, <2>1
<1>6. ASSUME NEW x \in Currencies
      PROVE  Balance(e, x) + Worth[x][e.ownedUnlockables] <= granted'[u][x]
  <2>1. Balance(d, x) \in Nat /\ Worth[x][d.ownedUnlockables] \in Nat /\ granted[u][x] \in Nat
    BY <1>1, ValueType
  <2>2. Balance(d, x) + Worth[x][d.ownedUnlockables] <= granted[u][x]
    BY DEF Sound
  <2>3. /\ Balance(e, x) = Balance(d, x) + (IF x = c THEN n ELSE 0)
        /\ granted'[u][x] = granted[u][x] + (IF x = c THEN n ELSE 0)
    BY <1>2, <1>4
  <2> QED
    BY <2>1, <2>2, <2>3
<1> QED
  BY <1>4, <1>5, <1>6 DEF Sound

\* What a purchase makes of the wallet of the snapshot it is computed from ...
LEMMA PurchasedBalance ==
  ASSUME NEW d \in Documents, NEW snap \in Documents, NEW e \in Documents,
         NEW i \in Purchasable, snap.currencies[Bustercoin] # Absent,
         CanDebit(snap.currencies, Catalog[i].currency, Catalog[i].cost),
         e = PurchaseUnlockable(d, snap, i)
  PROVE  /\ InSync(e) /\ e.currencies[Bustercoin] # Absent
         /\ \A x \in Currencies : /\ PriceIn(x, i) \in Nat
                                  /\ Balance(e, x) = Balance(snap, x) - PriceIn(x, i)
<1> DEFINE c == Catalog[i].currency
           cost == Catalog[i].cost
           w == snap.currencies
           v == DebitCurrency(w, c, cost)
<1>1. i \in Items /\ c \in Currencies /\ cost \in Nat /\ w \in Wallets
  BY CatalogAssumption DEF Purchasable, Definitions, Documents
<1>2. e.currencies = v /\ e.bustercoins = GetCurrencyBalance(v, Bustercoin)
  BY <1>1, PurchaseUnlockableOf
<1>3. w # NoWallet
  BY DEF NoWallet, Currencies
<1>4. /\ v \in Wallets /\ v # NoWallet /\ v[Bustercoin] # Absent
      /\ \A x \in Currencies :
           OrElse(v[x], 0) = OrElse(w[x], 0) - (IF x = c THEN cost ELSE 0)
  BY <1>1, <1>3, DebitOf
<1>5. InSync(e)
  <2>1. GetCurrencyBalance(v, Bustercoin) = v[Bustercoin]
    BY <1>4, BalanceOfWallet DEF OrElse, Currencies
  <2> QED
    BY <1>2, <2>1 DEF InSync
<1> HIDE DEF c, cost, w, v
<1>6. \A x \in Currencies : PriceIn(x, i) = IF x = c THEN cost ELSE 0
  BY DEF PriceIn, c, cost
<1>7. ASSUME NEW x \in Currencies
      PROVE  Balance(e, x) = Balance(snap, x) - PriceIn(x, i)
  <2>1. Balance(e, x) = OrElse(v[x], 0)
    BY <1>2, <1>4, BalanceOf DEF OrElse, Currencies
  <2>2. Balance(snap, x) = OrElse(w[x], 0)
    BY BalanceOf DEF OrElse, Currencies, w
  <2> QED
    BY <1>4, <1>6, <2>1, <2>2
<1> QED
  BY <1>1, <1>2, <1>4, <1>5, <1>6, <1>7

\* ... and a purchase, whose price leaves the snapshot's wallet as its worth
\* joins the snapshot's inventory.
LEMMA PurchasedSound ==
  ASSUME WellFormed, NEW u \in Users, NEW d \in Documents, NEW snap \in Documents,
         NEW e \in Documents, NEW i \in Purchasable,
         Sound(d, u), Sound(snap, u),
         snap.currencies[Bustercoin] # Absent,
         i \notin snap.ownedUnlockables,
         CanDebit(snap.currencies, Catalog[i].currency, Catalog[i].cost),
         e = PurchaseUnlockable(d, snap, i),
         granted' = granted,
         bought' = [bought EXCEPT ![u] = @ \cup {i}]
  PROVE  Sound(e, u)' /\ e.currencies[Bustercoin] # Absent
<1>1. i \in Items
  BY DEF Purchasable
<1>2. /\ e.ownedUnlockables = snap.ownedUnlockables \cup {i}
      /\ e.selected = d.selected
  BY <1>1, PurchaseUnlockableOf
<1>3. /\ InSync(e) /\ e.currencies[Bustercoin] # Absent
      /\ \A x \in Currencies : /\ PriceIn(x, i) \in Nat
                               /\ Balance(e, x) = Balance(snap, x) - PriceIn(x, i)
  BY PurchasedBalance
<1>4. ASSUME NEW x \in Currencies
      PROVE  Balance(e, x) + Worth[x][e.ownedUnlockables] <= granted'[u][x]
  <2>1. Worth[x][e.ownedUnlockables] = Worth[x][snap.ownedUnlockables] + PriceIn(x, i)
    <3>1. snap.ownedUnlockables \in SUBSET Items
      BY DEF Documents
    <3> QED
      BY <1>1, <1>2, <3>1, WorthAssumption
  <2>2. Balance(snap, x) \in Nat /\ Worth[x][snap.ownedUnlockables] \in Nat
    BY ValueType
  <2>3. Balance(snap, x) + Worth[x][snap.ownedUnlockables] <= granted'[u][x]
    BY DEF Sound
  <2>4. granted'[u][x] \in Nat
    BY DEF WellFormed, TypeOK
  <2> QED
    BY <1>3, <2>1, <2>2, <2>3, <2>4
<1>5. bought'[u] = bought[u] \cup {i}
  BY DEF WellFormed, TypeOK
<1>6. /\ e.ownedUnlockables \subseteq bought'[u]
      /\ \A t \in Types : e.selected[t] \in Purchasable => e.selected[t] \in bought'[u]
  BY <1>2, <1>5 DEF Sound
<1>7. Sound(e, u)'
  BY <1>3, <1>4, <1>6 DEF Sound
<1> QED
  BY <1>3, <1>7
-----------------------------------------------------------------------------
\* The coins of a run are added to what the document has, whatever of its wallet comes from
\* the snapshot.
LEMMA SubmittedBalance ==
  ASSUME WellFormed, AccountsInv, NEW u \in Users, NEW snap \in Documents,
         \E r \in Reqs : req[r].at = "ready" /\ u = req[r].who /\ snap = req[r].snap,
         NEW score \in Nat, NEW earned \in Nat, NEW unlocked \in SUBSET Feats
  PROVE  LET d == IF u \in accounts THEN users[u] ELSE snap
             e == RecordScore(u, snap, score, earned, unlocked)
         IN  /\ Sound(d, u) /\ InSync(e) /\ e.currencies[Bustercoin] \in Nat
             /\ \A x \in Currencies :
                  Balance(e, x) = Balance(d, x) + (IF x = Bustercoin THEN earned ELSE 0)
<1>1. users \in [Users -> Documents]
  BY DEF WellFormed, TypeOK
<1>2. PICK d \in Documents : d = IF u \in accounts THEN users[u] ELSE snap
  BY <1>1
<1>3. PICK e \in Documents : e = RecordScore(u, snap, score, earned, unlocked)
  BY <1>1, RecordScoreOf
<1> DEFINE held == IF d.currencies = NoWallet THEN snap.currencies ELSE d.currencies
<1>4. /\ e.bustercoins = d.bustercoins + earned
      /\ e.currencies[Bustercoin] = OrElse(held[Bustercoin], snap.bustercoins) + earned
      /\ e.currencies[Bustercoin] \in Nat
      /\ e.currencies[Supportcoin] = held[Supportcoin]
  BY <1>1, <1>2, <1>3, RecordScoreOf
<1>5. /\ Sound(snap, u) /\ snap.currencies[Bustercoin] # Absent
      /\ u \in accounts => Sound(users[u], u)
      /\ u \in accounts =>
           /\ users[u].currencies[Bustercoin] = Absent => snap.bustercoins = users[u].bustercoins
           /\ users[u].currencies = NoWallet => snap.currencies[Supportcoin] = Absent
  BY DEF AccountsInv, DocumentsSound, SnapshotsSound, SeedsAreFresh, HoldsSnapshot
<1>6. Sound(d, u)
  BY <1>5, <1>2
<1>7. snap.currencies[Bustercoin] = snap.bustercoins
  BY <1>5 DEF Sound, InSync
<1>8. OrElse(held[Bustercoin], snap.bustercoins) = d.bustercoins
  <2>1. CASE u \notin accounts
    BY <1>5, <1>7, <1>2, <2>1 DEF OrElse
  <2>2. CASE u \in accounts /\ d.currencies[Bustercoin] = Absent
    BY <1>5, <1>7, <1>2, <2>2 DEF OrElse
  <2>3. CASE u \in accounts /\ d.currencies[Bustercoin] # Absent
    <3>1. d.currencies # NoWallet /\ d.currencies[Bustercoin] = d.bustercoins
      BY <1>6, <2>3 DEF NoWallet, Currencies, Sound, InSync
    <3> QED
      BY <2>3, <3>1 DEF OrElse
  <2> QED
    BY <2>1, <2>2, <2>3
<1>9. held[Supportcoin] = d.currencies[Supportcoin]
  <2>1. CASE u \notin accounts
    BY <1>2, <2>1
  <2>2. CASE u \in accounts
    BY <1>5, <1>2, <2>2 DEF NoWallet, Currencies
  <2> QED
    BY <2>1, <2>2
<1> HIDE DEF held
<1>10. InSync(e) /\ e.currencies[Bustercoin] = d.bustercoins + earned
  BY <1>4, <1>8 DEF InSync
<1>11. Balance(d, Bustercoin) = d.bustercoins
  BY <1>6, BalanceOf DEF Sound, InSync, OrElse
<1>12. Balance(e, Bustercoin) = d.bustercoins + earned
  BY <1>4, <1>10, BalanceOf DEF OrElse, Absent
<1>13. Balance(e, Supportcoin) = Balance(d, Supportcoin) + 0
  BY <1>4, <1>9, BalanceOf DEF Currencies
<1> QED
  BY <1>4, <1>6, <1>10, <1>11, <1>12, <1>13, <1>2, <1>3 DEF Currencies, Bustercoin, Supportcoin

LEMMA AccountsInvInit == Init => AccountsInv
<1> SUFFICES ASSUME Init PROVE AccountsInv
  OBVIOUS
<1>1. WellFormed
  BY InitWellFormed
<1>2. ASSUME NEW u \in accounts PROVE Sound(users[u], u)
  <2>1. u \in Users /\ users[u] \in Opening /\ users[u] \in Documents
    BY <1>1, <1>2 DEF Init, WellFormed, TypeOK
  <2>2. \A c \in Currencies :
          Balance(users[u], c) + Worth[c][users[u].ownedUnlockables] <= granted[u][c]
    BY <2>1, ValueType DEF Init
  <2>3. bought[u] = users[u].ownedUnlockables
    BY <2>1 DEF Init
  <2> QED
    BY <2>1, <2>2, <2>3, OpeningAssumption DEF Sound
<1>3. \A r \in Reqs : ~HoldsSnapshot(r)
  BY IdleType DEF Init, HoldsSnapshot
<1> QED
  BY <1>2, <1>3 DEF AccountsInv, DocumentsSound, SnapshotsSound, SeedsAreFresh

LEMMA AccountsInvInductive == WellFormed /\ AccountsInv /\ [Next]_vars => AccountsInv'
<1> SUFFICES ASSUME WellFormed, AccountsInv, [Next]_vars
             PROVE  AccountsInv'
  OBVIOUS
<1>0. TypeOK /\ Addressed
  BY DEF WellFormed
<1>1. ASSUME NEW r \in Reqs, NEW q, req' = [req EXCEPT ![r] = q],
             q.at \notin {"rank", "ready"}, UNCHANGED <<accounts, users, granted, bought>>
      PROVE  AccountsInv'
  <2>1. \A s \in Reqs : HoldsSnapshot(s)' => req'[s] = req[s]
    BY <1>0, <1>1 DEF TypeOK, HoldsSnapshot
  <2> QED
    BY <1>1, <2>1, QuietStep
<1>2. ASSUME NEW r \in Reqs, Respond(r), UNCHANGED <<accounts, users, granted, bought>>
      PROVE  AccountsInv'
  BY <1>2, OthersKeepSnapshots, QuietStep DEF SnapshotsKept
<1>3. ASSUME NEW r \in Reqs, NEW u \in Users, RegisterFind(r, u)
      PROVE  AccountsInv'
  <2> DEFINE q == [Idle EXCEPT !.at = "insert", !.who = u]
  <2>1. q.at = "insert"
    BY DEF Idle
  <2> QED
    BY <1>1, <1>3, <2>1 DEF RegisterFind, store, history
<1>4. ASSUME NEW r \in Reqs, NEW u \in Users, GetUserFromReq(r, u)
      PROVE  AccountsInv'
  <2> DEFINE q == [Idle EXCEPT !.at = "rank", !.who = u, !.snap = users[u]]
  <2>1. q.at = "rank" /\ q.who = u /\ q.snap = users[u]
    BY DEF Idle
  <2>2. /\ u \in accounts /\ UNCHANGED <<accounts, users, granted, bought>>
        /\ req'[r] = q /\ \A s \in Reqs \ {r} : req'[s] = req[s]
    BY <1>0, <1>4 DEF GetUserFromReq, store, history, TypeOK
  <2> HIDE DEF q
  <2>3. DocumentsSound'
    BY <2>2 DEF AccountsInv, DocumentsSound, Sound
  <2>4. SnapshotsSound'
    BY <2>1, <2>2 DEF AccountsInv, DocumentsSound, SnapshotsSound, HoldsSnapshot, Sound
  <2>5. SeedsAreFresh'
    BY <2>1, <2>2 DEF AccountsInv, SeedsAreFresh, HoldsSnapshot, NoWallet, Currencies
  <2> QED
    BY <2>3, <2>4, <2>5 DEF AccountsInv
<1>5. ASSUME NEW r \in Reqs, RegisterInsert(r)
      PROVE  AccountsInv'
  <2>0. PICK u \in Users : u = req[r].who
    BY <1>0, <1>5 DEF RegisterInsert, Addressed
  <2>1. CASE u \in accounts
    BY <1>2, <1>5, <2>0, <2>1 DEF RegisterInsert, history
  <2>2. CASE u \notin accounts
    <3>0. PICK e \in Documents : e = BuildUserDefaults
      BY DefaultsType
    <3>1. /\ users' = [users EXCEPT ![u] = e] /\ accounts' = accounts \cup {u}
          /\ Respond(r) /\ granted' = granted /\ bought' = bought
      BY <1>5, <2>0, <2>2, <3>0 DEF RegisterInsert, history
    <3>2. Sound(e, u)'
      BY <3>0, <3>1, DefaultsSound DEF Sound
    <3>3. e.currencies[Bustercoin] # Absent /\ e.currencies # NoWallet
      BY <3>0, DefaultsType DEF Absent, NoWallet, Currencies
    <3>4. \A v \in Users, c \in Currencies : granted[v][c] <= granted'[v][c]
      BY <1>0, <3>1 DEF TypeOK
    <3> QED
      BY <1>0, <3>1, <3>2, <3>3, <3>4, WriteStep, OthersKeepSnapshots DEF TypeOK
  <2> QED
    BY <2>1, <2>2
<1>6. ASSUME NEW r \in Reqs, Rank(r)
      PROVE  AccountsInv'
  <2>0. PICK u \in Users, d \in Documents : u = req[r].who /\ d = req[r].snap
    BY <1>0, <1>6 DEF Rank, Addressed, TypeOK, Requests
  <2>1. PICK holder \in BOOLEAN :
          req' = [req EXCEPT ![r] = [req[r] EXCEPT !.at = "ready",
                                                   !.recordHolder = holder,
                                                   !.snap = EnsureUserSchema(d, holder)]]
    BY <1>6, <2>0 DEF Rank, IsRecordHolder
  <2> DEFINE e == EnsureUserSchema(d, holder)
  <2>2. /\ req'[r].at = "ready" /\ req'[r].who = u /\ req'[r].snap = e
        /\ \A s \in Reqs \ {r} : req'[s] = req[s]
        /\ UNCHANGED <<accounts, users, granted, bought>>
    <3> HIDE DEF e
    <3> DEFINE q == [req[r] EXCEPT !.at = "ready", !.recordHolder = holder, !.snap = e]
    <3>1. q.at = "ready" /\ q.who = u /\ q.snap = e
      BY <1>0, <2>0 DEF TypeOK, Requests
    <3>2. req' = [req EXCEPT ![r] = q]
      BY <2>1 DEF e
    <3> HIDE DEF q
    <3>3. req'[r] = q /\ \A s \in Reqs \ {r} : req'[s] = req[s]
      BY <1>0, <3>2 DEF TypeOK
    <3>4. UNCHANGED <<accounts, users, granted, bought>>
      BY <1>6 DEF Rank, store, history
    <3> QED
      BY <3>1, <3>3, <3>4
  <2>3. HoldsSnapshot(r) /\ Sound(d, u)
    BY <1>6, <2>0 DEF Rank, AccountsInv, SnapshotsSound, HoldsSnapshot
  <2>4. /\ Sound(e, u)
        /\ e.currencies[Bustercoin] # Absent
        /\ e.bustercoins = d.bustercoins
        /\ e.currencies[Supportcoin] = d.currencies[Supportcoin]
    BY <2>3, EnsuredSound
  <2> HIDE DEF e
  <2>5. DocumentsSound'
    BY <2>2 DEF AccountsInv, DocumentsSound, Sound
  <2>6. SnapshotsSound'
    BY <2>2, <2>4 DEF AccountsInv, SnapshotsSound, HoldsSnapshot, Sound
  <2>7. SeedsAreFresh'
    BY <2>0, <2>2, <2>3, <2>4 DEF AccountsInv, SeedsAreFresh, HoldsSnapshot
  <2> QED
    BY <2>5, <2>6, <2>7 DEF AccountsInv
<1>7. ASSUME NEW r \in Reqs, EndWithoutWrite(r) \/ OfferUndo(r) \/ OfferFails(r)
      PROVE  AccountsInv'
  BY <1>2, <1>7 DEF EndWithoutWrite, OfferUndo, OfferFails, store, history
<1>8. ASSUME NEW r \in Reqs, NEW u \in Users, NEW t \in Txns, OfferFind(r, u, t)
      PROVE  AccountsInv'
  <2> DEFINE q == [Idle EXCEPT !.at = "offer", !.who = u, !.txn = t]
  <2>1. q.at = "offer"
    BY DEF Idle
  <2> QED
    BY <1>1, <1>8, <2>1 DEF OfferFind, store, history
<1>9. ASSUME NEW r \in Reqs, NEW step \in {"credit", "undo"}, Proceed(r, step),
             UNCHANGED <<accounts, users, granted, bought>>
      PROVE  AccountsInv'
  <2> DEFINE q == [req[r] EXCEPT !.at = step]
  <2>1. q.at = step /\ req' = [req EXCEPT ![r] = q]
    BY <1>0, <1>9 DEF Proceed, TypeOK, Requests
  <2> QED
    BY <1>1, <1>9, <2>1
<1>10. ASSUME NEW r \in Reqs, OfferInsert(r)
       PROVE  AccountsInv'
  <2>1. UNCHANGED <<accounts, users, granted, bought>>
    BY <1>10 DEF OfferInsert
  <2>2. Respond(r) \/ Proceed(r, "credit")
    BY <1>10 DEF OfferInsert
  <2> QED
    BY <1>2, <1>9, <2>1, <2>2
<1>11. ASSUME NEW r \in Reqs, OfferCredit(r)
       PROVE  AccountsInv'
  <2>1. CASE req[r].who \notin accounts
    BY <1>2, <1>11, <2>1 DEF OfferCredit
  <2>2. CASE req[r].who \in accounts
    <3>0. PICK u \in Users, t \in Txns : u = req[r].who /\ t = req[r].txn
      BY <1>0, <1>11 DEF OfferCredit, Addressed
    <3>1. Reward[t] \in Nat
      BY AccountsAssumption
    <3>2. PICK d \in Documents : d = users[u]
      BY <1>0 DEF TypeOK
    <3>3. PICK e \in Documents : e = Credited(d, Reward[t])
      BY <3>1, CreditedOf
    <3>4. /\ users' = [users EXCEPT ![u] = e] /\ accounts' = accounts /\ u \in accounts
          /\ Proceed(r, "undo") /\ bought' = bought
          /\ granted' = [granted EXCEPT ![u][Supportcoin] = @ + Reward[t]]
      BY <1>11, <2>2, <3>0, <3>2, <3>3 DEF OfferCredit
    <3>5. /\ e.currencies[Bustercoin] = d.currencies[Bustercoin]
          /\ e.currencies[Supportcoin] = OrElse(d.currencies[Supportcoin], 0) + Reward[t]
          /\ e.currencies # NoWallet
          /\ e.bustercoins = d.bustercoins
          /\ e.ownedUnlockables = d.ownedUnlockables
          /\ e.selected = d.selected
      BY <3>1, <3>3, CreditedOf
    <3>6. Sound(d, u)
      BY <3>2, <3>4 DEF AccountsInv, DocumentsSound
    <3>7. InSync(e)
      BY <3>5, <3>6 DEF InSync, Sound
    <3>8. \A x \in Currencies :
            Balance(e, x) = Balance(d, x) + (IF x = Supportcoin THEN Reward[t] ELSE 0)
      BY <3>1, <3>3, CreditedBalance
    <3>9. /\ Sound(e, u)'
          /\ granted' \in [Users -> [Currencies -> Nat]]
          /\ \A v \in Users, x \in Currencies : granted[v][x] <= granted'[v][x]
      BY <3>1, <3>4, <3>5, <3>6, <3>7, <3>8, PaidInSound DEF Currencies
    <3> QED
      BY <3>2, <3>4, <3>5, <3>9, WriteStep, OthersKeepSnapshots
  <2> QED
    BY <2>1, <2>2
<1>12. ASSUME NEW r \in Reqs, NEW i \in Items, SelectCosmetic(r, i)
       PROVE  AccountsInv'
  <2>0. PICK u \in Users, snap \in Documents : u = req[r].who /\ snap = req[r].snap
    BY <1>0, <1>12 DEF SelectCosmetic, Addressed, TypeOK, Requests
  <2>1. CASE u \notin accounts
    BY <1>2, <1>12, <2>0, <2>1 DEF SelectCosmetic, history
  <2>2. CASE u \in accounts
    <3>1. PICK d \in Documents : d = users[u]
      BY <1>0 DEF TypeOK
    <3> DEFINE f == [d EXCEPT !.selected = [d.selected EXCEPT ![Catalog[i].type] = i]]
    <3>2. f \in Documents
      BY DEF Documents
    <3>3. PICK e \in Documents : e = f
      BY <3>2
    <3>4. /\ e.selected = [d.selected EXCEPT ![Catalog[i].type] = i]
          /\ e.currencies = d.currencies
          /\ e.bustercoins = d.bustercoins
          /\ e.ownedUnlockables = d.ownedUnlockables
      BY <3>3 DEF Documents
    <3>5. /\ users' = [users EXCEPT ![u] = e] /\ accounts' = accounts
          /\ Respond(r) /\ granted' = granted /\ bought' = bought
      BY <1>12, <2>0, <2>2, <3>1, <3>3 DEF SelectCosmetic, history
    <3> HIDE DEF f
    <3>6. Sound(d, u) /\ Sound(snap, u)
      BY <1>12, <2>0, <2>2, <3>1
      DEF SelectCosmetic, AccountsInv, DocumentsSound, SnapshotsSound, HoldsSnapshot
    <3>7. i \in Purchasable => i \in bought[u]
      BY <1>12, <2>0, <3>6 DEF SelectCosmetic, IsUnlockSatisfied, Purchasable, Sound
    <3>8. \A t \in Types : e.selected[t] = d.selected[t] \/ e.selected[t] = i
      BY <3>4 DEF Documents
    <3>9. \A x \in Currencies : Balance(e, x) = Balance(d, x)
      BY <3>4, BalanceOf DEF Currencies
    <3>10. InSync(e)
      BY <3>4, <3>6 DEF InSync, Sound
    <3>11. Sound(e, u)'
      BY <3>4, <3>5, <3>6, <3>7, <3>8, <3>9, <3>10 DEF Sound
    <3>12. \A v \in Users, c \in Currencies : granted[v][c] <= granted'[v][c]
      BY <1>0, <3>5 DEF TypeOK
    <3> QED
      BY <1>0, <2>2, <3>1, <3>4, <3>5, <3>11, <3>12, WriteStep, OthersKeepSnapshots DEF TypeOK
  <2> QED
    BY <2>1, <2>2
<1>13. ASSUME NEW r \in Reqs, NEW i \in Items, Purchase(r, i)
       PROVE  AccountsInv'
  <2>0. PICK u \in Users, snap \in Documents : u = req[r].who /\ snap = req[r].snap
    BY <1>0, <1>13 DEF Purchase, Addressed, TypeOK, Requests
  <2>1. CASE u \notin accounts
    BY <1>2, <1>13, <2>0, <2>1 DEF Purchase
  <2>2. CASE u \in accounts
    <3>1. PICK d \in Documents : d = users[u]
      BY <1>0 DEF TypeOK
    <3>2. /\ i \in Purchasable
          /\ i \notin snap.ownedUnlockables
          /\ CanDebit(snap.currencies, Catalog[i].currency, Catalog[i].cost)
      BY <1>13, <2>0 DEF Purchase, Purchasable, IsUnlockSatisfied
    <3>3. PICK e \in Documents : e = PurchaseUnlockable(d, snap, i)
      BY <3>2, PurchaseUnlockableOf
    <3>4. /\ users' = [users EXCEPT ![u] = e] /\ accounts' = accounts
          /\ Respond(r) /\ granted' = granted
          /\ bought' = [bought EXCEPT ![u] = @ \cup {i}]
      BY <1>13, <2>0, <2>2, <3>1, <3>3 DEF Purchase
    <3>5. Sound(d, u) /\ Sound(snap, u) /\ snap.currencies[Bustercoin] # Absent
      BY <1>13, <2>0, <2>2, <3>1
      DEF Purchase, AccountsInv, DocumentsSound, SnapshotsSound, HoldsSnapshot
    <3>6. Sound(e, u)' /\ e.currencies[Bustercoin] # Absent
      BY <3>2, <3>3, <3>4, <3>5, PurchasedSound
    <3>7. e.currencies # NoWallet
      BY <3>6 DEF NoWallet, Currencies
    <3>8. \A v \in Users : bought[v] \subseteq bought'[v]
      BY <1>0, <3>4 DEF TypeOK
    <3>9. \A v \in Users, c \in Currencies : granted[v][c] <= granted'[v][c]
      BY <1>0, <3>4 DEF TypeOK
    <3> QED
      BY ZenonT(30), <1>0, <2>2, <3>4, <3>6, <3>7, <3>8, <3>9, WriteStep, OthersKeepSnapshots DEF TypeOK
  <2> QED
    BY <2>1, <2>2
<1>14. ASSUME NEW r \in Reqs, NEW score \in Scores, NEW earned \in Earnings,
              NEW won \in SUBSET Feats, SubmitScore(r, score, earned, won)
       PROVE  AccountsInv'
  <2>0. PICK u \in Users, snap \in Documents : u = req[r].who /\ snap = req[r].snap
    BY <1>0, <1>14 DEF SubmitScore, Addressed, TypeOK, Requests
  <2>1. PICK d \in Documents : d = IF u \in accounts THEN users[u] ELSE snap
    BY <1>0 DEF TypeOK
  <2> DEFINE unlocked == snap.achievements \cup won
  <2>2. score \in Nat /\ earned \in Nat /\ unlocked \in SUBSET Feats
    BY AccountsAssumption DEF Documents
  <2>3. PICK e \in Documents : e = RecordScore(u, snap, score, earned, unlocked)
    BY <1>0, <2>2, RecordScoreOf DEF TypeOK
  <2>4. /\ req[r].at = "ready"
        /\ users' = [users EXCEPT ![u] = e] /\ accounts' = accounts \cup {u}
        /\ Respond(r) /\ bought' = bought
        /\ granted' = [granted EXCEPT ![u][Bustercoin] = @ + earned]
    BY <1>14, <2>0, <2>3 DEF SubmitScore
  <2> HIDE DEF unlocked
  <2>5. e.ownedUnlockables = d.ownedUnlockables /\ e.selected = d.selected
    <3>1. users \in [Users -> Documents]
      BY <1>0 DEF TypeOK
    <3> QED
      BY <2>1, <2>2, <2>3, <3>1, RecordScoreKeeps
  <2>6. /\ Sound(d, u) /\ InSync(e) /\ e.currencies[Bustercoin] \in Nat
        /\ \A x \in Currencies :
             Balance(e, x) = Balance(d, x) + (IF x = Bustercoin THEN earned ELSE 0)
    BY <2>0, <2>1, <2>2, <2>3, <2>4, SubmittedBalance
  <2>7. /\ Sound(e, u)'
        /\ granted' \in [Users -> [Currencies -> Nat]]
        /\ \A v \in Users, x \in Currencies : granted[v][x] <= granted'[v][x]
    BY <2>2, <2>4, <2>5, <2>6, PaidInSound DEF Currencies
  <2>8. e.currencies[Bustercoin] # Absent /\ e.currencies # NoWallet
    BY <2>6 DEF Absent, NoWallet, Currencies
  <2> QED
    BY <2>4, <2>7, <2>8, WriteStep, OthersKeepSnapshots
<1>15. ASSUME NEW u \in Users, RemoveAccount(u)
       PROVE  AccountsInv'
  <2>1. /\ accounts' = accounts \ {u} /\ \A v \in accounts' : users'[v] = users[v]
        /\ UNCHANGED <<req, granted, bought>>
    BY <1>0, <1>15 DEF RemoveAccount, history, TypeOK
  <2>2. DocumentsSound'
    BY <2>1 DEF AccountsInv, DocumentsSound, Sound
  <2>3. SnapshotsSound'
    BY <2>1 DEF AccountsInv, SnapshotsSound, HoldsSnapshot, Sound
  <2>4. SeedsAreFresh'
    BY <2>1 DEF AccountsInv, SeedsAreFresh, HoldsSnapshot
  <2> QED
    BY <2>2, <2>3, <2>4 DEF AccountsInv
<1>16. CASE UNCHANGED vars
  BY <1>16, QuietStep DEF vars
<1> QED
  BY <1>3, <1>4, <1>5, <1>6, <1>7, <1>8, <1>10, <1>11, <1>12, <1>13, <1>14, <1>15, <1>16
  DEF Next

LEMMA AlwaysAccountsInv == Spec => []AccountsInv
BY AccountsInvInit, AccountsInvInductive, AlwaysWellFormed, PTL DEF Spec

\* The two bustercoin balances of a document agree in every state of every
\* server: recordScore, which adds to each, and purchaseUnlockable, which sets
\* both from a snapshot, cannot drive them apart.
THEOREM BustercoinsStayInSync == Spec => []CoinsInSync
<1>1. AccountsInv => CoinsInSync
  BY DEF AccountsInv, DocumentsSound, Sound, CoinsInSync
<1> QED
  BY <1>1, AlwaysAccountsInv, PTL

\* No interleaving of handlers gives an account more than it was given: what
\* it has and the price of what it owns stay within it, in each currency.
THEOREM NothingIsEverFree == Spec => []NothingIsFree
<1>1. AccountsInv => NothingIsFree
  BY DEF AccountsInv, DocumentsSound, Sound, NothingIsFree
<1> QED
  BY <1>1, AlwaysAccountsInv, PTL

\* A cosmetic for sale is only ever selected by an account that bought it.
THEOREM OnlyTheSoldIsSelected == Spec => []SelectedWasSold
<1>1. AccountsInv => SelectedWasSold
  BY DEF AccountsInv, DocumentsSound, Sound, SelectedWasSold
<1> QED
  BY <1>1, AlwaysAccountsInv, PTL

\* What is for sale costs what it should and is only selected once it was sold.
THEOREM TheSoldIsAlwaysPaid == Spec => []SoldIsPaid
<1>1. NothingIsFree /\ SelectedWasSold => SoldIsPaid
  BY DEF SoldIsPaid
<1> QED
  BY <1>1, NothingIsEverFree, OnlyTheSoldIsSelected, PTL
-----------------------------------------------------------------------------
(***************************************************************************)
(* The counters.  That they are those of the recorded runs takes that a    *)
(* registration which finds no document finds no runs either, and that a   *)
(* handler with a snapshot is that of an account, unless it was removed.   *)
(***************************************************************************)

SnapshotsOfAccounts ==
  \A r \in Reqs : req[r].at \in {"rank", "ready"} => req[r].who \in accounts \cup Removable

AllCounted ==
  \A u \in Users \ Removable :
    /\ users[u].runs = tally[u].runs
    /\ users[u].bestScore = tally[u].best
    /\ u \notin accounts => tally[u].runs = 0 /\ tally[u].best = 0

CountedInv == SnapshotsOfAccounts /\ AllCounted

LEMMA CountedInvInit == Init => CountedInv
<1> SUFFICES ASSUME Init PROVE CountedInv
  OBVIOUS
<1>1. SnapshotsOfAccounts
  BY IdleType DEF Init, SnapshotsOfAccounts
<1>2. AllCounted
  BY DEF Init, AllCounted, BuildUserDefaults
<1> QED
  BY <1>1, <1>2 DEF CountedInv

\* A document that is replaced by one with the same counters.
LEMMA SameCounters ==
  ASSUME WellFormed, CountedInv, NEW u \in Users, NEW e,
         users' = users \/ users' = [users EXCEPT ![u] = e],
         e.runs = users[u].runs, e.bestScore = users[u].bestScore,
         UNCHANGED <<accounts, tally>>
  PROVE  AllCounted'
BY DEF WellFormed, TypeOK, CountedInv, AllCounted

\* A request that ends, and no account that goes.
LEMMA EndKeepsAccounts ==
  ASSUME WellFormed, CountedInv, NEW r \in Reqs, Respond(r), accounts \subseteq accounts'
  PROVE  SnapshotsOfAccounts'
BY IdleType DEF WellFormed, TypeOK, Respond, CountedInv, SnapshotsOfAccounts

\* A request that takes a step, and holds a snapshot only as before.
LEMMA StepKeepsAccounts ==
  ASSUME WellFormed, CountedInv, NEW r \in Reqs, NEW q, req' = [req EXCEPT ![r] = q],
         q.at \in {"rank", "ready"} => q.who \in accounts \cup Removable,
         UNCHANGED accounts
  PROVE  SnapshotsOfAccounts'
BY DEF WellFormed, TypeOK, CountedInv, SnapshotsOfAccounts

LEMMA CountedInvStep == WellFormed /\ CountedInv /\ [Next]_vars => CountedInv'
<1> SUFFICES ASSUME WellFormed, CountedInv, [Next]_vars
             PROVE  CountedInv'
  OBVIOUS
<1>0. TypeOK /\ Addressed
  BY DEF WellFormed
<1>1. ASSUME UNCHANGED <<accounts, users, tally>> PROVE AllCounted'
  BY <1>1 DEF CountedInv, AllCounted
<1>2. ASSUME NEW r \in Reqs, NEW u \in Users, RegisterFind(r, u) PROVE CountedInv'
  <2> DEFINE q == [Idle EXCEPT !.at = "insert", !.who = u]
  <2>1. q.at = "insert"
    BY DEF Idle
  <2>2. SnapshotsOfAccounts'
    BY <1>2, <2>1, StepKeepsAccounts DEF RegisterFind, store
  <2> QED
    BY <1>1, <1>2, <2>2 DEF RegisterFind, store, history, CountedInv
<1>3. ASSUME NEW r \in Reqs, NEW u \in Users, GetUserFromReq(r, u) PROVE CountedInv'
  <2> DEFINE q == [Idle EXCEPT !.at = "rank", !.who = u, !.snap = users[u]]
  <2>1. q.who \in accounts
    BY <1>3 DEF Idle, GetUserFromReq
  <2>2. SnapshotsOfAccounts'
    BY <1>3, <2>1, StepKeepsAccounts DEF GetUserFromReq, store
  <2> QED
    BY <1>1, <1>3, <2>2 DEF GetUserFromReq, store, history, CountedInv
<1>4. ASSUME NEW r \in Reqs, Rank(r) PROVE CountedInv'
  <2>1. PICK holder \in IsRecordHolder(req[r].who) :
          req' = [req EXCEPT ![r] =
                    [req[r] EXCEPT !.at = "ready", !.recordHolder = holder,
                                   !.snap = EnsureUserSchema(req[r].snap, holder)]]
    BY <1>4 DEF Rank
  <2> DEFINE e == EnsureUserSchema(req[r].snap, holder)
             q == [req[r] EXCEPT !.at = "ready", !.recordHolder = holder, !.snap = e]
  <2> HIDE DEF e
  <2>2. q.who = req[r].who
    <3>1. req[r] \in Requests
      BY <1>0 DEF TypeOK
    <3> QED
      BY <3>1 DEF Requests
  <2>3. req[r].who \in accounts \cup Removable
    BY <1>4 DEF Rank, CountedInv, SnapshotsOfAccounts
  <2> HIDE DEF q
  <2>4. SnapshotsOfAccounts'
    <3>1. req' = [req EXCEPT ![r] = q]
      BY <2>1 DEF q, e
    <3> QED
      BY <1>4, <2>2, <2>3, <3>1, StepKeepsAccounts DEF Rank, store
  <2> QED
    BY <1>1, <1>4, <2>4 DEF Rank, store, history, CountedInv
<1>5. ASSUME NEW r \in Reqs, RegisterInsert(r) PROVE CountedInv'
  <2> DEFINE u == req[r].who
  <2>1. u \in Users /\ accounts' = accounts \cup {u} /\ tally' = tally
    BY <1>0, <1>5 DEF Addressed, RegisterInsert, history
  <2>2. SnapshotsOfAccounts'
    BY <1>5, <2>1, EndKeepsAccounts DEF RegisterInsert
  <2>3. \/ users' = users /\ u \in accounts
        \/ users' = [users EXCEPT ![u] = BuildUserDefaults] /\ u \notin accounts
    BY <1>5 DEF RegisterInsert
  <2>4. AllCounted'
    BY <1>0, <2>1, <2>3 DEF TypeOK, CountedInv, AllCounted, BuildUserDefaults
  <2> QED
    BY <2>2, <2>4 DEF CountedInv
<1>6. ASSUME NEW r \in Reqs, NEW score \in Scores, NEW earned \in Earnings,
             NEW won \in SUBSET Feats, SubmitScore(r, score, earned, won)
      PROVE  CountedInv'
  <2> DEFINE u == req[r].who
             snap == req[r].snap
             unlocked == snap.achievements \cup won
             e == RecordScore(u, snap, score, earned, unlocked)
  <2>1. u \in Users /\ u \in accounts \cup Removable
    BY <1>0, <1>6 DEF Addressed, SubmitScore, CountedInv, SnapshotsOfAccounts
  <2>2. snap \in Documents /\ score \in Nat /\ earned \in Nat
    BY <1>0, <1>6, AccountsAssumption DEF SubmitScore, TypeOK, Requests
  <2>3. ASSUME u \in accounts
        PROVE  /\ e.runs = users[u].runs + 1
               /\ e.bestScore = IF score > users[u].bestScore THEN score ELSE users[u].bestScore
    <3>1. unlocked \in SUBSET Feats
      BY <2>2 DEF Documents
    <3> HIDE DEF u, snap, unlocked
    <3>2. LET found == IF u \in accounts THEN users[u] ELSE snap
          IN  /\ e.runs = found.runs + 1
              /\ e.bestScore = IF score > found.bestScore THEN score ELSE found.bestScore
      <4>1. users \in [Users -> Documents]
        BY <1>0 DEF TypeOK
      <4> QED
        BY <2>1, <2>2, <3>1, <4>1, RecordScoreOf
    <3> HIDE DEF e
    <3> QED
      BY <2>3, <3>2
  <2>4. users' = [users EXCEPT ![u] = e] /\ accounts' = accounts \cup {u}
    BY <1>6 DEF SubmitScore
  <2> HIDE DEF e
  <2>5. /\ tally'[u].runs = tally[u].runs + 1
        /\ tally'[u].best = IF score > tally[u].best THEN score ELSE tally[u].best
        /\ \A v \in Users \ {u} : tally'[v] = tally[v]
    BY <1>0, <1>6, <2>1 DEF SubmitScore, TypeOK
  <2>6. AllCounted'
    <3> SUFFICES ASSUME NEW v \in Users \ Removable
                 PROVE  /\ users'[v].runs = tally'[v].runs
                        /\ users'[v].bestScore = tally'[v].best
                        /\ v \notin accounts' => tally'[v].runs = 0 /\ tally'[v].best = 0
      BY DEF AllCounted
    <3>1. /\ users[v].runs = tally[v].runs
          /\ users[v].bestScore = tally[v].best
          /\ v \notin accounts => tally[v].runs = 0 /\ tally[v].best = 0
      BY DEF CountedInv, AllCounted
    <3>2. users \in [Users -> Documents]
      BY <1>0 DEF TypeOK
    <3>3. CASE v = u
      BY <2>1, <2>3, <2>4, <2>5, <3>1, <3>2, <3>3
    <3>4. CASE v # u
      BY <2>1, <2>4, <2>5, <3>1, <3>2, <3>4
    <3> QED
      BY <3>3, <3>4
  <2>7. SnapshotsOfAccounts'
    BY <1>6, <2>4, EndKeepsAccounts DEF SubmitScore
  <2> QED
    BY <2>6, <2>7 DEF CountedInv
<1>7. ASSUME NEW r \in Reqs, NEW i \in Items, SelectCosmetic(r, i) PROVE CountedInv'
  <2> DEFINE u == req[r].who
             e == [users[u] EXCEPT !.selected = [users[u].selected EXCEPT ![Catalog[i].type] = i]]
  <2>1. u \in Users /\ users[u] \in Documents
    BY <1>0, <1>7 DEF Addressed, SelectCosmetic, TypeOK
  <2>2. e.runs = users[u].runs /\ e.bestScore = users[u].bestScore
    BY <2>1 DEF Documents
  <2>3. users' = users \/ users' = [users EXCEPT ![u] = e]
    BY <1>7 DEF SelectCosmetic
  <2> HIDE DEF e
  <2>4. AllCounted'
    BY <1>7, <2>1, <2>2, <2>3, SameCounters DEF SelectCosmetic, history
  <2>5. SnapshotsOfAccounts'
    BY <1>7, EndKeepsAccounts DEF SelectCosmetic
  <2> QED
    BY <2>4, <2>5 DEF CountedInv
<1>8. ASSUME NEW r \in Reqs, NEW i \in Items, Purchase(r, i) PROVE CountedInv'
  <2> DEFINE u == req[r].who
             snap == req[r].snap
             e == PurchaseUnlockable(users[u], snap, i)
  <2>1. u \in Users /\ users[u] \in Documents /\ snap \in Documents
    BY <1>0, <1>8 DEF Addressed, Purchase, TypeOK, Requests
  <2>2. e.runs = users[u].runs /\ e.bestScore = users[u].bestScore
    BY <1>8, <2>1, PurchaseUnlockableOf DEF Purchase
  <2>3. users' = users \/ users' = [users EXCEPT ![u] = e]
    BY <1>8 DEF Purchase
  <2> HIDE DEF e
  <2>4. AllCounted'
    BY <1>8, <2>1, <2>2, <2>3, SameCounters DEF Purchase
  <2>5. SnapshotsOfAccounts'
    BY <1>8, EndKeepsAccounts DEF Purchase
  <2> QED
    BY <2>4, <2>5 DEF CountedInv
<1>9. ASSUME NEW r \in Reqs, NEW u \in Users, NEW t \in Txns, OfferFind(r, u, t)
      PROVE  CountedInv'
  <2> DEFINE q == [Idle EXCEPT !.at = "offer", !.who = u, !.txn = t]
  <2>1. q.at = "offer"
    BY DEF Idle
  <2>2. SnapshotsOfAccounts'
    BY <1>9, <2>1, StepKeepsAccounts DEF OfferFind, store
  <2> QED
    BY <1>1, <1>9, <2>2 DEF OfferFind, store, history, CountedInv
<1>10. ASSUME NEW r \in Reqs, NEW step \in {"credit", "undo"}, Proceed(r, step),
              UNCHANGED accounts
       PROVE  SnapshotsOfAccounts'
  <2> DEFINE q == [req[r] EXCEPT !.at = step]
  <2>1. q.at = step
    BY <1>0 DEF TypeOK, Requests
  <2>2. req' = [req EXCEPT ![r] = q]
    BY <1>10 DEF Proceed
  <2> HIDE DEF q
  <2> QED
    BY <1>10, <2>1, <2>2, StepKeepsAccounts
<1>11. ASSUME NEW r \in Reqs, OfferInsert(r) PROVE CountedInv'
  <2>1. SnapshotsOfAccounts'
    BY <1>10, <1>11, EndKeepsAccounts DEF OfferInsert
  <2> QED
    BY <1>1, <1>11, <2>1 DEF OfferInsert, history, CountedInv
<1>12. ASSUME NEW r \in Reqs, OfferCredit(r) PROVE CountedInv'
  <2> DEFINE u == req[r].who
             e == Credited(users[u], Reward[req[r].txn])
  <2>1. u \in Users /\ users[u] \in Documents /\ Reward[req[r].txn] \in Nat
    BY <1>0, <1>12, AccountsAssumption DEF Addressed, OfferCredit, TypeOK
  <2>2. e.runs = users[u].runs /\ e.bestScore = users[u].bestScore
    BY <2>1, CreditedOf
  <2>3. users' = users \/ users' = [users EXCEPT ![u] = e]
    BY <1>12 DEF OfferCredit
  <2> HIDE DEF e
  <2>4. AllCounted'
    BY <1>12, <2>1, <2>2, <2>3, SameCounters DEF OfferCredit
  <2>5. SnapshotsOfAccounts'
    BY <1>10, <1>12, EndKeepsAccounts DEF OfferCredit
  <2> QED
    BY <2>4, <2>5 DEF CountedInv
<1>13. ASSUME NEW r \in Reqs, OfferUndo(r) \/ OfferFails(r) \/ EndWithoutWrite(r)
       PROVE  CountedInv'
  <2>1. Respond(r) /\ UNCHANGED <<accounts, users, tally>>
    BY <1>13 DEF OfferUndo, OfferFails, EndWithoutWrite, store, history
  <2> QED
    BY <1>1, <2>1, EndKeepsAccounts DEF CountedInv
<1>14. ASSUME NEW u \in Users, RemoveAccount(u) PROVE CountedInv'
  <2>1. u \in Removable /\ accounts' = accounts \ {u} /\ UNCHANGED <<req, tally>>
    BY <1>14 DEF RemoveAccount, history
  <2>2. \A v \in Users \ Removable : users'[v] = users[v]
    BY <1>0, <1>14, <2>1 DEF RemoveAccount, TypeOK
  <2> QED
    BY <2>1, <2>2 DEF CountedInv, SnapshotsOfAccounts, AllCounted
<1>15. CASE UNCHANGED vars
  BY <1>15 DEF vars, CountedInv, SnapshotsOfAccounts, AllCounted
<1> QED
  BY <1>2, <1>3, <1>4, <1>5, <1>6, <1>7, <1>8, <1>9, <1>11, <1>12, <1>13, <1>14, <1>15
  DEF Next

\* No recorded run is lost, however registrations, scores and purchases of an
\* account overlap: its counters are those of all the runs the server recorded
\* (recordScore and upsertUser, which does not reset a document it finds).
THEOREM NoRunIsLost == Spec => []RunsAreCounted
<1>1. WellFormed /\ CountedInv => RunsAreCounted
  BY DEF WellFormed, TypeOK, CountedInv, AllCounted, RunsAreCounted
<1> QED
  BY <1>1, CountedInvInit, CountedInvStep, AlwaysWellFormed, PTL DEF Spec
-----------------------------------------------------------------------------
(***************************************************************************)
(* One request at a time.  A snapshot is then as fresh as the document, so *)
(* that what is written back overwrites nothing: the accounts that nobody  *)
(* removes are a ledger.                                                   *)
(***************************************************************************)

LoneRequest == \A r, q \in Reqs : r = q

SnapshotsFresh ==
  \A r \in Reqs : HoldsSnapshot(r) /\ req[r].who \in Kept =>
    LET d == users[req[r].who]
        s == req[r].snap
    IN  /\ req[r].who \in accounts
        /\ \A c \in Currencies : Balance(s, c) = Balance(d, c)
        /\ s.ownedUnlockables = d.ownedUnlockables
        /\ d.achievements \subseteq s.achievements

NewAreEmpty == \A u \in Kept \ accounts : users[u] = BuildUserDefaults

AllConserved ==
  \A u \in Kept, c \in Currencies :
    Balance(users[u], c) + Worth[c][users[u].ownedUnlockables] = granted[u][c]

LoneInv == SnapshotsFresh /\ NewAreEmpty /\ AllConserved

(* What a step does to the accounts that are kept. *)

\* Document e has what document d has, in wallet and inventory, and forgets nothing.
SameHoldings(d, e) ==
  /\ \A c \in Currencies : Balance(e, c) = Balance(d, c)
  /\ e.ownedUnlockables = d.ownedUnlockables
  /\ d.achievements \subseteq e.achievements

SameOpen == accounts' \cap Kept = accounts \cap Kept

Untouched(u) == users'[u] = users[u] /\ granted'[u] = granted[u]

Still ==
  /\ SameOpen
  /\ \A u \in Kept : SameHoldings(users[u], users'[u]) /\ granted'[u] = granted[u]

Opened(u) ==
  /\ u \notin accounts
  /\ accounts' \cap Kept = (accounts \cap Kept) \cup {u}
  /\ \A v \in Kept : Untouched(v)

PaidIn(u, c, n) ==
  /\ u \in accounts /\ SameOpen
  /\ \A v \in Kept \ {u} : Untouched(v)
  /\ \A x \in Currencies :
       /\ Balance(users'[u], x) = Balance(users[u], x) + (IF x = c THEN n ELSE 0)
       /\ granted'[u][x] = granted[u][x] + (IF x = c THEN n ELSE 0)
  /\ users'[u].ownedUnlockables = users[u].ownedUnlockables
  /\ users[u].achievements \subseteq users'[u].achievements

SoldTo(u, i) ==
  /\ u \in accounts /\ SameOpen
  /\ \A v \in Kept \ {u} : Untouched(v)
  /\ i \in Purchasable \ users[u].ownedUnlockables
  /\ \A x \in Currencies : /\ PriceIn(x, i) \in Nat
                           /\ Balance(users'[u], x) = Balance(users[u], x) - PriceIn(x, i)
  /\ users'[u].ownedUnlockables = users[u].ownedUnlockables \cup {i}
  /\ users[u].achievements \subseteq users'[u].achievements
  /\ granted'[u] = granted[u]

LedgerStep ==
  \/ Still
  \/ \E u \in Kept : Opened(u)
  \/ \E u \in Kept, c \in Currencies, n \in Nat : PaidIn(u, c, n)
  \/ \E u \in Kept, i \in Purchasable : SoldTo(u, i)

LEMMA KeptAreUsers == Kept \subseteq Users /\ Kept \cap Removable = {}
BY DEF Kept

LEMMA SameDocument ==
  ASSUME NEW d PROVE SameHoldings(d, d)
BY DEF SameHoldings

LEMMA NothingMoves ==
  ASSUME UNCHANGED <<accounts, users, granted>>
  PROVE  Still
BY SameDocument DEF Still, SameOpen

\* A step that writes one document and the account's grants.
LEMMA OthersUntouched ==
  ASSUME WellFormed, NEW u \in Users, NEW e, NEW g,
         users' = users \/ users' = [users EXCEPT ![u] = e],
         granted' = granted \/ granted' = [granted EXCEPT ![u] = g]
  PROVE  \A v \in Kept \ {u} : Untouched(v)
BY KeptAreUsers DEF WellFormed, TypeOK, Untouched

LEMMA RemovableIsStill ==
  ASSUME \A v \in Kept : Untouched(v), SameOpen
  PROVE  Still
BY SameDocument DEF Untouched, Still

\* The snapshot of the only request, when it writes.
LEMMA FreshSnapshot ==
  ASSUME WellFormed, LoneInv, NEW r \in Reqs, req[r].at = "ready", req[r].who \in Kept
  PROVE  /\ req[r].who \in accounts
         /\ SameHoldings(users[req[r].who], req[r].snap)
BY DEF LoneInv, SnapshotsFresh, HoldsSnapshot, SameHoldings

\* With one request in flight, each step of the accounts is one of the ledger's.
LEMMA LoneStep ==
  ASSUME WellFormed, AccountsInv, LoneInv, [Next]_vars
  PROVE  LedgerStep
<1>0. TypeOK /\ Addressed
  BY DEF WellFormed
<1>1. ASSUME UNCHANGED <<accounts, users, granted>> PROVE LedgerStep
  BY <1>1, NothingMoves DEF LedgerStep
<1>2. ASSUME NEW u \in Users \ Kept, NEW e, NEW g,
             users' = users \/ users' = [users EXCEPT ![u] = e],
             granted' = granted \/ granted' = [granted EXCEPT ![u] = g],
             SameOpen
      PROVE  LedgerStep
  BY <1>2, OthersUntouched, RemovableIsStill DEF LedgerStep
<1>3. ASSUME NEW r \in Reqs, NEW u \in Users, RegisterFind(r, u) \/ GetUserFromReq(r, u)
      PROVE  LedgerStep
  BY <1>1, <1>3 DEF RegisterFind, GetUserFromReq, store, history
<1>4. ASSUME NEW r \in Reqs,
             \/ Rank(r) \/ EndWithoutWrite(r)
             \/ OfferInsert(r) \/ OfferUndo(r) \/ OfferFails(r)
      PROVE  LedgerStep
  BY <1>1, <1>4 DEF Rank, EndWithoutWrite, OfferInsert, OfferUndo, OfferFails, store, history
<1>5. ASSUME NEW r \in Reqs, NEW u \in Users, NEW t \in Txns, OfferFind(r, u, t)
      PROVE  LedgerStep
  BY <1>1, <1>5 DEF OfferFind, store, history
<1>6. ASSUME NEW r \in Reqs, RegisterInsert(r) PROVE LedgerStep
  <2>0. PICK u \in Users : u = req[r].who
    BY <1>0, <1>6 DEF RegisterInsert, Addressed
  <2>1. /\ users' = IF u \in accounts THEN users ELSE [users EXCEPT ![u] = BuildUserDefaults]
        /\ accounts' = accounts \cup {u} /\ granted' = granted
    BY <1>6, <2>0 DEF RegisterInsert, history
  <2>2. CASE u \in accounts
    BY <1>1, <2>1, <2>2
  <2>3. CASE u \notin accounts /\ u \in Kept
    <3>1. users' = users
      BY <1>0, <2>1, <2>3 DEF LoneInv, NewAreEmpty, TypeOK
    <3>2. Opened(u)
      BY <2>1, <2>3, <3>1 DEF Opened, Untouched
    <3> QED
      BY <2>3, <3>2 DEF LedgerStep
  <2>4. CASE u \notin accounts /\ u \notin Kept
    BY <1>2, <2>1, <2>4 DEF SameOpen
  <2> QED
    BY <2>2, <2>3, <2>4
<1>7. ASSUME NEW r \in Reqs, NEW score \in Scores, NEW earned \in Earnings,
             NEW won \in SUBSET Feats, SubmitScore(r, score, earned, won)
      PROVE  LedgerStep
  <2>0. PICK u \in Users, snap \in Documents : u = req[r].who /\ snap = req[r].snap
    BY <1>0, <1>7 DEF SubmitScore, Addressed, TypeOK, Requests
  <2> DEFINE unlocked == snap.achievements \cup won
  <2>1. score \in Nat /\ earned \in Nat /\ unlocked \in SUBSET Feats
    BY AccountsAssumption DEF Documents
  <2>2. users \in [Users -> Documents] /\ granted \in [Users -> [Currencies -> Nat]]
    BY <1>0 DEF TypeOK
  <2>3. PICK e \in Documents : e = RecordScore(u, snap, score, earned, unlocked)
    BY <2>1, <2>2, RecordScoreOf
  <2> DEFINE g == [granted[u] EXCEPT ![Bustercoin] = granted[u][Bustercoin] + earned]
  <2>4. /\ req[r].at = "ready"
        /\ users' = [users EXCEPT ![u] = e] /\ accounts' = accounts \cup {u}
        /\ granted' = [granted EXCEPT ![u] = g]
    BY <1>7, <2>0, <2>3 DEF SubmitScore
  <2>5. CASE u \notin Kept
    <3>1. SameOpen
      BY <2>4, <2>5 DEF SameOpen
    <3> QED
      BY <1>2, <2>4, <2>5, <3>1
  <2>6. CASE u \in Kept
    <3>1. u \in accounts /\ SameHoldings(users[u], snap)
      BY <2>0, <2>4, <2>6, FreshSnapshot
    <3>2. PICK d \in Documents : d = users[u]
      BY <2>2
    <3>3. SameOpen /\ \A v \in Kept \ {u} : Untouched(v)
      BY <2>4, <3>1, OthersUntouched DEF SameOpen
    <3>4. users'[u] = e /\ granted'[u] = g
      BY <2>2, <2>4
    <3>5. \A x \in Currencies : g[x] = granted[u][x] + (IF x = Bustercoin THEN earned ELSE 0)
      BY <2>1, <2>2
    <3>6. d.achievements \subseteq unlocked
      BY <3>1, <3>2 DEF SameHoldings
    <3> HIDE DEF unlocked, g
    <3>7. e.ownedUnlockables = d.ownedUnlockables /\ e.achievements = unlocked
      <4>1. d = IF u \in accounts THEN users[u] ELSE snap
        BY <3>1, <3>2
      <4> QED
        BY <2>1, <2>2, <2>3, <4>1, RecordScoreOf
    <3>8. \A x \in Currencies :
            Balance(e, x) = Balance(d, x) + (IF x = Bustercoin THEN earned ELSE 0)
      BY <2>0, <2>1, <2>3, <2>4, <3>1, <3>2, SubmittedBalance
    <3>9. PaidIn(u, Bustercoin, earned)
      BY <3>1, <3>2, <3>3, <3>4, <3>5, <3>6, <3>7, <3>8 DEF PaidIn
    <3> QED
      BY <2>1, <2>6, <3>9 DEF LedgerStep, Currencies
  <2> QED
    BY <2>5, <2>6
<1>8. ASSUME NEW r \in Reqs, NEW i \in Items, SelectCosmetic(r, i) PROVE LedgerStep
  <2>0. PICK u \in Users : u = req[r].who
    BY <1>0, <1>8 DEF SelectCosmetic, Addressed
  <2>1. PICK d \in Documents : d = users[u]
    BY <1>0 DEF TypeOK
  <2> DEFINE e == [d EXCEPT !.selected = [d.selected EXCEPT ![Catalog[i].type] = i]]
  <2>2. e \in Documents /\ SameHoldings(d, e)
    <3>1. /\ e \in Documents
          /\ e.currencies = d.currencies /\ e.bustercoins = d.bustercoins
          /\ e.ownedUnlockables = d.ownedUnlockables
          /\ e.achievements = d.achievements
      BY DEF Documents
    <3> HIDE DEF e
    <3>2. \A x \in Currencies : Balance(e, x) = Balance(d, x)
      BY <3>1, BalanceOf DEF Currencies
    <3> QED
      BY <3>1, <3>2 DEF SameHoldings
  <2>3. /\ users' = users \/ users' = [users EXCEPT ![u] = e]
        /\ SameOpen /\ granted' = granted
    BY <1>8, <2>0, <2>1 DEF SelectCosmetic, SameOpen, history
  <2> HIDE DEF e
  <2>4. \A v \in Kept \ {u} : Untouched(v)
    BY <2>3, OthersUntouched
  <2>5. u \in Kept => SameHoldings(users[u], users'[u])
    BY <1>0, <2>1, <2>2, <2>3, SameDocument DEF TypeOK
  <2>6. Still
    BY <2>3, <2>4, <2>5, SameDocument DEF Still, Untouched
  <2> QED
    BY <2>6 DEF LedgerStep
<1>9. ASSUME NEW r \in Reqs, NEW i \in Items, Purchase(r, i) PROVE LedgerStep
  <2>0. PICK u \in Users, snap \in Documents : u = req[r].who /\ snap = req[r].snap
    BY <1>0, <1>9 DEF Purchase, Addressed, TypeOK, Requests
  <2>1. PICK d \in Documents : d = users[u]
    BY <1>0 DEF TypeOK
  <2>2. /\ i \in Purchasable /\ i \notin snap.ownedUnlockables
        /\ CanDebit(snap.currencies, Catalog[i].currency, Catalog[i].cost)
    BY <1>9, <2>0 DEF Purchase, Purchasable, IsUnlockSatisfied
  <2>3. PICK e \in Documents : e = PurchaseUnlockable(d, snap, i)
    BY <2>2, PurchaseUnlockableOf
  <2>4. /\ req[r].at = "ready"
        /\ users' = IF u \in accounts THEN [users EXCEPT ![u] = e] ELSE users
        /\ SameOpen /\ granted' = granted
    BY <1>9, <2>0, <2>1, <2>3 DEF Purchase, SameOpen
  <2>5. CASE u \notin Kept
    BY <1>2, <2>4, <2>5
  <2>6. CASE u \in Kept
    <3>1. u \in accounts /\ SameHoldings(d, snap)
      BY <2>0, <2>1, <2>4, <2>6, FreshSnapshot
    <3>2. snap.currencies[Bustercoin] # Absent
      BY <2>0, <2>4 DEF AccountsInv, SnapshotsSound, HoldsSnapshot
    <3>3. \A x \in Currencies : /\ PriceIn(x, i) \in Nat
                                /\ Balance(e, x) = Balance(snap, x) - PriceIn(x, i)
      BY <2>2, <2>3, <3>2, PurchasedBalance
    <3>4. /\ e.ownedUnlockables = snap.ownedUnlockables \cup {i}
          /\ e.achievements = d.achievements
      BY <2>2, <2>3, PurchaseUnlockableOf
    <3>5. users'[u] = e /\ \A v \in Kept \ {u} : Untouched(v)
      BY <1>0, <2>4, <3>1, OthersUntouched DEF TypeOK
    <3>6. SoldTo(u, i)
      BY <2>1, <2>2, <2>4, <3>1, <3>3, <3>4, <3>5 DEF SoldTo, SameHoldings
    <3> QED
      BY <2>2, <2>6, <3>6 DEF LedgerStep
  <2> QED
    BY <2>5, <2>6
<1>10. ASSUME NEW r \in Reqs, OfferCredit(r) PROVE LedgerStep
  <2>0. PICK u \in Users, t \in Txns : u = req[r].who /\ t = req[r].txn
    BY <1>0, <1>10 DEF OfferCredit, Addressed
  <2>1. CASE u \notin accounts
    BY <1>1, <1>10, <2>0, <2>1 DEF OfferCredit
  <2>2. CASE u \in accounts
    <3>1. PICK d \in Documents : d = users[u]
      BY <1>0 DEF TypeOK
    <3>2. PICK n \in Nat : n = Reward[t]
      BY AccountsAssumption
    <3>3. PICK e \in Documents : e = Credited(d, n)
      BY CreditedOf
    <3> DEFINE g == [granted[u] EXCEPT ![Supportcoin] = granted[u][Supportcoin] + n]
    <3>4. /\ users' = [users EXCEPT ![u] = e] /\ granted' = [granted EXCEPT ![u] = g]
          /\ SameOpen
      BY <1>10, <2>0, <2>2, <3>1, <3>2, <3>3 DEF OfferCredit, SameOpen
    <3>5. CASE u \notin Kept
      BY <1>2, <3>4, <3>5
    <3>6. CASE u \in Kept
      <4>1. \A x \in Currencies : g[x] = granted[u][x] + (IF x = Supportcoin THEN n ELSE 0)
        BY <1>0 DEF TypeOK
      <4>2. users'[u] = e /\ granted'[u] = g
        BY <1>0, <3>4 DEF TypeOK
      <4>3. \A v \in Kept \ {u} : Untouched(v)
        BY <3>4, OthersUntouched
      <4> HIDE DEF g
      <4>4. /\ e.ownedUnlockables = d.ownedUnlockables
            /\ e.achievements = d.achievements
            /\ \A x \in Currencies :
                 Balance(e, x) = Balance(d, x) + (IF x = Supportcoin THEN n ELSE 0)
        BY <3>3, CreditedOf, CreditedBalance
      <4>5. PaidIn(u, Supportcoin, n)
        BY <2>2, <3>1, <3>4, <4>1, <4>2, <4>3, <4>4 DEF PaidIn
      <4> QED
        BY <3>6, <4>5 DEF LedgerStep, Currencies
    <3> QED
      BY <3>5, <3>6
  <2> QED
    BY <2>1, <2>2
<1>11. ASSUME NEW u \in Users, RemoveAccount(u) PROVE LedgerStep
  <2>1. u \in Users \ Kept
    BY <1>11, KeptAreUsers DEF RemoveAccount
  <2>2. users' = [users EXCEPT ![u] = BuildUserDefaults] /\ granted' = granted /\ SameOpen
    BY <1>11, <2>1 DEF RemoveAccount, SameOpen, history
  <2> QED
    BY <1>2, <2>1, <2>2
<1>12. CASE UNCHANGED vars
  BY <1>1, <1>12 DEF vars
<1> QED
  BY <1>3, <1>4, <1>5, <1>6, <1>7, <1>8, <1>9, <1>10, <1>11, <1>12 DEF Next

\* The balances of a state are those of its documents.
LEMMA BalancePrimed ==
  \A u \in Users, c \in Currencies : Balance(users[u], c)' = Balance(users'[u], c)
BY DEF Balance, Purse, GetCurrencyBalance, NormalizeCurrencyWallet, BustercoinsOnly, NoWallet

LEMMA LoneInvInit == Init => LoneInv
<1> SUFFICES ASSUME Init PROVE LoneInv
  OBVIOUS
<1>1. SnapshotsFresh
  BY IdleType DEF Init, SnapshotsFresh, HoldsSnapshot
<1>2. NewAreEmpty
  BY KeptAreUsers DEF Init, NewAreEmpty
<1>3. AllConserved
  BY KeptAreUsers DEF Init, AllConserved
<1> QED
  BY <1>1, <1>2, <1>3 DEF LoneInv

\* A step of the ledger conserves what every account was given.
LEMMA ConservedStep ==
  ASSUME WellFormed, WellFormed', AllConserved, LedgerStep
  PROVE  AllConserved'
<1> SUFFICES ASSUME NEW v \in Kept, NEW x \in Currencies
             PROVE  Balance(users'[v], x) + Worth[x][users'[v].ownedUnlockables] = granted'[v][x]
  BY BalancePrimed, KeptAreUsers DEF AllConserved
<1>0. PICK d \in Documents, e \in Documents : d = users[v] /\ e = users'[v]
  BY KeptAreUsers DEF WellFormed, TypeOK
<1>1. /\ Balance(d, x) \in Nat /\ Worth[x][d.ownedUnlockables] \in Nat
      /\ Balance(d, x) + Worth[x][d.ownedUnlockables] = granted[v][x]
  BY <1>0, ValueType DEF AllConserved
<1>2. CASE SameHoldings(d, e) /\ granted'[v] = granted[v]
  BY <1>0, <1>1, <1>2 DEF SameHoldings
<1>3. CASE Untouched(v)
  BY <1>0, <1>2, <1>3, SameDocument DEF Untouched
<1>4. ASSUME NEW c \in Currencies, NEW n \in Nat, PaidIn(v, c, n)
      PROVE  Balance(e, x) + Worth[x][e.ownedUnlockables] = granted'[v][x]
  <2>1. /\ Balance(e, x) = Balance(d, x) + (IF x = c THEN n ELSE 0)
        /\ granted'[v][x] = granted[v][x] + (IF x = c THEN n ELSE 0)
        /\ e.ownedUnlockables = d.ownedUnlockables
    BY <1>0, <1>4 DEF PaidIn
  <2> QED
    BY <1>1, <2>1
<1>5. ASSUME NEW i \in Purchasable, SoldTo(v, i)
      PROVE  Balance(e, x) + Worth[x][e.ownedUnlockables] = granted'[v][x]
  <2>1. /\ i \in Items /\ d.ownedUnlockables \in SUBSET Items
    BY DEF Purchasable, Documents
  <2>2. /\ i \notin d.ownedUnlockables /\ PriceIn(x, i) \in Nat
        /\ Balance(e, x) = Balance(d, x) - PriceIn(x, i)
        /\ e.ownedUnlockables = d.ownedUnlockables \cup {i}
        /\ granted'[v] = granted[v]
    BY <1>0, <1>5 DEF SoldTo
  <2>3. Worth[x][e.ownedUnlockables] = Worth[x][d.ownedUnlockables] + PriceIn(x, i)
    BY <2>1, <2>2, WorthAssumption
  <2> QED
    BY <1>1, <2>2, <2>3
<1>6. CASE Still
  BY <1>0, <1>2, <1>6 DEF Still
<1>7. ASSUME NEW u \in Kept, Opened(u) PROVE Untouched(v)
  BY <1>7 DEF Opened
<1>8. ASSUME NEW u \in Kept, NEW c \in Currencies, NEW n \in Nat, PaidIn(u, c, n), u # v
      PROVE  Untouched(v)
  BY <1>8 DEF PaidIn
<1>9. ASSUME NEW u \in Kept, NEW i \in Purchasable, SoldTo(u, i), u # v
      PROVE  Untouched(v)
  BY <1>9 DEF SoldTo
<1> QED
  BY <1>0, <1>3, <1>4, <1>5, <1>6, <1>7, <1>8, <1>9 DEF LedgerStep

\* Nobody but the handlers of an account writes its document, and none before it is opened.
LEMMA NewStayEmpty ==
  ASSUME WellFormed, LoneInv, [Next]_vars
  PROVE  NewAreEmpty'
<1> SUFFICES ASSUME NEW v \in Kept, v \notin accounts'
             PROVE  users'[v] = BuildUserDefaults
  BY DEF NewAreEmpty
<1>0. TypeOK /\ Addressed /\ v \in Users /\ v \notin Removable
  BY KeptAreUsers DEF WellFormed
<1>1. v \notin accounts => users[v] = BuildUserDefaults
  BY DEF LoneInv, NewAreEmpty
<1>2. CASE UNCHANGED <<accounts, users>>
  BY <1>1, <1>2
<1>3. ASSUME NEW r \in Reqs, RegisterInsert(r) PROVE users'[v] = BuildUserDefaults
  BY <1>0, <1>1, <1>3 DEF RegisterInsert, TypeOK
<1>4. ASSUME NEW r \in Reqs, NEW score \in Scores, NEW earned \in Earnings,
             NEW won \in SUBSET Feats, SubmitScore(r, score, earned, won)
      PROVE  users'[v] = BuildUserDefaults
  <2>1. \E e : users' = [users EXCEPT ![req[r].who] = e]
    BY <1>4 DEF SubmitScore
  <2> QED
    BY <1>0, <1>1, <1>4, <2>1 DEF SubmitScore, TypeOK
<1>5. ASSUME NEW r \in Reqs, NEW i \in Items, SelectCosmetic(r, i) \/ Purchase(r, i)
      PROVE  users'[v] = BuildUserDefaults
  <2>1. users' = users \/ \E e : users' = [users EXCEPT ![req[r].who] = e] /\ req[r].who \in accounts
    BY <1>5 DEF SelectCosmetic, Purchase
  <2>2. accounts' = accounts
    BY <1>5 DEF SelectCosmetic, Purchase
  <2> QED
    BY <1>0, <1>1, <2>1, <2>2 DEF TypeOK
<1>6. ASSUME NEW r \in Reqs, OfferCredit(r) PROVE users'[v] = BuildUserDefaults
  <2>1. users' = users \/ \E e : users' = [users EXCEPT ![req[r].who] = e] /\ req[r].who \in accounts
    BY <1>6 DEF OfferCredit
  <2>2. accounts' = accounts
    BY <1>6 DEF OfferCredit
  <2> QED
    BY <1>0, <1>1, <2>1, <2>2 DEF TypeOK
<1>7. ASSUME NEW u \in Users, RemoveAccount(u) PROVE users'[v] = BuildUserDefaults
  BY <1>0, <1>1, <1>7 DEF RemoveAccount, TypeOK
<1>8. ASSUME NEW r \in Reqs, NEW u \in Users, RegisterFind(r, u) \/ GetUserFromReq(r, u)
      PROVE  UNCHANGED <<accounts, users>>
  BY <1>8 DEF RegisterFind, GetUserFromReq, store
<1>9. ASSUME NEW r \in Reqs,
             \/ Rank(r) \/ EndWithoutWrite(r)
             \/ OfferInsert(r) \/ OfferUndo(r) \/ OfferFails(r)
      PROVE  UNCHANGED <<accounts, users>>
  BY <1>9 DEF Rank, EndWithoutWrite, OfferInsert, OfferUndo, OfferFails, store
<1>10. ASSUME NEW r \in Reqs, NEW u \in Users, NEW t \in Txns, OfferFind(r, u, t)
       PROVE  UNCHANGED <<accounts, users>>
  BY <1>10 DEF OfferFind, store
<1>11. CASE UNCHANGED vars
  BY <1>2, <1>11 DEF vars
<1> QED
  BY <1>2, <1>3, <1>4, <1>5, <1>6, <1>7, <1>8, <1>9, <1>10, <1>11 DEF Next

\* The only snapshot is read anew, normalized, or gone when its request has written.
LEMMA FreshStep ==
  ASSUME LoneRequest, WellFormed, LoneInv, [Next]_vars
  PROVE  SnapshotsFresh'
<1>0. TypeOK /\ Addressed
  BY DEF WellFormed
<1>1. ASSUME NEW r \in Reqs, ~HoldsSnapshot(r)' PROVE SnapshotsFresh'
  BY <1>1 DEF LoneRequest, SnapshotsFresh
<1>2. ASSUME NEW r \in Reqs, Respond(r) PROVE SnapshotsFresh'
  BY <1>1, <1>2, OthersKeepSnapshots
<1>3. ASSUME NEW r \in Reqs, NEW q, req' = [req EXCEPT ![r] = q], q.at \notin {"rank", "ready"}
      PROVE  SnapshotsFresh'
  BY <1>0, <1>1, <1>3 DEF TypeOK, HoldsSnapshot
<1>4. ASSUME NEW r \in Reqs, NEW q \in Requests, req' = [req EXCEPT ![r] = q],
             UNCHANGED users,
             q.who \in Kept => q.who \in accounts' /\ SameHoldings(users[q.who], q.snap)
      PROVE  SnapshotsFresh'
  <2> SUFFICES ASSUME NEW s \in Reqs, HoldsSnapshot(s)', req'[s].who \in Kept
               PROVE  /\ req'[s].who \in accounts'
                      /\ SameHoldings(users'[req'[s].who], req'[s].snap)
    BY BalancePrimed, KeptAreUsers DEF SnapshotsFresh, SameHoldings
  <2>1. req'[s] = q
    BY <1>0, <1>4 DEF LoneRequest, TypeOK
  <2> QED
    BY <1>4, <2>1
<1>5. ASSUME NEW r \in Reqs, NEW u \in Users, RegisterFind(r, u) PROVE SnapshotsFresh'
  <2> DEFINE q == [Idle EXCEPT !.at = "insert", !.who = u]
  <2>1. q.at = "insert"
    BY DEF Idle
  <2> QED
    BY <1>3, <1>5, <2>1 DEF RegisterFind
<1>6. ASSUME NEW r \in Reqs, NEW u \in Users, NEW t \in Txns, OfferFind(r, u, t)
      PROVE  SnapshotsFresh'
  <2> DEFINE q == [Idle EXCEPT !.at = "offer", !.who = u, !.txn = t]
  <2>1. q.at = "offer"
    BY DEF Idle
  <2> QED
    BY <1>3, <1>6, <2>1 DEF OfferFind
<1>7. ASSUME NEW r \in Reqs, NEW step \in {"credit", "undo"}, Proceed(r, step)
      PROVE  SnapshotsFresh'
  <2> DEFINE q == [req[r] EXCEPT !.at = step]
  <2>1. q.at = step /\ req' = [req EXCEPT ![r] = q]
    BY <1>0, <1>7 DEF Proceed, TypeOK, Requests
  <2> QED
    BY <1>3, <1>7, <2>1
<1>8. ASSUME NEW r \in Reqs, NEW u \in Users, GetUserFromReq(r, u) PROVE SnapshotsFresh'
  <2> DEFINE q == [Idle EXCEPT !.at = "rank", !.who = u, !.snap = users[u]]
  <2>1. q \in Requests /\ q.who = u /\ q.snap = users[u]
    BY <1>0, IdleType DEF Requests, Steps, TypeOK
  <2>2. req' = [req EXCEPT ![r] = q] /\ users' = users /\ accounts' = accounts /\ u \in accounts
    BY <1>8 DEF GetUserFromReq, store
  <2> HIDE DEF q
  <2> QED
    BY <1>4, <2>1, <2>2, SameDocument
<1>9. ASSUME NEW r \in Reqs, Rank(r) PROVE SnapshotsFresh'
  <2>0. PICK u \in Users, d \in Documents : u = req[r].who /\ d = req[r].snap
    BY <1>0, <1>9 DEF Rank, Addressed, TypeOK, Requests
  <2>1. PICK holder \in BOOLEAN :
          req' = [req EXCEPT ![r] = [req[r] EXCEPT !.at = "ready",
                                                   !.recordHolder = holder,
                                                   !.snap = EnsureUserSchema(d, holder)]]
    BY <1>9, <2>0 DEF Rank, IsRecordHolder
  <2>2. PICK e \in Documents : e = EnsureUserSchema(d, holder)
    BY EnsureUserSchemaOf
  <2> DEFINE q == [req[r] EXCEPT !.at = "ready", !.recordHolder = holder, !.snap = e]
  <2>3. q \in Requests /\ q.who = u /\ q.snap = e
    BY <1>0, <2>0 DEF TypeOK, Requests, Steps
  <2>4. req' = [req EXCEPT ![r] = q]
    BY <2>1, <2>2
  <2> HIDE DEF q
  <2>5. UNCHANGED <<accounts, users>>
    BY <1>9 DEF Rank, store
  <2>6. SameHoldings(d, e)
    <3>1. Balance(e, Bustercoin) = Balance(d, Bustercoin)
          /\ Balance(e, Supportcoin) = Balance(d, Supportcoin)
      <4>1. e.currencies = Purse(d) /\ e.bustercoins = Balance(d, Bustercoin)
        BY <2>2, EnsureUserSchemaOf
      <4>2. d.bustercoins \in Nat /\ d.currencies \in Wallets
        BY DEF Documents
      <4> QED
        BY <4>1, <4>2, PurseOf, BalanceOf DEF OrElse, Absent
    <3>2. e.ownedUnlockables = d.ownedUnlockables /\ d.achievements \subseteq e.achievements
      BY <2>2, EnsureUserSchemaOf
    <3> QED
      BY <3>1, <3>2 DEF SameHoldings, Currencies
  <2>7. u \in Kept => u \in accounts /\ SameHoldings(users[u], d)
    BY <1>9, <2>0 DEF Rank, LoneInv, SnapshotsFresh, HoldsSnapshot, SameHoldings
  <2>8. u \in Kept => u \in accounts' /\ SameHoldings(users[u], e)
    BY <2>5, <2>6, <2>7 DEF SameHoldings
  <2> QED
    BY <1>4, <2>3, <2>4, <2>5, <2>8
<1>10. ASSUME NEW r \in Reqs,
              RegisterInsert(r) \/ EndWithoutWrite(r) \/ OfferUndo(r) \/ OfferFails(r)
       PROVE  SnapshotsFresh'
  BY <1>2, <1>10 DEF RegisterInsert, EndWithoutWrite, OfferUndo, OfferFails
<1>11. ASSUME NEW r \in Reqs, NEW score \in Scores, NEW earned \in Earnings,
              NEW won \in SUBSET Feats, SubmitScore(r, score, earned, won)
       PROVE  SnapshotsFresh'
  BY <1>2, <1>11 DEF SubmitScore
<1>12. ASSUME NEW r \in Reqs, NEW i \in Items, SelectCosmetic(r, i) \/ Purchase(r, i)
       PROVE  SnapshotsFresh'
  BY <1>2, <1>12 DEF SelectCosmetic, Purchase
<1>13. ASSUME NEW r \in Reqs, OfferInsert(r) \/ OfferCredit(r) PROVE SnapshotsFresh'
  BY <1>2, <1>7, <1>13 DEF OfferInsert, OfferCredit
<1>14. ASSUME UNCHANGED req, \A v \in Kept : users'[v] = users[v],
              accounts \cap Kept \subseteq accounts'
       PROVE  SnapshotsFresh'
  <2> SUFFICES ASSUME NEW s \in Reqs, HoldsSnapshot(s)', req'[s].who \in Kept
               PROVE  /\ req'[s].who \in accounts'
                      /\ SameHoldings(users'[req'[s].who], req'[s].snap)
    BY BalancePrimed, KeptAreUsers DEF SnapshotsFresh, SameHoldings
  <2> QED
    BY <1>14 DEF LoneInv, SnapshotsFresh, HoldsSnapshot, SameHoldings
<1>15. ASSUME NEW u \in Users, RemoveAccount(u) PROVE SnapshotsFresh'
  <2>1. u \notin Kept
    BY <1>15, KeptAreUsers DEF RemoveAccount
  <2> QED
    BY <1>0, <1>14, <1>15, <2>1, KeptAreUsers DEF RemoveAccount, TypeOK
<1>16. CASE UNCHANGED vars
  BY <1>14, <1>16 DEF vars
<1> QED
  BY <1>5, <1>6, <1>8, <1>9, <1>10, <1>11, <1>12, <1>13, <1>15, <1>16 DEF Next

LEMMA LoneInvStep ==
  ASSUME LoneRequest, WellFormed, AccountsInv, LoneInv, [Next]_vars
  PROVE  LoneInv'
<1>1. WellFormed'
  BY NextWellFormed
<1> QED
  BY <1>1, FreshStep, NewStayEmpty, LoneStep, ConservedStep DEF LoneInv

LEMMA AlwaysLoneInv ==
  ASSUME LoneRequest
  PROVE  Spec => []LoneInv
<1>1. WellFormed /\ AccountsInv /\ LoneInv /\ [Next]_vars => LoneInv'
  BY LoneInvStep
<1> QED
  BY <1>1, LoneInvInit, AlwaysWellFormed, AlwaysAccountsInv, PTL DEF Spec

\* While requests come one at a time, the coins an account was given are in its wallet or
\* were spent on what it owns.
THEOREM LoneRequestsConserveCoins ==
  ASSUME LoneRequest
  PROVE  Spec => []CoinsAreConserved
<1>1. WellFormed /\ LoneInv => CoinsAreConserved
  BY DEF WellFormed, TypeOK, LoneInv, AllConserved, CoinsAreConserved, Kept
<1> QED
  BY <1>1, AlwaysLoneInv, AlwaysWellFormed, PTL

\* ... and an account loses nothing it owns or has achieved.
THEOREM LoneRequestsForgetNothing ==
  ASSUME LoneRequest
  PROVE  Spec => NothingForgotten
<1>1. WellFormed /\ AccountsInv /\ LoneInv /\ [Next]_vars =>
        [\A u \in accounts \ Removable :
           /\ u \in accounts'
           /\ users[u].ownedUnlockables \subseteq users'[u].ownedUnlockables
           /\ users[u].achievements \subseteq users'[u].achievements]_vars
  <2> SUFFICES ASSUME WellFormed, AccountsInv, LoneInv, [Next]_vars,
                      NEW u \in accounts \ Removable
               PROVE  /\ u \in accounts'
                      /\ users[u].ownedUnlockables \subseteq users'[u].ownedUnlockables
                      /\ users[u].achievements \subseteq users'[u].achievements
    OBVIOUS
  <2>1. u \in accounts \cap Kept
    BY DEF WellFormed, TypeOK, Kept
  <2>2. LedgerStep
    BY LoneStep
  <2>3. CASE Still
    BY <2>1, <2>3 DEF Still, SameOpen, SameHoldings
  <2>4. ASSUME NEW v \in Kept, Opened(v)
        PROVE  u \in accounts' /\ users'[u] = users[u]
    BY <2>1, <2>4 DEF Opened, Untouched
  <2>5. ASSUME NEW v \in Kept, NEW c \in Currencies, NEW n \in Nat, PaidIn(v, c, n)
        PROVE  /\ u \in accounts'
               /\ users[u].ownedUnlockables \subseteq users'[u].ownedUnlockables
               /\ users[u].achievements \subseteq users'[u].achievements
    BY <2>1, <2>5 DEF PaidIn, SameOpen, Untouched
  <2>6. ASSUME NEW v \in Kept, NEW i \in Purchasable, SoldTo(v, i)
        PROVE  /\ u \in accounts'
               /\ users[u].ownedUnlockables \subseteq users'[u].ownedUnlockables
               /\ users[u].achievements \subseteq users'[u].achievements
    BY <2>1, <2>6 DEF SoldTo, SameOpen, Untouched
  <2> QED
    BY <2>2, <2>3, <2>4, <2>5, <2>6 DEF LedgerStep
<1> QED
  BY <1>1, AlwaysLoneInv, AlwaysAccountsInv, AlwaysWellFormed, PTL DEF Spec, NothingForgotten

\* The refinement.  What the ledger shows of the accounts ...
Open == accounts \cap Kept
Purses == [u \in Kept |-> [c \in Currencies |-> Balance(users[u], c)]]
Inventories == [u \in Kept |-> users[u].ownedUnlockables]

\* The ledger of the refinement has the currencies and the catalog of the accounts.
LEMMA LedgerConstants == Ledger!Currencies = Currencies /\ Ledger!Purchasable = Purchasable
BY DEF Ledger!Currencies, Ledger!Bustercoin, Ledger!Supportcoin, Currencies, Bustercoin,
       Supportcoin, Ledger!Purchasable, Purchasable

LEMMA LedgerInit == Init => Ledger!Init
<1> SUFFICES ASSUME Init PROVE Ledger!Init
  OBVIOUS
<1>1. WellFormed
  BY InitWellFormed
<1>2. \A u \in Kept : users[u] \in Documents /\ users[u].ownedUnlockables \subseteq Purchasable
  BY <1>1, OpeningAssumption, KeptAreUsers DEF Init, WellFormed, TypeOK, BuildUserDefaults
<1>3. \A u \in Kept, c \in Currencies : Balance(users[u], c) \in Nat
  BY <1>2, BalanceOf
<1> QED
  BY <1>2, <1>3, LedgerConstants DEF Ledger!Init

\* ... changes as the ledger's actions say.
LEMMA LedgerNext ==
  ASSUME WellFormed, WellFormed', LedgerStep
  PROVE  Ledger!Next \/ UNCHANGED <<Open, Purses, Inventories>>
<1>1. Purses' = [u \in Kept |-> [c \in Currencies |-> Balance(users'[u], c)]]
  BY BalancePrimed, KeptAreUsers DEF Purses
<1>2. /\ Inventories' = [u \in Kept |-> users'[u].ownedUnlockables]
      /\ Open' = accounts' \cap Kept
  BY DEF Inventories, Open
<1>3. \A u \in Kept, c \in Currencies :
        Balance(users[u], c) \in Nat /\ Balance(users'[u], c) \in Nat
  BY KeptAreUsers, BalanceOf DEF WellFormed, TypeOK
<1>4. CASE Still
  <2>1. Purses' = Purses /\ Inventories' = Inventories /\ Open' = Open
    BY <1>1, <1>2, <1>4 DEF Still, SameOpen, SameHoldings, Purses, Inventories, Open
  <2> QED
    BY <2>1
<1>5. ASSUME NEW u \in Kept, Opened(u) PROVE Ledger!Open(u)
  <2>1. Purses' = Purses /\ Inventories' = Inventories /\ Open' = Open \cup {u} /\ u \notin Open
    BY <1>1, <1>2, <1>5 DEF Opened, Untouched, Purses, Inventories, Open
  <2> QED
    BY <2>1 DEF Ledger!Open, Purses, Inventories, Open
<1>6. ASSUME NEW u \in Kept, NEW c \in Currencies, NEW n \in Nat, PaidIn(u, c, n)
      PROVE  Ledger!Grant(u, c)
  <2>1. Open' = Open /\ u \in Open /\ Inventories' = Inventories
    BY <1>2, <1>6 DEF PaidIn, SameOpen, Untouched, Inventories, Open
  <2>2. Purses'[u][c] >= Purses[u][c]
    BY <1>1, <1>3, <1>6 DEF PaidIn, Purses
  <2>3. Purses' = [Purses EXCEPT ![u] = [Purses[u] EXCEPT ![c] = Purses'[u][c]]]
    <3>1. \A x \in Currencies \ {c} : Balance(users'[u], x) = Balance(users[u], x)
      BY <1>3, <1>6 DEF PaidIn
    <3>2. \A v \in Kept \ {u} : users'[v] = users[v]
      BY <1>6 DEF PaidIn, Untouched
    <3> QED
      BY <1>1, <3>1, <3>2 DEF Purses
  <2> QED
    BY <2>1, <2>2, <2>3 DEF Ledger!Grant, Purses, Inventories, Open
<1>7. ASSUME NEW u \in Kept, NEW i \in Purchasable, SoldTo(u, i)
      PROVE  Ledger!Buy(u, i)
  <2> DEFINE c == Catalog[i].currency
             cost == Catalog[i].cost
  <2>1. /\ Open' = Open /\ u \in Open
        /\ Inventories' = [Inventories EXCEPT ![u] = Inventories[u] \cup {i}]
        /\ i \in Purchasable \ Inventories[u]
    BY <1>2, <1>7 DEF SoldTo, SameOpen, Untouched, Inventories, Open
  <2>2. c \in Currencies /\ cost \in Nat
    BY CatalogAssumption DEF Purchasable, Definitions
  <2>3. \A x \in Currencies :
          Balance(users'[u], x) = Balance(users[u], x) - (IF x = c THEN cost ELSE 0)
    BY <1>7 DEF SoldTo, PriceIn
  <2>4. \A v \in Kept \ {u} : users'[v] = users[v]
    BY <1>7 DEF SoldTo, Untouched
  <2> HIDE DEF c, cost
  <2>5. Purses[u][c] >= cost
    BY <1>3, <2>2, <2>3 DEF Purses
  <2>6. Purses' = [Purses EXCEPT ![u] = [Purses[u] EXCEPT ![c] = Purses[u][c] - cost]]
    <3>1. \A x \in Currencies \ {c} : Balance(users'[u], x) = Balance(users[u], x)
      BY <1>3, <2>3
    <3>2. Balance(users'[u], c) = Balance(users[u], c) - cost
      BY <2>2, <2>3
    <3> QED
      BY <1>1, <2>2, <2>4, <3>1, <3>2 DEF Purses
  <2> QED
    BY <2>1, <2>5, <2>6, LedgerConstants DEF Ledger!Buy, Purses, Inventories, Open, c, cost
<1> QED
  <2>1. Purchasable \subseteq Items
    BY DEF Purchasable
  <2> QED
    BY <1>4, <1>5, <1>6, <1>7, <2>1, LedgerConstants
    DEF LedgerStep, Ledger!Next, Purses, Inventories, Open

\* While requests come one at a time, the accounts nobody removes implement the ledger:
\* coins come in as granted and leave only for what is then owned for good.
THEOREM LoneRequestsKeepALedger ==
  ASSUME LoneRequest
  PROVE  Spec => ExactLedger
<1>1. WellFormed /\ AccountsInv /\ LoneInv /\ [Next]_vars => [Ledger!Next]_(Ledger!ledger)
  BY NextWellFormed, LoneStep, LedgerNext DEF Ledger!ledger, Open, Purses, Inventories
<1> QED
  BY <1>1, LedgerInit, AlwaysLoneInv, AlwaysAccountsInv, AlwaysWellFormed, PTL
  DEF Spec, ExactLedger, Ledger!Spec
=============================================================================
