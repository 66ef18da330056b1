----------------------------- MODULE MCAccounts -----------------------------
(***************************************************************************)
(* Small instances of Accounts.  The catalog has the free cosmetic of each *)
(* type, a trail that comes with a score, the record holder's trail, and   *)
(* one cosmetic for sale in each currency.                                 *)
(***************************************************************************)
EXTENDS Accounts, FiniteSetsExt, TLC

CONSTANTS feat, none

Free(type) ==
  [type |-> type, unlock |-> "free", minScore |-> Absent, feat |-> none,
   cost |-> 0, currency |-> Bustercoin]

ForSale(type, currency, cost) ==
  [Free(type) EXCEPT !.unlock = "purchase", !.currency = currency, !.cost = cost]

FullCatalog ==
  [classic |-> Free(Trail),
   orange |-> Free("player_texture"),
   basic |-> Free("pipe_texture"),
   ember |-> [Free(Trail) EXCEPT !.unlock = "achievement", !.minScore = 2, !.feat = feat],
   record |-> [Free(Trail) EXCEPT !.unlock = "record", !.minScore = 1],
   disco |-> ForSale("pipe_texture", Bustercoin, 1),
   supporter |-> ForSale("player_texture", Supportcoin, 1)]

MCCatalog == [i \in Items |-> FullCatalog[i]]

MCFallback ==
  [t \in Types |-> CHOOSE i \in Items : Catalog[i].type = t /\ Catalog[i].unlock = "free"]

MCWorth ==
  [c \in Currencies |-> [S \in SUBSET Items |->
     MapThenSumSet(LAMBDA i : PriceIn(c, i), S)]]

\* A player of today, and one from before there were currencies.
Today == [BuildUserDefaults EXCEPT !.bustercoins = 1, !.currencies[Bustercoin] = 1]
Legacy == [BuildUserDefaults EXCEPT !.bustercoins = 1, !.currencies = NoWallet]

MCOpening == {Today, Legacy}
Veteran == {[Legacy EXCEPT !.achievements = Feats]}

Reward1 == [t \in Txns |-> 1]
=============================================================================
