------------------------------- MODULE Ledger -------------------------------
(***************************************************************************)
(* What a player may expect of an account: money comes in as it is granted *)
(* and goes out only for an item that is then owned for good.  This is the *)
(* abstract specification of the wallets and inventories of module         *)
(* Accounts.                                                               *)
(***************************************************************************)
EXTENDS Unlockables

CONSTANT Users

VARIABLES open, balance, owned

ledger == <<open, balance, owned>>

Init ==
  /\ open \subseteq Users
  /\ balance \in [Users -> [Currencies -> Nat]]
  /\ owned \in [Users -> SUBSET Purchasable]

Open(u) ==
  /\ u \notin open
  /\ open' = open \cup {u}
  /\ UNCHANGED <<balance, owned>>

Grant(u, c) ==
  /\ u \in open
  /\ balance'[u][c] >= balance[u][c]
  /\ balance' = [balance EXCEPT ![u][c] = balance'[u][c]]
  /\ UNCHANGED <<open, owned>>

Buy(u, i) ==
  LET c == Catalog[i].currency
  IN  /\ u \in open
      /\ i \in Purchasable \ owned[u]
      /\ balance[u][c] >= Catalog[i].cost
      /\ balance' = [balance EXCEPT ![u][c] = @ - Catalog[i].cost]
      /\ owned' = [owned EXCEPT ![u] = @ \cup {i}]
      /\ UNCHANGED open

Next ==
  \/ \E u \in Users : Open(u)
  \/ \E u \in Users, c \in Currencies : Grant(u, c)
  \/ \E u \in Users, i \in Items : Buy(u, i)

Spec == Init /\ [][Next]_ledger
=============================================================================
