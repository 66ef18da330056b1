------------------------------- MODULE Wallet -------------------------------
(***************************************************************************)
(* The multi-currency wallet of services/currency.cjs.  A wallet is the    *)
(* `currencies` object of a user document: a partial map from currency ids *)
(* to balances.  A field the object does not have is Absent, and a         *)
(* document without the object at all holds NoWallet.                      *)
(***************************************************************************)
EXTENDS Integers

Bustercoin == "bustercoin"
Supportcoin == "supportcoin"
Currencies == {Bustercoin, Supportcoin}

Absent == -1
Wallets == [Currencies -> Nat \cup {Absent}]
NoWallet == [c \in Currencies |-> Absent]

\* A wallet whose only field is its balance of bustercoins.
BustercoinsOnly(n) == [NoWallet EXCEPT ![Bustercoin] = n]

OrElse(field, default) == IF field = Absent THEN default ELSE field

(***************************************************************************)
(* The wallet's own fields win over the fallback's; a wallet that would    *)
(* have no field at all gets a zero balance of the default currency.       *)
(***************************************************************************)
NormalizeCurrencyWallet(wallet, fallback) ==
  LET merged == [c \in Currencies |-> OrElse(wallet[c], fallback[c])]
  IN  IF merged = NoWallet THEN BustercoinsOnly(0) ELSE merged

GetCurrencyBalance(wallet, currency) ==
  OrElse(NormalizeCurrencyWallet(wallet, NoWallet)[currency], 0)

CanDebit(wallet, currency, cost) ==
  GetCurrencyBalance(wallet, currency) >= cost

\* Mutant: every price is taken from the default currency.
DebitDefault(wallet, currency, cost) ==
  [NormalizeCurrencyWallet(wallet, NoWallet)
     EXCEPT ![Bustercoin] = GetCurrencyBalance(wallet, Bustercoin) - cost]

DebitCurrency(wallet, currency, cost) ==
  [NormalizeCurrencyWallet(wallet, NoWallet)
     EXCEPT ![currency] = GetCurrencyBalance(wallet, currency) - cost]
=============================================================================
