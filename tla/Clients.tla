------------------------------- MODULE Clients -----------------------------
(***************************************************************************)
(* The frontend's two clients of the outside, side by side: the price      *)
(* feeds, which a server pushes to, and the account equity of the          *)
(* exchange's header (ExchangeApp.tsx), which is polled.  The header is    *)
(* mounted again whenever the user comes back from the landing page.       *)
(***************************************************************************)
EXTENDS TradeFeed, Balance

headerVars == <<address, balance>>

(* The header's figure. *)
shownEquity == wallet.accountEquity

HeaderMounts == balance' = BalanceMounted /\ UNCHANGED address

WalletSwitches(a) == SwitchAddress(a) /\ BalanceEffect(a)

HeaderNext ==
  \/ HeaderMounts
  \/ BalanceNext /\ UNCHANGED address
  \/ \E a \in Addresses \cup {NoAddress} : WalletSwitches(a)

ClientsInit ==
  /\ Init
  /\ WalletInit
  /\ balance = BalanceMounted

ClientsNext ==
  \/ Next /\ UNCHANGED headerVars
  \/ HeaderNext /\ UNCHANGED vars

(* The interval of the poll keeps ticking, and of the requests for one      *)
(* address that are sent again and again one succeeds.                      *)
Succeeds(a) == BalanceAnswered(a, TRUE) /\ UNCHANGED address

ClientsSpec ==
  /\ ClientsInit /\ [][ClientsNext]_<<vars, headerVars>>
  /\ \A f \in Feeds, t \in Slots : WF_vars(Reconnect(f, t))
  /\ WF_headerVars(Poll /\ UNCHANGED address)
  /\ \A a \in Addresses : SF_headerVars(Succeeds(a))

(* The equity catches up with the wallet: while one address stays           *)
(* connected its own balance is shown again and again, whatever late        *)
(* answers for other addresses, failures and remounts come in between.      *)
EquityCatchesUp ==
  \A a \in Addresses : <>[](address = a) => []<>(shownEquity = BankBalance[a])
=============================================================================
