--------------------------- MODULE PortfolioMargin -------------------------
(***************************************************************************)
(* frontend/src/components/PortfolioMargin.tsx: deposits and withdrawals,  *)
(* and the figures computed from them.  A transfer checks its amount,      *)
(* awaits a timer, and then adds or subtracts.                             *)
(***************************************************************************)
EXTENDS Balance, EventLoop, MarginSummary

CONSTANTS TypedAmounts,         \* what is typed; may be zero or negative
          QuickAmounts,         \* the quick buttons
          NoAmount,             \* an empty input
          MaxDeposited          \* bound: deposits accepted

ASSUME PortfolioAssumption ==
  /\ TypedAmounts \subseteq Int /\ QuickAmounts \subseteq Nat
  /\ NoAmount \notin Int

VARIABLE portfolio      \* the page's state, and its connect() promises

PortfolioStart ==
  [tab |-> "deposit", depositAmount |-> NoAmount, withdrawAmount |-> NoAmount,
   depositedTotal |-> 0, txLoading |-> FALSE, txMessage |-> "none", prompts |-> 0]

Messages == {"none", "connect first", "insufficient", "deposited", "withdrew"}

PortfolioState ==
  [tab : {"deposit", "withdraw"}, depositAmount : Int \cup {NoAmount},
   withdrawAmount : Int \cup {NoAmount}, depositedTotal : Nat, txLoading : BOOLEAN,
   txMessage : Messages, prompts : Nat]

(* Mutated form: what a connected wallet has deposited is not counted. *)
totalEquityOfWallet ==
  IF wallet.connected THEN wallet.accountEquity ELSE summary.totalEquity + portfolio.depositedTotal

(* The real equity when a wallet is connected, else the mock account's. *)
totalEquity ==
  (IF wallet.connected THEN wallet.accountEquity ELSE summary.totalEquity) + portfolio.depositedTotal

(* The rows of the page's Account Summary; the ratio is a percentage. *)
accountSummary ==
  [walletBalance |-> wallet.accountEquity,
   deposited |-> portfolio.depositedTotal,
   totalEquity |-> totalEquity,
   availableMargin |-> summary.availableBalance + portfolio.depositedTotal,
   usedMargin |-> summary.initialMargin,
   healthRatio |->
     (100 * totalEquity) \div
       (IF summary.maintenanceMargin > 1 THEN summary.maintenanceMargin ELSE 1)]

(* String(wallet.accountEquity), String(summary.availableBalance) *)
MaxAmount == IF portfolio.tab = "deposit" THEN wallet.accountEquity ELSE summary.availableBalance

SetTab(t) == portfolio' = [portfolio EXCEPT !.tab = t, !.txMessage = "none"]

(* The input, the quick buttons and MAX all write the shown tab's field. *)
SetAmount(amount) ==
  portfolio' = IF portfolio.tab = "deposit"
               THEN [portfolio EXCEPT !.depositAmount = amount]
               ELSE [portfolio EXCEPT !.withdrawAmount = amount]

(* Either handler with no wallet: whatever the wallet answers, the user    *)
(* is told to try again, unless connect() throws.                          *)
PromptWallet ==
  /\ ~connected
  /\ portfolio' = [portfolio EXCEPT !.prompts = @ + 1]

WalletAnswers ==
  /\ portfolio.prompts > 0
  /\ \E message \in {"connect first", portfolio.txMessage} :
       portfolio' = [portfolio EXCEPT !.prompts = @ - 1, !.txMessage = message]

Positive(amount) == amount # NoAmount /\ amount > 0

(* A real build does nothing between setTxLoading(true) and (false). *)
TransferNothing ==
  /\ ~demoMode
  /\ portfolio' = [portfolio EXCEPT !.txMessage = "none"]
  /\ UNCHANGED timers

StartTransfer(kind, amount) ==
  /\ demoMode
  /\ SetTimeout(kind, 1400, amount)
  /\ portfolio' = [portfolio EXCEPT !.txLoading = TRUE, !.txMessage = "none"]

handleDeposit(amount) ==
  /\ connected /\ Positive(amount)
  /\ portfolio.depositedTotal + amount <= MaxDeposited
  /\ StartTransfer("deposit", amount) \/ TransferNothing

Insufficient(amount) ==
  /\ connected /\ Positive(amount) /\ amount > portfolio.depositedTotal
  /\ portfolio' = [portfolio EXCEPT !.txMessage = "insufficient"]
  /\ UNCHANGED timers

(* In a real build, where nothing is ever deposited, nothing gets here. *)
handleWithdraw(amount) ==
  /\ connected /\ Positive(amount) /\ amount <= portfolio.depositedTotal
  /\ StartTransfer("withdraw", amount)

(* Mutated form: the button works while a transfer is processed. *)
TransferEnabledAlways == TRUE

(* One button for both tabs, disabled={txLoading}. *)
TransferEnabled == ~portfolio.txLoading

ClickTransfer ==
  /\ TransferEnabled
  /\ Len(timers) + portfolio.prompts < MaxPending
  /\ \/ PromptWallet /\ UNCHANGED timers
     \/ portfolio.tab = "deposit" /\ handleDeposit(portfolio.depositAmount)
     \/ portfolio.tab = "withdraw" /\ Insufficient(portfolio.withdrawAmount)
     \/ portfolio.tab = "withdraw" /\ handleWithdraw(portfolio.withdrawAmount)

Deposited(i) ==
  /\ Fires(i, "deposit")
  /\ portfolio' = [portfolio EXCEPT
       !.depositedTotal = @ + timers[i].arg,
       !.txMessage = "deposited", !.depositAmount = NoAmount, !.txLoading = FALSE]

Withdrew(i) ==
  /\ Fires(i, "withdraw")
  /\ portfolio' = [portfolio EXCEPT
       !.depositedTotal = @ - timers[i].arg,
       !.txMessage = "withdrew", !.withdrawAmount = NoAmount, !.txLoading = FALSE]

UserTransfers ==
  \/ ClickTransfer /\ UNCHANGED balance
  \/ /\ \/ \E t \in {"deposit", "withdraw"} : SetTab(t)
        \/ \E a \in TypedAmounts \cup QuickAmounts \cup {NoAmount, MaxAmount} : SetAmount(a)
     /\ UNCHANGED <<balance, timers>>

PortfolioNext ==
  \/ UserTransfers
  \/ WalletAnswers /\ UNCHANGED <<balance, timers>>
  \/ \E i \in DOMAIN timers : (Deposited(i) \/ Withdrew(i)) /\ UNCHANGED balance
  \/ BalanceNext /\ UNCHANGED <<portfolio, timers>>
=============================================================================
