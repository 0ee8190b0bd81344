----------------------------- MODULE ExchangeApp ---------------------------
(***************************************************************************)
(* The frontend as a whole: App.tsx, the landing page's handleEnter and    *)
(* ExchangeApp.tsx, over one mounted page at a time.                       *)
(*                                                                         *)
(* A page keeps its state in its components: it starts afresh whenever it  *)
(* is mounted, and whatever it still awaits when it is unmounted has no    *)
(* effect on a page.  An order that is being submitted goes on to the      *)
(* network without it.  The 150 ms in which a page that is left fades out, *)
(* still working, are left out.                                            *)
(***************************************************************************)
EXTENDS TradingTerminal, PortfolioMargin

CONSTANT MaxEntering    \* bound: clicks on "Enter Platform" pending

ASSUME ExchangeAssumption == DemoModes \subseteq BOOLEAN

(* The entries of NAV: three of them lead to no page yet. *)
Views ==
  {"trading", "portfolio", "subaccounts", "risk", "funding", "activity", "settings", "admin"}

(* The tabs of the subaccounts page, and the sections of the admin console. *)
ActiveTabs == {"accounts", "roles"}
Sections == {"markets", "oracles", "risk", "users"}

VARIABLES view,         \* App: "landing" or "app"
          activeView,   \* ExchangeApp: the page mounted, "none" on the landing page
          sidebarCollapsed,
          activeTab,    \* the tab or section its page shows
          entering      \* handleEnter calls that await connect()

portfolioVars == <<balance, portfolio>>
pageVars == <<activeView, activeTab, timers, left, tradingVars, portfolioVars>>
appVars == <<view, sidebarCollapsed, pageVars>>
envVars == <<address, demoMode>>
vars == <<envVars, entering, appVars>>

FirstTab(p) ==
  CASE p = "subaccounts" -> "accounts" [] p = "admin" -> "markets" [] OTHER -> "none"

Init ==
  /\ WalletInit
  /\ demoMode \in DemoModes
  /\ timers = <<>> /\ left = <<>>
  /\ markets = MarketsStart /\ positions = MockPositions /\ orders = OrdersStart
  /\ form = FormStart
  /\ balance = BalanceStart /\ portfolio = PortfolioStart
  /\ view = "landing" /\ activeView = "none" /\ activeTab = "none"
  /\ sidebarCollapsed = FALSE
  /\ entering = 0

(* renderView: the page p takes the place of the mounted one. *)
Mount(p) ==
  /\ activeView' = p
  /\ activeTab' = FirstTab(p)
  /\ timers' = <<>> /\ left' = left \o [i \in DOMAIN orders.submissions |-> Left(orders.submissions[i])]
  /\ markets' = MarketsStart /\ positions' = MockPositions /\ orders' = OrdersStart
  /\ form' = FormStart
  /\ portfolio' = PortfolioStart
  /\ balance' = IF p = "portfolio" THEN BalanceMounted ELSE BalanceStart

(* App: setView(v).  The exchange starts with the trading terminal. *)
SetView(v) ==
  /\ view' = v
  /\ sidebarCollapsed' = FALSE
  /\ Mount(IF v = "app" THEN "trading" ELSE "none")

(* onEnterApp does nothing in the app. *)
OnEnterApp == IF view = "landing" THEN SetView("app") ELSE UNCHANGED appVars

HandleEnter ==
  /\ view = "landing"
  /\ \/ connected /\ OnEnterApp /\ UNCHANGED entering
     \/ /\ ~connected
        /\ entering < MaxEntering
        /\ entering' = entering + 1
        /\ UNCHANGED appVars
  /\ UNCHANGED envVars

(* The wallet answers a handleEnter, wherever the user is by then. *)
EnterResolves ==
  /\ entering > 0
  /\ entering' = entering - 1
  /\ OnEnterApp
  /\ UNCHANGED envVars

EnterRejects ==
  /\ entering > 0
  /\ entering' = entering - 1
  /\ UNCHANGED <<envVars, appVars>>

(* The page's key is the view: selecting the mounted one changes nothing. *)
Remounts(v) == v # activeView

SelectView(v) ==
  /\ view = "app" /\ Remounts(v)
  /\ Mount(v)
  /\ UNCHANGED <<envVars, entering, view, sidebarCollapsed>>

ToggleSidebar ==
  /\ view = "app"
  /\ sidebarCollapsed' = ~sidebarCollapsed
  /\ UNCHANGED <<envVars, entering, view, pageVars>>

(* A collapsed sidebar does not show the button. *)
BackToLanding ==
  /\ view = "app" /\ ~sidebarCollapsed
  /\ SetView("landing")
  /\ UNCHANGED <<envVars, entering>>

ChangeAddress(a) ==
  /\ SwitchAddress(a)
  /\ IF activeView = "portfolio" THEN BalanceEffect(a) ELSE UNCHANGED balance
  /\ UNCHANGED <<demoMode, entering, view, sidebarCollapsed, activeView, activeTab, timers,
                 left, tradingVars, portfolio>>

TradingPage ==
  /\ activeView = "trading"
  /\ TradingNext
  /\ UNCHANGED <<envVars, entering, view, sidebarCollapsed, activeView, activeTab,
                 left, portfolioVars>>

PortfolioPage ==
  /\ activeView = "portfolio"
  /\ PortfolioNext
  /\ UNCHANGED <<envVars, entering, view, sidebarCollapsed, activeView, activeTab,
                 left, tradingVars>>

LeftPage ==
  /\ \E i \in DOMAIN left : RunsOn(i)
  /\ UNCHANGED <<envVars, entering, view, sidebarCollapsed, activeView, activeTab, timers,
                 markets, positions, form, portfolioVars>>

SetTabShown(p, t) ==
  /\ activeView = p
  /\ activeTab' = t
  /\ UNCHANGED <<envVars, entering, view, sidebarCollapsed, activeView, timers, left,
                 tradingVars, portfolioVars>>

SetActiveTab(t) == SetTabShown("subaccounts", t)
SetActiveSection(t) == SetTabShown("admin", t)

Next ==
  \/ HandleEnter \/ EnterResolves \/ EnterRejects
  \/ \E v \in Views : SelectView(v)
  \/ ToggleSidebar \/ BackToLanding
  \/ \E a \in Addresses \cup {NoAddress} : ChangeAddress(a)
  \/ TradingPage \/ PortfolioPage \/ LeftPage
  \/ \E t \in ActiveTabs : SetActiveTab(t)
  \/ \E t \in Sections : SetActiveSection(t)

Spec == Init /\ [][Next]_vars
=============================================================================
