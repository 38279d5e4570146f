---------------------------- MODULE RiskEngine ----------------------------
(***************************************************************************)
(* libs/risk_engine on top of the position manager and the volatility      *)
(* surface: the cold loop feeds it ticks and executions in any order, and  *)
(* the dashboard asks for the P&L report and the value at risk.            *)
(***************************************************************************)
EXTENDS PositionManager, FiniteSets, Folds

CONSTANTS
    TickPrices,     \* last prices of ticks
    SurfaceTable,   \* the surface loaded at start-up, never changed after it
    DefaultVol

ASSUME TickPricesAssumption == TickPrices \subseteq Int
ASSUME SymbolsAssumption == IsFiniteSet(Symbols)

(* An empty surface, or one of finitely many strikes with at least one      *)
(* expiry each.                                                             *)
IsGrid(K) == K # {} /\ K \subseteq Int /\ IsFiniteSet(K)
ASSUME SurfaceAssumption ==
    \/ SurfaceTable = << >>
    \/ /\ IsGrid(DOMAIN SurfaceTable)
       /\ \A k \in DOMAIN SurfaceTable : IsGrid(DOMAIN SurfaceTable[k])

VARIABLE latestPrices   \* latestPrices_: a function on the symbols seen

rvars == << vars, latestPrices >>

(* Only the look-up of the surface is used.                                 *)
Surface == INSTANCE VolSurface WITH
    volatilities <- SurfaceTable, rows <- << >>

RInit == Init /\ latestPrices = << >>

onTick(y, p) ==
    /\ latestPrices' = [z \in DOMAIN latestPrices \cup {y} |->
                            IF z = y THEN p ELSE latestPrices[z]]
    /\ UNCHANGED vars

RNext ==
    \/ \E y \in Symbols, p \in TickPrices : onTick(y, p)
    \/ \E y \in Symbols, side \in {"BUY", "SELL"}, q \in Quantities, p \in Prices :
            onExecution(y, side, q, p) /\ UNCHANGED latestPrices

RSpec == RInit /\ [][RNext]_rvars

(* The latest tick, or the entry price for a symbol that has had none.      *)
currentPrice(y) ==
    IF y \in DOMAIN latestPrices THEN OfInt(latestPrices[y])
    ELSE positions[y].averageEntryPrice

(* Mutant of unrealisedPnl: the sign of the position is lost.               *)
unrealisedPnlUnsigned(y) ==
    Times(Abs(positions[y].quantity),
          Sub(currentPrice(y), positions[y].averageEntryPrice))

(* runReport() for one symbol.                                              *)
unrealisedPnl(y) ==
    Times(positions[y].quantity, Sub(currentPrice(y), positions[y].averageEntryPrice))

(* Mutant of Component: the P&L instead of the value is weighted.           *)
ComponentOfPnl(y) ==
    Times(positions[y].quantity * Surface!getVol(currentPrice(y), 30),
          Sub(currentPrice(y), positions[y].averageEntryPrice))

(* computeVar(), up to the positive factor 1.645 / sqrt(252).               *)
Component(y) ==
    Times(positions[y].quantity * Surface!getVol(currentPrice(y), 30), currentPrice(y))
vaR == MapThenFoldSet(Add, Zero, Component, LAMBDA S : CHOOSE y \in S : TRUE, Symbols)

----------------------------------------------------------------------------
(* The report values the account correctly however ticks and fills          *)
(* interleave: realised plus unrealised P&L is the cash flow of all fills   *)
(* plus the open position at the latest price.  Without a tick the open     *)
(* position is carried at its entry price.                                  *)
ReportValuesTheAccount ==
    \A y \in Symbols :
        Add(positions[y].realisedPnl, unrealisedPnl(y)) =
            IF y \in DOMAIN latestPrices
            THEN OfInt(cash[y] + net[y] * latestPrices[y])
            ELSE positions[y].realisedPnl

(* A book without short positions never shows a negative value at risk, and *)
(* the risk of the whole is no less than that of any of its positions.      *)
LongBookRiskAddsUp ==
    (\A y \in Symbols : net[y] >= 0) =>
        /\ LessEq(Zero, vaR)
        /\ \A y \in Symbols : LessEq(Component(y), vaR)
============================================================================
