------------------------- MODULE AdvisorySimulation -------------------------
(***************************************************************************)
(* The simulation of a proposal (core/advisory_engine.py): cash flows and  *)
(* trades become intents that are applied to a copy of the portfolio, the  *)
(* buys of a currency that lack cash are funded by one FX intent, and the  *)
(* rules give the status.                                                  *)
(*                                                                         *)
(* Amounts count halves of a currency's minor unit, so that an odd amount  *)
(* is one that has to be rounded.  Currencies and instruments are numbers, *)
(* in the order of their ids.  Intents are emitted in the order in which   *)
(* they are executed (sort_execution_intents keeps it): an FX pair starts  *)
(* with the currency that is funded.                                       *)
(*                                                                         *)
(* Weights and total values are not modelled: which of the rules about     *)
(* them fail (cash band, largest position, reconciliation) is open.        *)
(***************************************************************************)
EXTENDS Values, Integers, Sequences, FiniteSets, FiniteSetsExt

CONSTANTS
    MaxCurrency, BaseCurrency,
    Instruments,
    SimInputs           \* the simulations that are asked for

Currencies == 1 .. MaxCurrency

ShelfStatuses == {"APPROVED", "RESTRICTED", "SELL_ONLY", "BANNED", "SUSPENDED"}

\* Amounts by currency, or quantities by instrument
IsLedger(f, S) == \E D \in SUBSET S : f \in [D -> Int]

\* The size of a trade is validated to be positive; that a price is, is what
\* market data has to promise.
ASSUME SimAssumption ==
    /\ MaxCurrency \in Nat /\ BaseCurrency \in Currencies /\ None # "READY"
    /\ Instruments \subseteq Nat /\ IsFiniteSet(Instruments)
    /\ \A input \in SimInputs :
          /\ IsLedger(input.cash, Currencies)
          /\ IsLedger(input.holdings, Instruments)
          /\ \A h \in Instruments : input.shelf[h] \in ShelfStatuses \cup {None}
          /\ \A t \in DOMAIN input.quotes :
                t \in Currencies \X Currencies /\ input.quotes[t] \in Nat \ {0}
          /\ input.flows \in Seq([currency : Currencies, amount : Int])
          /\ input.trades \in
                Seq([side : {"BUY", "SELL"}, instrument : Instruments,
                     quantity : Nat \ {0}, comparable : BOOLEAN])
          /\ \A h \in Instruments :
                input.prices[h] = None \/
                    input.prices[h] \in [amount : Nat \ {0}, currency : Currencies]

VARIABLES
    simInput,       \* portfolio, market data, shelf, options and proposal
    sim,            \* how far the simulation is, and what it has found
    plan,           \* the intents
    proposalStatus  \* None until it is derived

simVars == <<simInput, sim, plan, proposalStatus>>

SimInit ==
    /\ simInput = None
    /\ sim = [stage |-> "idle"]
    /\ plan = <<>>
    /\ proposalStatus = None

ReceiveSimulation ==
    /\ sim.stage = "idle"
    /\ simInput' \in SimInputs
    /\ sim' = [stage |-> "flows", todo |-> DOMAIN simInput'.flows,
               cash |-> simInput'.cash, holdings |-> simInput'.holdings,
               trades |-> {}, fx |-> [c \in Currencies |-> {}], unfunded |-> {},
               missing |-> {}, unrated |-> {}, hard |-> FALSE,
               pending |-> FALSE]
    /\ UNCHANGED <<plan, proposalStatus>>

-----------------------------------------------------------------------------
\* Portfolio and market data

\* ensure_cash_balance and ensure_position create what is missing.
At(f, a) == IF a \in DOMAIN f THEN f[a] ELSE 0

Added(f, a, n) ==
    [b \in DOMAIN f \cup {a} |-> At(f, b) + IF b = a THEN n ELSE 0]

HasRate(c, d) ==
    c = d \/ {<<c, d>>, <<d, c>>} \cap DOMAIN simInput.quotes # {}

\* quantize_amount_for_currency(n / d), rounding half to even
Quantized(n, d) ==
    LET q == n \div (2 * d)
        r == n % (2 * d)
    IN  2 * (IF r < d \/ (r = d /\ q % 2 = 0) THEN q ELSE q + 1)

\* An amount of c in d, at the direct or else the inverse rate, quantized
QuantizedIn(amount, c, d) ==
    IF <<c, d>> \in DOMAIN simInput.quotes
    THEN Quantized(amount * simInput.quotes[<<c, d>>], 1)
    ELSE Quantized(amount, simInput.quotes[<<d, c>>])

Trade(i) == simInput.trades[i]

TradeCurrency(i) == simInput.prices[Trade(i).instrument].currency

Notional(i) == Trade(i).quantity * simInput.prices[Trade(i).instrument].amount

TradesOf(side) == {i \in sim.trades : Trade(i).side = side}

\* Sells and buys are sorted by instrument; the sort is stable.
FirstTrade(S) ==
    CHOOSE i \in S : \A j \in S :
        \/ Trade(i).instrument < Trade(j).instrument
        \/ Trade(i).instrument = Trade(j).instrument /\ i <= j

Intent(kind, id, cash, needs) ==
    [kind |-> kind, id |-> id, needs |-> needs,
     cash |-> [c \in Currencies |-> At(cash, c)]]

One(a, n) == [b \in {a} |-> n]

-----------------------------------------------------------------------------
\* The stages, each of which works through its todo.

ApplyCashFlow ==
    /\ sim.stage = "flows" /\ sim.todo # {}
    /\ LET n == Min(sim.todo)
           flow == simInput.flows[n]
           cash == Added(sim.cash, flow.currency, flow.amount)
       IN
       /\ sim' = [sim EXCEPT !.todo = @ \ {n}, !.cash = cash,
                     !.hard = @ \/ /\ simInput.options.block_negative_cash
                                   /\ cash[flow.currency] < 0]
       /\ plan' = Append(plan, Intent("CASH_FLOW", <<"cf", n>>,
                                      One(flow.currency, flow.amount), {}))
    /\ UNCHANGED <<simInput, proposalStatus>>

OnShelf(i) == simInput.shelf[Trade(i).instrument] # None

\* _trade_is_supported_by_shelf
Supported(i) ==
    LET status == simInput.shelf[Trade(i).instrument]
    IN  Trade(i).side = "BUY" =>
            /\ status \notin {"SELL_ONLY", "BANNED", "SUSPENDED"}
            /\ status = "RESTRICTED" => simInput.options.allow_restricted

Priced(i) == simInput.prices[Trade(i).instrument] # None

\* A notional in another currency than the price is a hard failure; so is a
\* trade that the shelf does not support.  A trade that is not on the shelf or
\* has no price is recorded as missing data, and dropped.
BuildTradeIntent ==
    /\ sim.stage = "trades" /\ sim.todo # {}
    /\ LET i == Min(sim.todo)
           built == OnShelf(i) /\ Supported(i) /\ Priced(i) /\ Trade(i).comparable
       IN  sim' = [sim EXCEPT
                      !.todo = @ \ {i},
                      !.trades = IF built THEN @ \cup {i} ELSE @,
                      !.missing = @ \cup
                          CASE ~OnShelf(i) -> {"shelf"}
                            [] OnShelf(i) /\ Supported(i) /\ ~Priced(i) -> {"price"}
                            [] built /\ ~HasRate(TradeCurrency(i), BaseCurrency) ->
                                  {"fx"}
                            [] OTHER -> {},
                      !.hard = @ \/ /\ OnShelf(i)
                                    /\ \/ ~Supported(i)
                                       \/ Priced(i) /\ ~Trade(i).comparable]
    /\ UNCHANGED <<simInput, plan, proposalStatus>>

ApplySell ==
    /\ sim.stage = "sells" /\ sim.todo # {}
    /\ LET i == FirstTrade(sim.todo) IN
       /\ sim' = [sim EXCEPT
                     !.todo = @ \ {i},
                     !.cash = Added(@, TradeCurrency(i), Notional(i)),
                     !.holdings = Added(@, Trade(i).instrument, -Trade(i).quantity)]
       /\ plan' = Append(plan, Intent("SELL", <<"trade", i>>,
                                      One(TradeCurrency(i), Notional(i)), {}))
    /\ UNCHANGED <<simInput, proposalStatus>>

\* build_auto_funding_plan

\* The sums of the first terms of a sequence
Sums(s) ==
    LET sum[n \in 0 .. Len(s)] == IF n = 0 THEN 0 ELSE sum[n - 1] + s[n]
    IN  sum

\* What the buys in a currency cost
Required(c) ==
    Sums([i \in DOMAIN simInput.trades |->
             IF i \in TradesOf("BUY") /\ TradeCurrency(i) = c THEN Notional(i) ELSE 0]
        )[Len(simInput.trades)]

\* funding_priority_currencies: the base currency, then under ANY_CASH the
\* others that the ledger has, in order
Candidates(c) ==
    ({BaseCurrency} \cup IF simInput.options.any_cash THEN DOMAIN sim.cash ELSE {})
        \ {c}

Preferred(d, e) == e # BaseCurrency /\ (d = BaseCurrency \/ d < e)

\* Any balance is sold
FundsAnyway(d, amount) == TRUE

\* _funding_selection_for_candidate
Funds(d, amount) == At(sim.cash, d) >= amount

\* The currency that is sold, if one has a rate and enough cash
Source(c, need) ==
    LET able == {d \in Candidates(c) :
                    HasRate(c, d) /\ Funds(d, QuantizedIn(need, c, d))}
    IN  IF able = {} THEN None
        ELSE CHOOSE d \in able : \A e \in able \ {d} : Preferred(d, e)

\* The FX intents are found by the currency that they sell
SoldCurrency(target, source) == source

\* fx_by_currency is keyed by the currency that is funded.
FundedCurrency(target, source) == target

\* _fund_target_currency
FundCurrency ==
    /\ sim.stage = "funding" /\ sim.todo # {}
    /\ LET c == Min(sim.todo)
           need == Required(c) - At(sim.cash, c)
           source == Source(c, need)
           tried == {d \in Candidates(c) : source = None \/ ~Preferred(source, d)}
           unrated == sim.unrated \cup {<<c, d>> : d \in {d \in tried : ~HasRate(c, d)}}
           cash == [d \in DOMAIN sim.cash \cup {c} \cup
                         {d \in tried : HasRate(c, d)} |-> At(sim.cash, d)]
           id == <<"fx", Cardinality({n \in DOMAIN plan : plan[n].kind = "FX"}) + 1>>
       IN
       \/ /\ need <= 0
          /\ sim' = [sim EXCEPT !.todo = @ \ {c}, !.cash = Added(@, c, 0)]
          /\ UNCHANGED plan
       \/ /\ need > 0 /\ source # None
          /\ LET buys == Quantized(need, 1)
                 sells == QuantizedIn(need, c, source)
             IN
             /\ sim' = [sim EXCEPT
                   !.todo = @ \ {c}, !.unrated = unrated,
                   !.cash = Added(Added(cash, source, -sells), c, buys),
                   !.fx[FundedCurrency(c, source)] = @ \cup {id}]
             /\ plan' = Append(plan, Intent("FX", id,
                   [d \in {c, source} |-> IF d = c THEN buys ELSE -sells], {}))
       \/ /\ need > 0 /\ source = None
          /\ sim' = [sim EXCEPT
                !.todo = @ \ {c}, !.unrated = unrated, !.cash = cash,
                !.unfunded = @ \cup {c},
                !.pending = @ \/ /\ unrated # {}
                                 /\ ~simInput.options.block_on_missing_fx,
                !.hard = @ \/ unrated = {} \/ simInput.options.block_on_missing_fx]
          /\ UNCHANGED plan
    /\ UNCHANGED <<simInput, proposalStatus>>

\* link_buy_intent_dependencies: the FX intent of the currency and, when asked
\* for, the last sell in it
Dependencies(i) ==
    LET sells == {n \in DOMAIN plan : /\ plan[n].kind = "SELL"
                                      /\ plan[n].cash[TradeCurrency(i)] # 0}
    IN  sim.fx[TradeCurrency(i)] \cup
            IF simInput.options.link_sells /\ sells # {}
            THEN {plan[Max(sells)].id} ELSE {}

\* A buy in an unfunded currency is skipped.
ApplyBuy ==
    /\ sim.stage = "buys" /\ sim.todo # {}
    /\ LET i == FirstTrade(sim.todo)
           c == TradeCurrency(i)
       IN
       IF c \in sim.unfunded
       THEN /\ sim' = [sim EXCEPT !.todo = @ \ {i}]
            /\ UNCHANGED plan
       ELSE /\ sim' = [sim EXCEPT
                  !.todo = @ \ {i}, !.cash = Added(@, c, -Notional(i)),
                  !.holdings = Added(@, Trade(i).instrument, Trade(i).quantity)]
            /\ plan' = Append(plan, Intent("BUY", <<"trade", i>>,
                                           One(c, -Notional(i)), Dependencies(i)))
    /\ UNCHANGED <<simInput, proposalStatus>>

\* A stage ends when nothing is left to do.
NextStage ==
    /\ sim.stage \in {"flows", "trades", "sells", "funding", "buys"}
    /\ sim.todo = {}
    /\ sim' = CASE sim.stage = "flows" ->
                      [sim EXCEPT !.stage = "trades", !.todo = DOMAIN simInput.trades]
                [] sim.stage = "trades" ->
                      [sim EXCEPT !.stage = "sells", !.todo = TradesOf("SELL")]
                [] sim.stage = "sells" ->
                      [sim EXCEPT !.stage = "funding",
                          !.todo = IF simInput.options.auto_funding
                                   THEN {TradeCurrency(i) : i \in TradesOf("BUY")}
                                   ELSE {}]
                [] sim.stage = "funding" ->
                      [sim EXCEPT !.stage = "buys", !.todo = TradesOf("BUY")]
                [] sim.stage = "buys" -> [sim EXCEPT !.stage = "review"]
    /\ UNCHANGED <<simInput, plan, proposalStatus>>

-----------------------------------------------------------------------------
\* evaluate_simulation_review

\* build_simulated_state of the portfolio before, and of the one after unless
\* there is no intent: what it finds missing
Unvalued ==
    LET cash == DOMAIN simInput.cash
                  \cup IF plan = <<>> THEN {} ELSE DOMAIN sim.cash
        held == DOMAIN simInput.holdings
                  \cup IF plan = <<>> THEN {} ELSE DOMAIN sim.holdings
        priced == {h \in held : simInput.prices[h] # None}
    IN  (IF held # priced THEN {"price"} ELSE {}) \cup
        (IF \E c \in cash \cup {simInput.prices[h].currency : h \in priced} :
               ~HasRate(c, BaseCurrency)
         THEN {"fx"} ELSE {})

\* evaluate_data_quality; a pair without rate is missing data as well
DataQualityFails ==
    LET missing == sim.missing \cup Unvalued IN
    \/ "shelf" \in missing
    \/ simInput.options.block_on_missing_prices /\ "price" \in missing
    \/ /\ simInput.options.block_on_missing_fx
       /\ "fx" \in missing \/ sim.unrated # {}

\* evaluate_no_shorting and evaluate_sufficient_cash
Overdrawn ==
    \/ \E c \in DOMAIN sim.cash : sim.cash[c] < 0
    \/ \E h \in DOMAIN sim.holdings : sim.holdings[h] < 0

\* The funding failure that does not block is forgotten
ReviewNeverForced == FALSE

\* force_pending_review
ReviewForced == sim.pending

ReviewSimulation ==
    /\ sim.stage = "review"
    /\ \E other_rule \in {"PASS", "SOFT", "HARD"} :
          proposalStatus' =
              IF sim.hard \/ DataQualityFails \/ Overdrawn \/ other_rule = "HARD"
              THEN "BLOCKED"
              ELSE IF ReviewForced \/ other_rule = "SOFT" THEN "PENDING_REVIEW"
              ELSE "READY"
    /\ sim' = [sim EXCEPT !.stage = "done"]
    /\ UNCHANGED <<simInput, plan>>

SimNext ==
    \/ ReceiveSimulation \/ ApplyCashFlow \/ BuildTradeIntent \/ ApplySell
    \/ FundCurrency \/ ApplyBuy \/ NextStage \/ ReviewSimulation

SimSpec == SimInit /\ [][SimNext]_simVars

-----------------------------------------------------------------------------
\* Properties.

\* The balance of a currency when the first n intents are executed
BalanceAfter(n, c) ==
    At(simInput.cash, c) + Sums([m \in DOMAIN plan |-> plan[m].cash[c]])[n]

\* The cash flows and sells, which come first
BeforeFunding == {n \in DOMAIN plan : plan[n].kind \in {"CASH_FLOW", "SELL"}}

\* A proposal that is READY carries everything that was proposed: no trade was
\* dropped for want of shelf, rate or cash.  Only a missing price may drop one,
\* where the options say so.
ReadyCarriesAllTrades ==
    proposalStatus = "READY" =>
        \A i \in DOMAIN simInput.trades :
            \/ \E n \in DOMAIN plan : plan[n].id = <<"trade", i>>
            \/ ~Priced(i) /\ ~simInput.options.block_on_missing_prices

\* A proposal that is READY can be executed in the order of its intents: from
\* the first FX intent on, no intent takes more of a currency than there is,
\* although a later one would restore the balance.
ReadyIsExecutable ==
    proposalStatus = "READY" =>
        \A n \in DOMAIN plan \ BeforeFunding : \A c \in Currencies :
            plan[n].cash[c] < 0 => BalanceAfter(n, c) >= 0

\* An intent waits for intents before it, which have ids of their own.  Where
\* the cash and the sells of a currency do not pay for its buys, each of these
\* buys waits for an FX intent that brings what is missing, but for the half of
\* a minor unit that rounding may cost.
BuysWaitForFunding ==
    \A n \in DOMAIN plan :
        /\ \A m \in 1 .. (n - 1) : plan[m].id # plan[n].id
        /\ plan[n].needs \subseteq {plan[m].id : m \in 1 .. (n - 1)}
        /\ plan[n].kind = "BUY" /\ simInput.options.auto_funding =>
              \A c \in Currencies :
                  LET missing == Required(c) -
                                    BalanceAfter(Cardinality(BeforeFunding), c) IN
                  plan[n].cash[c] < 0 /\ missing > 0 =>
                      \E m \in DOMAIN plan : /\ plan[m].kind = "FX"
                                             /\ plan[m].id \in plan[n].needs
                                             /\ plan[m].cash[c] + 1 >= missing

=============================================================================
