------------------------ MODULE AdvisoryEngineProofs ------------------------
(***************************************************************************)
(* Theorems of the advisory engine.                                        *)
(*                                                                         *)
(* Of AdvisorySimulation, for every finite set of instruments, every       *)
(* number of currencies and every simulation, of any length: a READY       *)
(* proposal carries all its trades, can be executed in the order of its    *)
(* intents, and its buys wait for the FX that pays for them.               *)
(*                                                                         *)
(* Of AdvisoryDecision, for every portfolio, shelf and set of options: a   *)
(* proposal that may go to the client has earned it.                       *)
(***************************************************************************)
EXTENDS AdvisorySimulation, AdvisoryDecision, TLAPS, FiniteSetTheorems,
        WellFoundedInduction

-----------------------------------------------------------------------------
\* Sums

\* Every set of numbers has a least element, whence induction in terms of sets.
LEMMA LeastOf ==
    ASSUME NEW S \in SUBSET Nat, S # {}
    PROVE  \E n \in S : \A m \in S : n <= m
<1> DEFINE R == {ss \in Nat \X Nat : ss[1] < ss[2]}
<1>1. IsWellFoundedOn(R, Nat)
  BY NatLessThanWellFounded DEF OpToRel
<1>2. PICK n \in S : \A m \in S : ~(<<m, n>> \in R)
  <2> HIDE DEF R
  <2> QED
    BY <1>1, WFMin, Zenon
<1>3. \A m \in S : ~(m < n)
  BY <1>2
<1> QED
  BY <1>3

LEMMA NatSetInduction ==
    ASSUME NEW S \in SUBSET Nat, 0 \in S, \A n \in S : n + 1 \in S
    PROVE  S = Nat
<1>1. SUFFICES ASSUME Nat \ S # {} PROVE FALSE
  OBVIOUS
<1>2. PICK n \in Nat \ S : \A m \in Nat \ S : n <= m
  BY <1>1, LeastOf
<1>3. n # 0 /\ n \in Nat /\ n - 1 \in Nat /\ n - 1 < n
  BY <1>2
<1>4. n - 1 \in S
  BY <1>2, <1>3
<1>5. n \in S
  BY <1>3, <1>4
<1> QED
  BY <1>2, <1>5

LEMMA SumsStep ==
    ASSUME NEW s \in Seq(Int)
    PROVE  /\ Sums(s) \in [0 .. Len(s) -> Int]
           /\ Sums(s)[0] = 0
           /\ \A n \in 1 .. Len(s) : Sums(s)[n] = Sums(s)[n - 1] + s[n]
<1> DEFINE Rec(g) == g = [n \in 0 .. Len(s) |-> IF n = 0 THEN 0 ELSE g[n - 1] + s[n]]
           Upto(k) == {g \in [0 .. k -> Int] : /\ g[0] = 0
                                               /\ \A n \in 1 .. k : g[n] = g[n - 1] + s[n]}
           Good == {k \in Nat : k <= Len(s) => Upto(k) # {}}
<1> HIDE DEF Upto
<1>1. Len(s) \in Nat /\ \A n \in 1 .. Len(s) : s[n] \in Int
  OBVIOUS
<1>2. 0 \in Good
  <2>1. [n \in 0 .. 0 |-> 0] \in Upto(0)
    BY DEF Upto
  <2> QED
    BY <2>1
<1>3. \A k \in Good : k + 1 \in Good
  <2>1. SUFFICES ASSUME NEW k \in Good, k + 1 <= Len(s) PROVE Upto(k + 1) # {}
    OBVIOUS
  <2>2. k \in Nat /\ k <= Len(s) /\ s[k + 1] \in Int
    BY <1>1, <2>1
  <2>3. PICK g \in Upto(k) : TRUE
    BY <2>1, <2>2
  <2> DEFINE h == [n \in 0 .. (k + 1) |-> IF n = k + 1 THEN g[k] + s[k + 1] ELSE g[n]]
  <2>4. h \in [0 .. (k + 1) -> Int]
    BY <2>2, <2>3 DEF Upto
  <2>5. h[0] = 0
    BY <2>2, <2>3 DEF Upto
  <2>6. \A n \in 1 .. (k + 1) : h[n] = h[n - 1] + s[n]
    <3>1. TAKE n \in 1 .. (k + 1)
    <3>2. n - 1 \in 0 .. k /\ h[n - 1] = g[n - 1]
      BY <2>2
    <3>3. CASE n = k + 1
      BY <2>2, <3>2, <3>3
    <3>4. CASE n # k + 1
      <4>1. n \in 1 .. k
        BY <2>2, <3>4
      <4>2. g[n] = g[n - 1] + s[n]
        BY <2>3, <4>1 DEF Upto
      <4>3. h[n] = g[n]
        BY <2>2, <3>4, <4>1
      <4> QED
        BY <3>2, <4>2, <4>3
    <3> QED
      BY <3>3, <3>4
  <2> QED
    BY <2>4, <2>5, <2>6 DEF Upto
<1>4. Good = Nat
  <2> HIDE DEF Good
  <2>1. Good \in SUBSET Nat
    BY DEF Good
  <2> QED
    BY <1>2, <1>3, <2>1, NatSetInduction
<1>5. PICK g \in Upto(Len(s)) : TRUE
  BY <1>1, <1>4
<1>6. Rec(g)
  BY <1>1, <1>5 DEF Upto
<1>7. Sums(s) = CHOOSE f : Rec(f)
  BY DEF Sums
<1>8. Rec(Sums(s))
  BY <1>6, <1>7
<1> DEFINE f == Sums(s)
<1> HIDE DEF f
<1>9. f = [n \in 0 .. Len(s) |-> IF n = 0 THEN 0 ELSE f[n - 1] + s[n]]
  BY <1>8 DEF f
<1>10. f[0] = 0
  BY <1>1, <1>9
<1>11. \A n \in 1 .. Len(s) : f[n] = f[n - 1] + s[n]
  BY <1>1, <1>9
<1> DEFINE Typed == {k \in Nat : k <= Len(s) => f[k] \in Int}
<1>12. 0 \in Typed
  BY <1>10
<1>13. \A k \in Typed : k + 1 \in Typed
  <2>1. SUFFICES ASSUME NEW k \in Typed, k + 1 <= Len(s) PROVE f[k + 1] \in Int
    OBVIOUS
  <2>2. f[k + 1] = f[(k + 1) - 1] + s[k + 1] /\ k + 1 \in 1 .. Len(s)
    BY <1>1, <1>11, <2>1
  <2>3. f[k] \in Int /\ (k + 1) - 1 = k
    BY <1>1, <2>1
  <2> QED
    BY <1>1, <2>2, <2>3
<1>14. Typed = Nat
  <2> HIDE DEF Typed
  <2>1. Typed \in SUBSET Nat
    BY DEF Typed
  <2> QED
    BY <1>12, <1>13, <2>1, NatSetInduction
<1>15. \A k \in 0 .. Len(s) : f[k] \in Int
  BY <1>1, <1>14
<1>16. f \in [0 .. Len(s) -> Int]
  BY <1>9, <1>15
<1> QED
  BY <1>10, <1>11, <1>16 DEF f

\* Sums of a longer sequence agree on what the shorter one has.
LEMMA SumsPrefix ==
    ASSUME NEW s \in Seq(Int), NEW t \in Seq(Int), Len(s) <= Len(t),
           \A n \in 1 .. Len(s) : t[n] = s[n]
    PROVE  \A n \in 0 .. Len(s) : Sums(t)[n] = Sums(s)[n]
<1> DEFINE f == Sums(s)
           g == Sums(t)
           Same == {k \in Nat : k <= Len(s) => g[k] = f[k]}
<1>1. Len(s) \in Nat /\ Len(t) \in Nat
  OBVIOUS
<1>2. /\ f[0] = 0 /\ g[0] = 0
      /\ \A n \in 1 .. Len(s) : f[n] = f[n - 1] + s[n]
      /\ \A n \in 1 .. Len(t) : g[n] = g[n - 1] + t[n]
  BY SumsStep
<1> HIDE DEF f, g
<1>3. 0 \in Same
  BY <1>2
<1>4. \A k \in Same : k + 1 \in Same
  <2>1. SUFFICES ASSUME NEW k \in Same, k + 1 <= Len(s) PROVE g[k + 1] = f[k + 1]
    OBVIOUS
  <2>2. k \in Nat /\ (k + 1) - 1 = k /\ g[k] = f[k]
        /\ k + 1 \in 1 .. Len(s) /\ k + 1 \in 1 .. Len(t)
    BY <1>1, <2>1
  <2>3. f[k + 1] = f[k] + s[k + 1] /\ g[k + 1] = g[k] + t[k + 1]
    BY <1>2, <2>2
  <2>4. t[k + 1] = s[k + 1]
    BY <2>2
  <2> QED
    BY <2>2, <2>3, <2>4
<1>5. Same = Nat
  <2> HIDE DEF Same
  <2>1. Same \in SUBSET Nat
    BY DEF Same
  <2> QED
    BY <1>3, <1>4, <2>1, NatSetInduction
<1>6. \A n \in 0 .. Len(s) : g[n] = f[n]
  BY <1>1, <1>5
<1> QED
  BY <1>6 DEF f, g

-----------------------------------------------------------------------------
\* What is chosen

LEMMA MinIsLeast ==
    ASSUME NEW S \in SUBSET Nat, S # {}
    PROVE  Min(S) \in S /\ \A n \in S : Min(S) <= n
BY LeastOf DEF Min

\* A set of numbers with an upper bound has a greatest element.
LEMMA MaxIsGreatest ==
    ASSUME NEW b \in Nat, NEW S \in SUBSET (1 .. b), S # {}
    PROVE  Max(S) \in S /\ \A n \in S : n <= Max(S)
<1> DEFINE Above == {k \in Nat : \A n \in S : n <= k}
<1>1. b \in Above
  OBVIOUS
<1>2. PICK k \in Above : \A m \in Above : k <= m
  <2> HIDE DEF Above
  <2>1. Above \in SUBSET Nat
    BY DEF Above
  <2> QED
    BY <1>1, <2>1, LeastOf
<1>3. k \in S
  <2>1. SUFFICES ASSUME k \notin S PROVE FALSE
    OBVIOUS
  <2>2. k # 0
    <3>1. PICK n \in S : n <= k
      BY <1>2
    <3> QED
      BY <3>1
  <2>3. k - 1 \in Above
    BY <1>2, <2>1, <2>2
  <2> QED
    BY <1>2, <2>3
<1>4. \E k2 \in S : \A n \in S : n <= k2
  BY <1>2, <1>3
<1> QED
  BY <1>4 DEF Max

LEMMA QuantizedSign ==
    ASSUME NEW n \in Nat, NEW d \in Nat \ {0}
    PROVE  Quantized(n, d) \in Nat
<1> DEFINE q == n \div (2 * d)
           r == n % (2 * d)
<1>1. 2 * d \in Nat \ {0}
  OBVIOUS
<1>2. q \in Int /\ r \in Int
  BY <1>1
<1>3. q \in Nat
  BY <1>1, SMTT(30)
<1> HIDE DEF q, r
<1>4. 2 * (IF r < d \/ (r = d /\ q % 2 = 0) THEN q ELSE q + 1) \in Nat
  BY <1>2, <1>3
<1> QED
  BY <1>4 DEF q, r, Quantized

\* Rounding costs half a minor unit at most.
LEMMA QuantizedLoss ==
    ASSUME NEW n \in Nat
    PROVE  Quantized(n, 1) \in Nat /\ Quantized(n, 1) + 1 >= n
<1> DEFINE q == n \div 2
           r == n % 2
<1>1. q \in Nat /\ r \in 0 .. 1 /\ n = 2 * q + r
  OBVIOUS
<1>2. Quantized(n, 1) = 2 * (IF r < 1 \/ (r = 1 /\ q % 2 = 0) THEN q ELSE q + 1)
  BY DEF Quantized
<1> HIDE DEF q, r
<1> QED
  BY <1>1, <1>2

-----------------------------------------------------------------------------
\* The invariant

LedgersOf(S) == UNION {[D -> Int] : D \in SUBSET S}

Ids == {"cf", "trade", "fx"} \X Nat

IntentRecords ==
    [kind : {"CASH_FLOW", "SELL", "FX", "BUY"}, id : Ids, needs : SUBSET Ids,
     cash : [Currencies -> Int]]

EarlyStages == {"flows", "trades", "sells"}
LateStages == {"buys", "review", "done"}

SimRecords ==
    [stage : EarlyStages \cup {"funding"} \cup LateStages, todo : SUBSET Nat,
     cash : LedgersOf(Currencies), holdings : LedgersOf(Instruments),
     trades : SUBSET Nat, fx : [Currencies -> SUBSET Ids],
     unfunded : SUBSET Currencies, missing : SUBSET {"shelf", "price", "fx"},
     unrated : SUBSET (Currencies \X Currencies), hard : BOOLEAN, pending : BOOLEAN]

BoughtCurrencies == {TradeCurrency(i) : i \in TradesOf("BUY")}

\* Each stage has its own todo.
SimTypeOK ==
    /\ simInput \in SimInputs
    /\ sim \in SimRecords
    /\ plan \in Seq(IntentRecords)
    /\ sim.trades \subseteq {i \in DOMAIN simInput.trades : Priced(i)}
    /\ sim.stage = "flows" => sim.todo \subseteq DOMAIN simInput.flows
    /\ sim.stage = "trades" => sim.todo \subseteq DOMAIN simInput.trades
    /\ sim.stage = "sells" => sim.todo \subseteq TradesOf("SELL")
    /\ sim.stage = "funding" => sim.todo \subseteq BoughtCurrencies
    /\ sim.stage = "buys" => sim.todo \subseteq TradesOf("BUY")
    /\ sim.stage # "done" => proposalStatus = None

\* Cash flows and sells come first.
PlanInOrder ==
    /\ BeforeFunding = 1 .. Cardinality(BeforeFunding)
    /\ sim.stage \in EarlyStages => BeforeFunding = DOMAIN plan

FxIntents == {n \in DOMAIN plan : plan[n].kind = "FX"}

\* Where the id of an intent comes from
FlowGiven(n) ==
    /\ plan[n].kind = "CASH_FLOW"
    /\ \E f \in DOMAIN simInput.flows :
          plan[n].id = <<"cf", f>> /\ (sim.stage = "flows" => f \notin sim.todo)

TradeGiven(n) ==
    /\ plan[n].kind \in {"SELL", "BUY"}
    /\ sim.stage \in {"sells", "funding"} \cup LateStages
    /\ plan[n].kind = "BUY" => sim.stage \in LateStages
    /\ \E i \in TradesOf(plan[n].kind) :
          /\ plan[n].id = <<"trade", i>>
          /\ sim.stage \in {"sells", "buys"} => i \notin sim.todo

FxGiven(n) ==
    /\ plan[n].kind = "FX"
    /\ \E k \in 1 .. Cardinality(FxIntents) : plan[n].id = <<"fx", k>>

IdsAreGiven == \A n \in DOMAIN plan : FlowGiven(n) \/ TradeGiven(n) \/ FxGiven(n)

IdsAreUnique ==
    \A n \in DOMAIN plan : \A m \in 1 .. (n - 1) : plan[m].id # plan[n].id

NeedsComeFirst ==
    /\ \A c \in Currencies : sim.fx[c] \subseteq {plan[m].id : m \in DOMAIN plan}
    /\ \A n \in DOMAIN plan :
          plan[n].needs \subseteq {plan[m].id : m \in 1 .. (n - 1)}

\* The portfolio after the trades is what its intents make of it.
LedgerMatches ==
    \A c \in Currencies : At(sim.cash, c) = BalanceAfter(Len(plan), c)

\* An FX intent is covered when it is made; a buy is if the ledger ends well.
SpendingCovered ==
    \A n \in DOMAIN plan \ BeforeFunding : \A c \in Currencies :
        plan[n].cash[c] < 0 =>
            \/ BalanceAfter(n, c) >= 0
            \/ /\ plan[n].kind = "BUY"
               /\ c \in DOMAIN sim.cash /\ BalanceAfter(n, c) >= At(sim.cash, c)

Missing(c) == Required(c) - BalanceAfter(Cardinality(BeforeFunding), c)

Brings(m, c) ==
    /\ plan[m].kind = "FX" /\ plan[m].id \in sim.fx[c]
    /\ plan[m].cash[c] + 1 >= Missing(c)

\* Until a currency is funded, it is only sold.
FundingInv ==
    simInput.options.auto_funding =>
        /\ sim.stage = "funding" => \A c \in sim.todo :
              At(sim.cash, c) <= BalanceAfter(Cardinality(BeforeFunding), c)
        /\ sim.stage \in {"funding"} \cup LateStages =>
              \A c \in BoughtCurrencies :
                 \/ sim.stage = "funding" /\ c \in sim.todo
                 \/ c \in sim.unfunded
                 \/ Missing(c) <= 0
                 \/ \E m \in DOMAIN plan : Brings(m, c)

BuysAreLinked ==
    \A n \in DOMAIN plan : \A c \in Currencies :
        plan[n].kind = "BUY" /\ plan[n].cash[c] < 0 =>
            /\ c \in BoughtCurrencies \ sim.unfunded
            /\ sim.fx[c] \subseteq plan[n].needs

\* What becomes of the trades
InPlan(i) == \E n \in DOMAIN plan : plan[n].id = <<"trade", i>>

Dropped(i) ==
    sim.hard \/ "shelf" \in sim.missing \/ (~Priced(i) /\ "price" \in sim.missing)

TradesAccounted ==
    /\ \A i \in DOMAIN simInput.trades :
          \/ sim.stage = "flows"
          \/ sim.stage = "trades" /\ i \in sim.todo
          \/ i \in sim.trades \/ Dropped(i)
    /\ sim.stage \in {"sells", "funding"} \cup LateStages =>
          \A i \in TradesOf("SELL") :
             \/ sim.stage = "sells" /\ i \in sim.todo
             \/ InPlan(i)
    /\ sim.stage \in LateStages =>
          \A i \in TradesOf("BUY") :
             \/ sim.stage = "buys" /\ i \in sim.todo
             \/ InPlan(i) \/ sim.unfunded # {}
    /\ sim.unfunded # {} => sim.hard \/ sim.pending

ReadyMeans ==
    proposalStatus = "READY" =>
        /\ sim.stage = "done" /\ ~sim.hard /\ ~sim.pending
        /\ \A c \in DOMAIN sim.cash : sim.cash[c] >= 0
        /\ "shelf" \notin sim.missing
        /\ simInput.options.block_on_missing_prices => "price" \notin sim.missing

SimInv ==
    IF sim.stage = "idle" THEN plan = <<>> /\ proposalStatus = None
    ELSE /\ SimTypeOK /\ PlanInOrder /\ IdsAreGiven /\ IdsAreUnique
         /\ NeedsComeFirst /\ LedgerMatches /\ SpendingCovered /\ FundingInv
         /\ BuysAreLinked /\ TradesAccounted /\ ReadyMeans

-----------------------------------------------------------------------------
\* Facts about the inputs and the helpers

LEMMA SeqTypes ==
    ASSUME NEW S, NEW s \in Seq(S)
    PROVE  Len(s) \in Nat /\ DOMAIN s = 1 .. Len(s) /\ \A n \in DOMAIN s : s[n] \in S
OBVIOUS

LEMMA AnyInputTypes ==
    ASSUME NEW input \in SimInputs
    PROVE  /\ input.cash \in LedgersOf(Currencies)
           /\ input.holdings \in LedgersOf(Instruments)
           /\ DOMAIN input.flows \subseteq Nat
           /\ \A f \in DOMAIN input.flows :
                 /\ input.flows[f].currency \in Currencies
                 /\ input.flows[f].amount \in Int
           /\ input.trades \in
                 Seq([side : {"BUY", "SELL"}, instrument : Instruments,
                      quantity : Nat \ {0}, comparable : BOOLEAN])
           /\ Len(input.trades) \in Nat
           /\ DOMAIN input.trades = 1 .. Len(input.trades)
<1>1. /\ IsLedger(input.cash, Currencies) /\ IsLedger(input.holdings, Instruments)
      /\ input.flows \in Seq([currency : Currencies, amount : Int])
      /\ input.trades \in
            Seq([side : {"BUY", "SELL"}, instrument : Instruments,
                 quantity : Nat \ {0}, comparable : BOOLEAN])
  BY SimAssumption
<1>2. /\ input.cash \in LedgersOf(Currencies)
      /\ input.holdings \in LedgersOf(Instruments)
  BY <1>1 DEF IsLedger, LedgersOf
<1>3. DOMAIN input.flows = 1 .. Len(input.flows)
      /\ Len(input.flows) \in Nat
      /\ \A f \in DOMAIN input.flows :
            input.flows[f] \in [currency : Currencies, amount : Int]
  <2> DEFINE F == [currency : Currencies, amount : Int]
  <2>1. input.flows \in Seq(F)
    BY <1>1
  <2> HIDE DEF F
  <2>2. /\ Len(input.flows) \in Nat
        /\ DOMAIN input.flows = 1 .. Len(input.flows)
        /\ \A f \in DOMAIN input.flows : input.flows[f] \in F
    BY <2>1, SeqTypes
  <2> QED
    BY <2>2 DEF F
<1>4. \A f \in DOMAIN input.flows :
         /\ input.flows[f].currency \in Currencies
         /\ input.flows[f].amount \in Int
  BY <1>3
<1>5. DOMAIN input.trades = 1 .. Len(input.trades)
      /\ Len(input.trades) \in Nat
  BY <1>1
<1> QED
  BY <1>1, <1>2, <1>3, <1>4, <1>5

LEMMA InputTypes ==
    ASSUME simInput \in SimInputs
    PROVE  /\ simInput.cash \in LedgersOf(Currencies)
           /\ simInput.holdings \in LedgersOf(Instruments)
           /\ DOMAIN simInput.flows \subseteq Nat
           /\ \A f \in DOMAIN simInput.flows :
                 /\ simInput.flows[f].currency \in Currencies
                 /\ simInput.flows[f].amount \in Int
           /\ simInput.trades \in
                 Seq([side : {"BUY", "SELL"}, instrument : Instruments,
                      quantity : Nat \ {0}, comparable : BOOLEAN])
           /\ Len(simInput.trades) \in Nat
           /\ DOMAIN simInput.trades = 1 .. Len(simInput.trades)
BY AnyInputTypes

LEMMA TradeTypes ==
    ASSUME simInput \in SimInputs, NEW i \in DOMAIN simInput.trades
    PROVE  /\ i \in Nat
           /\ Trade(i).side \in {"BUY", "SELL"} /\ Trade(i).instrument \in Instruments
           /\ Trade(i).instrument \in Nat
           /\ Trade(i).quantity \in Nat \ {0} /\ Trade(i).comparable \in BOOLEAN
           /\ Priced(i) => TradeCurrency(i) \in Currencies /\ Notional(i) \in Nat
<1>1. i \in Nat /\ Trade(i) \in [side : {"BUY", "SELL"}, instrument : Instruments,
                                 quantity : Nat \ {0}, comparable : BOOLEAN]
  <2> DEFINE T == [side : {"BUY", "SELL"}, instrument : Instruments,
                   quantity : Nat \ {0}, comparable : BOOLEAN]
  <2>1. simInput.trades \in Seq(T) /\ DOMAIN simInput.trades \subseteq Nat
    BY InputTypes
  <2> HIDE DEF T
  <2>2. simInput.trades[i] \in T
    BY <2>1, SeqTypes
  <2> QED
    BY <2>1, <2>2 DEF T, Trade
<1>2. Trade(i).instrument \in Nat
  BY <1>1, SimAssumption
<1>3. ASSUME Priced(i) PROVE TradeCurrency(i) \in Currencies /\ Notional(i) \in Nat
  <2>1. simInput.prices[Trade(i).instrument]
           \in [amount : Nat \ {0}, currency : Currencies]
    BY <1>1, <1>3, SimAssumption DEF Priced
  <2> DEFINE price == simInput.prices[Trade(i).instrument]
             quantity == Trade(i).quantity
  <2>2. price.amount \in Nat /\ price.currency \in Currencies
    BY <2>1
  <2>3. quantity \in Nat
    BY <1>1
  <2>4. TradeCurrency(i) = price.currency /\ Notional(i) = quantity * price.amount
    BY DEF TradeCurrency, Notional
  <2> HIDE DEF price, quantity
  <2> QED
    BY <2>2, <2>3, <2>4
<1> QED
  BY <1>1, <1>2, <1>3

LEMMA LedgerTypes ==
    ASSUME NEW S, NEW f \in LedgersOf(S)
    PROVE  DOMAIN f \subseteq S /\ \A b \in S : At(f, b) \in Int
<1>1. PICK D \in SUBSET S : f \in [D -> Int]
  BY DEF LedgersOf
<1>2. DOMAIN f = D /\ \A b \in D : f[b] \in Int
  BY <1>1
<1> QED
  BY <1>2 DEF At

\* The same of the ledger of a simulation
LEMMA CashTypes ==
    ASSUME SimTypeOK
    PROVE  DOMAIN sim.cash \subseteq Currencies /\ \A c \in Currencies : At(sim.cash, c) \in Int
<1>1. sim.cash \in LedgersOf(Currencies)
  BY DEF SimTypeOK, SimRecords
<1> QED
  BY <1>1, LedgerTypes

LEMMA AddedDomain ==
    ASSUME NEW f, NEW a, NEW n
    PROVE  a \in DOMAIN Added(f, a, n) /\ DOMAIN f \subseteq DOMAIN Added(f, a, n)
BY DEF Added

LEMMA AddedType ==
    ASSUME NEW S, NEW f \in LedgersOf(S), NEW a \in S, NEW n \in Int
    PROVE  Added(f, a, n) \in LedgersOf(S)
<1>1. PICK D \in SUBSET S : f \in [D -> Int]
  BY DEF LedgersOf
<1>2. \A b \in S : At(f, b) \in Int
  BY LedgerTypes
<1>3. \A b \in D \cup {a} : At(f, b) + (IF b = a THEN n ELSE 0) \in Int
  BY <1>2
<1>4. Added(f, a, n) \in [D \cup {a} -> Int]
  BY <1>1, <1>3 DEF Added
<1> QED
  BY <1>1, <1>4 DEF LedgersOf

LEMMA AddedHere ==
    ASSUME NEW f, NEW a, NEW n
    PROVE  At(Added(f, a, n), a) = At(f, a) + n
<1> DEFINE g == Added(f, a, n)
<1>1. g[a] = At(f, a) + n /\ a \in DOMAIN g
  BY DEF Added
<1> HIDE DEF g
<1>2. At(g, a) = g[a]
  BY <1>1 DEF At
<1> QED
  BY <1>1, <1>2 DEF g

LEMMA AddedElsewhere ==
    ASSUME NEW f, NEW a, NEW n, NEW b, b # a, At(f, b) \in Int
    PROVE  At(Added(f, a, n), b) = At(f, b)
<1> DEFINE g == Added(f, a, n)
           k == At(f, b)
<1>1. b \in DOMAIN f => g[b] = k + 0
  BY DEF Added
<1>2. b \in DOMAIN g <=> b \in DOMAIN f
  BY DEF Added
<1>3. b \notin DOMAIN f => k = 0
  BY DEF At
<1>4. At(g, b) = IF b \in DOMAIN g THEN g[b] ELSE 0
  BY DEF At
<1> HIDE DEF g, k
<1>5. k \in Int
  BY DEF k
<1>6. At(g, b) = k
  BY <1>1, <1>2, <1>3, <1>4, <1>5
<1> QED
  BY <1>6 DEF g, k

LEMMA IntentTypes ==
    ASSUME NEW kind \in {"CASH_FLOW", "SELL", "FX", "BUY"}, NEW id \in Ids,
           NEW needs \in SUBSET Ids, NEW cash, \A c \in Currencies : At(cash, c) \in Int,
           NEW x, x = Intent(kind, id, cash, needs)
    PROVE  /\ x \in IntentRecords
           /\ x.kind = kind /\ x.id = id /\ x.needs = needs
           /\ \A c \in Currencies : x.cash[c] = At(cash, c)
<1> DEFINE paid == [c \in Currencies |-> At(cash, c)]
<1>1. x = [kind |-> kind, id |-> id, needs |-> needs, cash |-> paid]
  BY DEF Intent
<1>2. paid \in [Currencies -> Int] /\ \A c \in Currencies : paid[c] = At(cash, c)
  OBVIOUS
<1> HIDE DEF paid
<1>3. x.kind = kind /\ x.id = id /\ x.needs = needs /\ x.cash = paid
  BY <1>1
<1>4. x \in IntentRecords
  BY <1>1, <1>2 DEF IntentRecords
<1> QED
  BY <1>2, <1>3, <1>4

LEMMA OneAmount ==
    ASSUME NEW a \in Currencies, NEW n \in Int
    PROVE  /\ At(One(a, n), a) = n
           /\ \A c \in Currencies \ {a} : At(One(a, n), c) = 0
           /\ \A c \in Currencies : At(One(a, n), c) \in Int
BY DEF One, At

\* An intent that moves an amount of one currency
Moves(x, kind, id, needs, a, n) ==
    /\ x \in IntentRecords
    /\ x.kind = kind /\ x.id = id /\ x.needs = needs
    /\ x.cash[a] = n
    /\ \A c \in Currencies \ {a} : x.cash[c] = 0

LEMMA OneIntent ==
    ASSUME NEW kind \in {"CASH_FLOW", "SELL", "FX", "BUY"}, NEW id \in Ids,
           NEW needs \in SUBSET Ids, NEW a \in Currencies, NEW n, n \in Int
    PROVE  Moves(Intent(kind, id, One(a, n), needs), kind, id, needs, a, n)
<1>1. PICK f, x : f = One(a, n) /\ x = Intent(kind, id, f, needs)
  OBVIOUS
<1>2. /\ At(f, a) = n
      /\ \A c \in Currencies \ {a} : At(f, c) = 0
      /\ \A c \in Currencies : At(f, c) \in Int
  BY <1>1, OneAmount
<1>3. /\ x \in IntentRecords
      /\ x.kind = kind /\ x.id = id /\ x.needs = needs
      /\ \A c \in Currencies : x.cash[c] = At(f, c)
  BY <1>1, <1>2, IntentTypes
<1>4. x.cash[a] = n /\ \A c \in Currencies \ {a} : x.cash[c] = 0
  BY <1>2, <1>3
<1> QED
  BY <1>1, <1>3, <1>4 DEF Moves

LEMMA FirstTradeIn ==
    ASSUME SimTypeOK, NEW S \in SUBSET sim.trades, S # {}
    PROVE  FirstTrade(S) \in S
<1>1. \A i \in S : i \in DOMAIN simInput.trades
  BY DEF SimTypeOK
<1>2. \A i \in S : i \in Nat /\ Trade(i).instrument \in Nat
  BY <1>1, TradeTypes DEF SimTypeOK
<1> DEFINE I == {Trade(i).instrument : i \in S}
<1>3. PICK h \in I : \A k \in I : h <= k
  <2>1. I \in SUBSET Nat /\ I # {}
    BY <1>2
  <2> HIDE DEF I
  <2> QED
    BY <2>1, LeastOf
<1> DEFINE J == {i \in S : Trade(i).instrument = h}
<1>4. PICK i \in J : \A j \in J : i <= j
  <2>1. J \in SUBSET Nat /\ J # {}
    BY <1>2, <1>3
  <2> HIDE DEF J
  <2> QED
    BY <2>1, LeastOf
<1>5. \A j \in S : \/ Trade(i).instrument < Trade(j).instrument
                   \/ Trade(i).instrument = Trade(j).instrument /\ i <= j
  <2>1. TAKE j \in S
  <2>2. h <= Trade(j).instrument /\ Trade(i).instrument = h /\ h \in Nat
    BY <1>2, <1>3, <1>4
  <2>3. CASE Trade(j).instrument = h
    BY <1>4, <2>2, <2>3
  <2>4. CASE Trade(j).instrument # h
    BY <1>2, <2>2, <2>4
  <2> QED
    BY <2>3, <2>4
<1>6. i \in S
  BY <1>4
<1> QED
  BY <1>5, <1>6 DEF FirstTrade

LEMMA SameInput ==
    ASSUME simInput' = simInput
    PROVE  /\ \A i : Trade(i)' = Trade(i) /\ TradeCurrency(i)' = TradeCurrency(i)
           /\ \A i : Notional(i)' = Notional(i) /\ (Priced(i)' <=> Priced(i))
<1>1. \A i : Trade(i)' = Trade(i)
  BY DEF Trade
<1>2. \A i : TradeCurrency(i)' = TradeCurrency(i)
  BY <1>1 DEF TradeCurrency
<1>3. \A i : Notional(i)' = Notional(i)
  BY <1>1 DEF Notional
<1>4. \A i : Priced(i)' <=> Priced(i)
  BY <1>1 DEF Priced
<1> QED
  BY <1>1, <1>2, <1>3, <1>4

LEMMA SameTrades ==
    ASSUME simInput' = simInput, sim'.trades = sim.trades
    PROVE  /\ \A side : TradesOf(side)' = TradesOf(side)
           /\ BoughtCurrencies' = BoughtCurrencies
           /\ \A c : Required(c)' = Required(c)
<1>1. \A side : TradesOf(side)' = TradesOf(side)
  BY SameInput DEF TradesOf
<1>2. BoughtCurrencies' = BoughtCurrencies
  BY <1>1, SameInput DEF BoughtCurrencies
<1>3. ASSUME NEW c PROVE Required(c)' = Required(c)
  <2> DEFINE Costs == [i \in DOMAIN simInput.trades |->
                         IF i \in TradesOf("BUY") /\ TradeCurrency(i) = c
                         THEN Notional(i) ELSE 0]
  <2>1. Costs' = Costs
    BY <1>1, SameInput
  <2>2. Required(c) = Sums(Costs)[Len(simInput.trades)]
    BY DEF Required
  <2>3. Required(c)' = Sums(Costs')[Len(simInput.trades)]
    BY DEF Required
  <2> HIDE DEF Costs
  <2> QED
    BY <2>1, <2>2, <2>3
<1> QED
  BY <1>1, <1>2, <1>3

LEMMA TradesOfTypes ==
    ASSUME SimTypeOK
    PROVE  /\ \A side : TradesOf(side) \subseteq sim.trades
           /\ sim.trades \subseteq Nat
           /\ \A i \in sim.trades :
                 /\ i \in DOMAIN simInput.trades /\ Priced(i)
                 /\ TradeCurrency(i) \in Currencies /\ Notional(i) \in Nat
           /\ BoughtCurrencies \subseteq Currencies
           /\ sim.trades \subseteq TradesOf("BUY") \cup TradesOf("SELL")
           /\ TradesOf("BUY") \cap TradesOf("SELL") = {}
<1>1. \A side : TradesOf(side) \subseteq sim.trades
  BY DEF TradesOf
<1>2. \A i \in sim.trades : i \in DOMAIN simInput.trades /\ Priced(i)
  BY DEF SimTypeOK
<1>3. \A i \in sim.trades :
         TradeCurrency(i) \in Currencies /\ Notional(i) \in Nat /\ i \in Nat
         /\ Trade(i).side \in {"BUY", "SELL"}
  BY <1>2, TradeTypes DEF SimTypeOK
<1>4. BoughtCurrencies \subseteq Currencies
  BY <1>1, <1>3 DEF BoughtCurrencies
<1>5. /\ sim.trades \subseteq TradesOf("BUY") \cup TradesOf("SELL")
      /\ TradesOf("BUY") \cap TradesOf("SELL") = {}
  BY <1>3 DEF TradesOf
<1> QED
  BY <1>1, <1>2, <1>3, <1>4, <1>5

LEMMA RequiredType ==
    ASSUME SimTypeOK, NEW c
    PROVE  Required(c) \in Int
<1> DEFINE Cost(i) == IF i \in TradesOf("BUY") /\ TradeCurrency(i) = c
                      THEN Notional(i) ELSE 0
           k == Len(simInput.trades)
           Costs == [i \in DOMAIN simInput.trades |-> Cost(i)]
<1>1. \A i : Cost(i) \in Int
  BY TradesOfTypes
<1>2. k \in Nat /\ DOMAIN simInput.trades = 1 .. k
  BY InputTypes DEF SimTypeOK
<1>3. Required(c) = Sums(Costs)[k]
  BY DEF Required
<1>4. Costs = [i \in 1 .. k |-> Cost(i)]
  BY <1>2
<1> HIDE DEF k, Cost, Costs
<1>5. Costs \in Seq(Int) /\ Len(Costs) = k
  BY <1>1, <1>2, <1>4
<1>6. Sums(Costs) \in [0 .. k -> Int]
  BY <1>5, SumsStep
<1> QED
  BY <1>2, <1>3, <1>6

\* What a plan does to the balance of a currency
CashIn(p, c) == [m \in DOMAIN p |-> p[m].cash[c]]

LEMMA CashInTypes ==
    ASSUME NEW p \in Seq(IntentRecords), NEW c \in Currencies
    PROVE  /\ CashIn(p, c) \in Seq(Int)
           /\ Len(CashIn(p, c)) = Len(p)
           /\ \A n \in 1 .. Len(p) : CashIn(p, c)[n] = p[n].cash[c]
<1>1. Len(p) \in Nat /\ DOMAIN p = 1 .. Len(p) /\ \A n \in DOMAIN p : p[n] \in IntentRecords
  BY SeqTypes
<1>2. \A n \in DOMAIN p : p[n].cash[c] \in Int
  BY <1>1 DEF IntentRecords
<1> DEFINE Cash(n) == p[n].cash[c]
<1>3. CashIn(p, c) = [n \in 1 .. Len(p) |-> Cash(n)]
  BY <1>1 DEF CashIn
<1>4. \A n \in 1 .. Len(p) : Cash(n) \in Int
  BY <1>1, <1>2
<1> HIDE DEF Cash
<1>5. CashIn(p, c) \in Seq(Int) /\ Len(CashIn(p, c)) = Len(p)
      /\ \A n \in 1 .. Len(p) : CashIn(p, c)[n] = Cash(n)
  BY <1>1, <1>3, <1>4
<1> QED
  BY <1>5 DEF Cash

LEMMA BalanceTypes ==
    ASSUME simInput \in SimInputs, plan \in Seq(IntentRecords), NEW c \in Currencies
    PROVE  /\ \A n \in 0 .. Len(plan) : BalanceAfter(n, c) \in Int
           /\ BalanceAfter(0, c) = At(simInput.cash, c)
           /\ At(simInput.cash, c) \in Int
<1>1. At(simInput.cash, c) \in Int
  <2>1. simInput.cash \in LedgersOf(Currencies)
    BY InputTypes
  <2> QED
    BY <2>1, LedgerTypes
<1>2. \A n : BalanceAfter(n, c) = At(simInput.cash, c) + Sums(CashIn(plan, c))[n]
  BY DEF BalanceAfter, CashIn
<1>3. /\ Sums(CashIn(plan, c)) \in [0 .. Len(plan) -> Int]
      /\ Sums(CashIn(plan, c))[0] = 0
  BY CashInTypes, SumsStep
<1>4. Len(plan) \in Nat
  BY SeqTypes
<1> QED
  BY <1>1, <1>2, <1>3, <1>4

LEMMA BalanceStays ==
    ASSUME simInput' = simInput, plan' = plan
    PROVE  \A n, c : BalanceAfter(n, c)' = BalanceAfter(n, c)
<1> SUFFICES ASSUME NEW n, NEW c PROVE BalanceAfter(n, c)' = BalanceAfter(n, c)
  OBVIOUS
<1>1. \A f : At(f, c)' = At(f, c)
  BY DEF At
<1> QED
  BY <1>1 DEF BalanceAfter, At

LEMMA CashInAppend ==
    ASSUME NEW p \in Seq(IntentRecords), NEW x \in IntentRecords, NEW c \in Currencies
    PROVE  LET q == Append(p, x) IN
           /\ \A n \in 0 .. Len(p) : Sums(CashIn(q, c))[n] = Sums(CashIn(p, c))[n]
           /\ Sums(CashIn(q, c))[Len(p) + 1] = Sums(CashIn(p, c))[Len(p)] + x.cash[c]
           /\ Sums(CashIn(p, c)) \in [0 .. Len(p) -> Int]
<1> DEFINE q == Append(p, x)
           old == CashIn(p, c)
           new == CashIn(q, c)
<1>1. /\ q \in Seq(IntentRecords) /\ Len(p) \in Nat /\ Len(q) = Len(p) + 1
      /\ \A n \in 1 .. Len(p) : q[n] = p[n]
      /\ q[Len(p) + 1] = x
  OBVIOUS
<1>2. old \in Seq(Int) /\ Len(old) = Len(p)
      /\ \A n \in 1 .. Len(p) : old[n] = p[n].cash[c]
  BY CashInTypes
<1> HIDE DEF q
<1>3. new \in Seq(Int) /\ Len(new) = Len(q)
      /\ \A n \in 1 .. Len(q) : new[n] = q[n].cash[c]
  BY <1>1, CashInTypes
<1> HIDE DEF old, new
<1>4. \A n \in 1 .. Len(old) : new[n] = old[n]
  <2>1. TAKE n \in 1 .. Len(old)
  <2>2. n \in 1 .. Len(p) /\ n \in 1 .. Len(q)
    BY <1>1, <1>2
  <2>3. new[n] = q[n].cash[c] /\ old[n] = p[n].cash[c] /\ q[n] = p[n]
    BY <1>1, <1>2, <1>3, <2>2
  <2> QED
    BY <2>3
<1>5. \A n \in 0 .. Len(p) : Sums(new)[n] = Sums(old)[n]
  <2>1. Len(old) <= Len(new)
    BY <1>1, <1>2, <1>3
  <2> QED
    BY <1>2, <1>3, <1>4, <2>1, SumsPrefix
<1>6. Sums(new)[Len(p) + 1] = Sums(new)[Len(p)] + x.cash[c]
  <2>1. \A n \in 1 .. Len(new) : Sums(new)[n] = Sums(new)[n - 1] + new[n]
    BY <1>3, SumsStep
  <2>2. Len(p) + 1 \in 1 .. Len(new) /\ (Len(p) + 1) - 1 = Len(p)
    BY <1>1, <1>3
  <2>3. new[Len(p) + 1] = x.cash[c]
    BY <1>1, <1>3
  <2> QED
    BY <2>1, <2>2, <2>3
<1>7. Sums(old) \in [0 .. Len(p) -> Int]
  BY <1>2, SumsStep
<1>8. Sums(new)[Len(p)] = Sums(old)[Len(p)]
  BY <1>1, <1>5
<1> QED
  BY <1>5, <1>6, <1>7, <1>8 DEF q, old, new

LEMMA BalanceGrows ==
    ASSUME simInput' = simInput, simInput \in SimInputs, plan \in Seq(IntentRecords),
           NEW x \in IntentRecords, plan' = Append(plan, x), NEW c \in Currencies
    PROVE  /\ \A n \in 0 .. Len(plan) : BalanceAfter(n, c)' = BalanceAfter(n, c)
           /\ \A n \in Nat : n = Len(plan) + 1 =>
                 BalanceAfter(n, c)' = BalanceAfter(Len(plan), c) + x.cash[c]
           /\ BalanceAfter(Len(plan), c)' = BalanceAfter(Len(plan), c) + x.cash[c]
<1> DEFINE start == At(simInput.cash, c)
           old == Sums(CashIn(plan, c))
           new == Sums(CashIn(Append(plan, x), c))
<1>1. \A n : BalanceAfter(n, c) = start + old[n]
  BY DEF BalanceAfter, CashIn
<1>2. \A n : BalanceAfter(n, c)' = start + new[n]
  BY DEF BalanceAfter, CashIn, At
<1>3. /\ \A n \in 0 .. Len(plan) : new[n] = old[n]
      /\ new[Len(plan) + 1] = old[Len(plan)] + x.cash[c]
      /\ old \in [0 .. Len(plan) -> Int]
  BY CashInAppend
<1>4. start \in Int /\ x.cash[c] \in Int /\ Len(plan) \in Nat
  BY BalanceTypes, SeqTypes DEF IntentRecords
<1> HIDE DEF start, old, new
<1>5. \A n \in 0 .. Len(plan) : BalanceAfter(n, c)' = BalanceAfter(n, c)
  BY <1>1, <1>2, <1>3
<1>6. start + new[Len(plan) + 1] = BalanceAfter(Len(plan), c) + x.cash[c]
  <2>1. old[Len(plan)] \in Int
    BY <1>3, <1>4
  <2>2. BalanceAfter(Len(plan), c) = start + old[Len(plan)]
    BY <1>1
  <2> QED
    BY <1>3, <1>4, <2>1, <2>2
<1>7. ASSUME NEW n \in Nat, n = Len(plan) + 1
      PROVE  BalanceAfter(n, c)' = BalanceAfter(Len(plan), c) + x.cash[c]
  BY <1>2, <1>6, <1>7
<1>8. Len(plan') = Len(plan) + 1
  BY <1>4
<1>9. BalanceAfter(Len(plan), c)' = start + new[Len(plan')]
  BY DEF start, new, BalanceAfter, CashIn, At
<1> QED
  BY <1>5, <1>6, <1>7, <1>8, <1>9

LEMMA QuantizedInSign ==
    ASSUME simInput \in SimInputs, NEW c, NEW d, c # d, HasRate(c, d),
           NEW need \in Nat
    PROVE  QuantizedIn(need, c, d) \in Nat
<1>1. CASE <<c, d>> \in DOMAIN simInput.quotes
  <2> DEFINE rate == simInput.quotes[<<c, d>>]
  <2>1. rate \in Nat \ {0}
    BY <1>1, SimAssumption
  <2>2. QuantizedIn(need, c, d) = Quantized(need * rate, 1)
    BY <1>1 DEF QuantizedIn
  <2> HIDE DEF rate
  <2>3. need * rate \in Nat
    BY <2>1
  <2> QED
    BY <2>2, <2>3, QuantizedLoss
<1>2. CASE <<c, d>> \notin DOMAIN simInput.quotes
  <2> DEFINE rate == simInput.quotes[<<d, c>>]
  <2>1. <<d, c>> \in DOMAIN simInput.quotes
    BY <1>2 DEF HasRate
  <2>2. rate \in Nat \ {0}
    BY <2>1, SimAssumption
  <2>3. QuantizedIn(need, c, d) = Quantized(need, rate)
    BY <1>2 DEF QuantizedIn
  <2> HIDE DEF rate
  <2> QED
    BY <2>2, <2>3, QuantizedSign
<1> QED
  BY <1>1, <1>2

\* The currency that is sold can pay for what is bought.
LEMMA SourcePays ==
    ASSUME SimTypeOK, NEW c \in Currencies, NEW need \in Nat, Source(c, need) # None
    PROVE  LET d == Source(c, need)
           IN  /\ d \in Currencies /\ d # c /\ HasRate(c, d)
               /\ QuantizedIn(need, c, d) \in Nat
               /\ At(sim.cash, d) >= QuantizedIn(need, c, d)
<1> DEFINE able == {d \in Candidates(c) :
                       HasRate(c, d) /\ Funds(d, QuantizedIn(need, c, d))}
<1>1. able # {}
  BY DEF Source
<1>2. Currencies \subseteq Nat /\ BaseCurrency \in Currencies
  BY SimAssumption DEF Currencies
<1>3. DOMAIN sim.cash \subseteq Currencies
  BY CashTypes
<1>4. able \subseteq Currencies \ {c}
  BY <1>2, <1>3 DEF Candidates
<1>5. \E d \in able : \A e \in able \ {d} : Preferred(d, e)
  <2>1. CASE BaseCurrency \in able
    BY <2>1 DEF Preferred
  <2>2. CASE BaseCurrency \notin able
    <3>1. able \in SUBSET Nat
      BY <1>2, <1>4
    <3>2. PICK d \in able : \A e \in able : d <= e
      <4> HIDE DEF able
      <4> QED
        BY <1>1, <3>1, LeastOf
    <3>3. \A e \in able \ {d} : d < e /\ e # BaseCurrency
      <4> HIDE DEF able
      <4> QED
        BY <2>2, <3>1, <3>2
    <3> HIDE DEF able
    <3> QED
      BY <3>2, <3>3 DEF Preferred
  <2> QED
    BY <2>1, <2>2
<1> DEFINE d == Source(c, need)
<1>6. d \in able
  <2>1. d = CHOOSE d1 \in able : \A e \in able \ {d1} : Preferred(d1, e)
    BY <1>1 DEF Source
  <2> HIDE DEF able, d
  <2> QED
    BY <1>5, <2>1
<1> HIDE DEF d
<1>7. d \in Currencies /\ d # c /\ HasRate(c, d) /\ Funds(d, QuantizedIn(need, c, d))
  BY <1>4, <1>6
<1>8. QuantizedIn(need, c, d) \in Nat
  BY <1>7, QuantizedInSign DEF SimTypeOK
<1>9. At(sim.cash, d) >= QuantizedIn(need, c, d)
  BY <1>7 DEF Funds
<1> QED
  BY <1>7, <1>8, <1>9 DEF d

-----------------------------------------------------------------------------
\* What the stages do

\* What is typed of sim, field by field
LEMMA SimFields ==
    ASSUME SimTypeOK
    PROVE  /\ sim.cash \in LedgersOf(Currencies) /\ sim.holdings \in LedgersOf(Instruments)
           /\ sim.todo \in SUBSET Nat /\ sim.fx \in [Currencies -> SUBSET Ids]
           /\ sim.unfunded \in SUBSET Currencies
           /\ sim.unrated \in SUBSET (Currencies \X Currencies)
           /\ sim.hard \in BOOLEAN /\ sim.pending \in BOOLEAN
           /\ DOMAIN sim.cash \subseteq Currencies
           /\ \A c \in Currencies : At(sim.cash, c) \in Int
<1>1. sim \in SimRecords
  BY DEF SimTypeOK
<1>2. sim.cash \in LedgersOf(Currencies)
  BY <1>1 DEF SimRecords
<1>3. DOMAIN sim.cash \subseteq Currencies /\ \A c \in Currencies : At(sim.cash, c) \in Int
  BY CashTypes
<1> QED
  BY <1>1, <1>2, <1>3 DEF SimRecords

LEMMA CashFlowStep ==
    ASSUME SimTypeOK, ApplyCashFlow
    PROVE  \E n \in sim.todo, x \in IntentRecords :
              /\ sim.stage = "flows" /\ n \in DOMAIN simInput.flows
              /\ x.kind = "CASH_FLOW" /\ x.id = <<"cf", n>> /\ x.needs = {}
              /\ plan' = Append(plan, x)
              /\ sim' \in SimRecords
              /\ sim' = [sim EXCEPT !.todo = @ \ {n}, !.cash = sim'.cash,
                                    !.hard = sim'.hard]
              /\ sim.hard => sim'.hard
              /\ \A c \in Currencies : At(sim'.cash, c) = At(sim.cash, c) + x.cash[c]
<1> DEFINE n == Min(sim.todo)
           flow == simInput.flows[n]
           cash == Added(sim.cash, flow.currency, flow.amount)
           hard == sim.hard \/ /\ simInput.options.block_negative_cash
                               /\ cash[flow.currency] < 0
           x == Intent("CASH_FLOW", <<"cf", n>>, One(flow.currency, flow.amount), {})
<1>1. /\ sim.stage = "flows" /\ sim.todo # {} /\ sim.todo \subseteq DOMAIN simInput.flows
      /\ sim \in SimRecords /\ simInput \in SimInputs
  BY DEF ApplyCashFlow, SimTypeOK
<1>2. n \in sim.todo /\ n \in DOMAIN simInput.flows /\ n \in Nat
  BY <1>1, SimFields, MinIsLeast
<1>3. flow.currency \in Currencies /\ flow.amount \in Int
  BY <1>1, <1>2, InputTypes
<1>4. sim' = [sim EXCEPT !.todo = @ \ {n}, !.cash = cash, !.hard = hard]
      /\ plan' = Append(plan, x)
  BY DEF ApplyCashFlow
<1> HIDE DEF n, flow
<1>5. /\ cash \in LedgersOf(Currencies)
      /\ At(cash, flow.currency) = At(sim.cash, flow.currency) + flow.amount
      /\ \A c \in Currencies \ {flow.currency} : At(cash, c) = At(sim.cash, c)
  BY <1>3, SimFields, AddedType, AddedHere, AddedElsewhere
<1>6. /\ x \in IntentRecords /\ x.kind = "CASH_FLOW" /\ x.id = <<"cf", n>> /\ x.needs = {}
      /\ x.cash[flow.currency] = flow.amount
      /\ \A c \in Currencies \ {flow.currency} : x.cash[c] = 0
  <2>1. <<"cf", n>> \in Ids /\ {} \in SUBSET Ids
    BY <1>2 DEF Ids
  <2>2. Moves(x, "CASH_FLOW", <<"cf", n>>, {}, flow.currency, flow.amount)
    BY <1>3, <2>1, OneIntent
  <2> HIDE DEF x
  <2> QED
    BY <2>2 DEF Moves
<1>7. hard \in BOOLEAN /\ (sim.hard => hard)
  OBVIOUS
<1> HIDE DEF cash, hard, x
<1>8. sim' \in SimRecords /\ sim'.cash = cash /\ sim'.hard = hard
  BY <1>1, <1>4, <1>5, <1>7 DEF SimRecords
<1>9. \A c \in Currencies : At(sim'.cash, c) = At(sim.cash, c) + x.cash[c]
  BY <1>5, <1>6, <1>8, SimFields
<1> QED
  BY <1>1, <1>2, <1>4, <1>6, <1>7, <1>8, <1>9

LEMMA BuildTradeStep ==
    ASSUME SimTypeOK, BuildTradeIntent
    PROVE  \E i \in sim.todo :
              /\ sim.stage = "trades" /\ i \in DOMAIN simInput.trades
              /\ sim' \in SimRecords
              /\ sim' = [sim EXCEPT !.todo = @ \ {i}, !.trades = sim'.trades,
                                    !.missing = sim'.missing, !.hard = sim'.hard]
              /\ sim.trades \subseteq sim'.trades /\ sim.missing \subseteq sim'.missing
              /\ sim.hard => sim'.hard
              /\ sim'.trades \subseteq sim.trades \cup {i}
              /\ i \in sim'.trades => Priced(i)
              /\ \/ i \in sim'.trades
                 \/ sim'.hard \/ "shelf" \in sim'.missing
                 \/ ~Priced(i) /\ "price" \in sim'.missing
<1> DEFINE i == Min(sim.todo)
           built == OnShelf(i) /\ Supported(i) /\ Priced(i) /\ Trade(i).comparable
           trades == IF built THEN sim.trades \cup {i} ELSE sim.trades
           lacks == CASE ~OnShelf(i) -> {"shelf"}
                      [] OnShelf(i) /\ Supported(i) /\ ~Priced(i) -> {"price"}
                      [] built /\ ~HasRate(TradeCurrency(i), BaseCurrency) -> {"fx"}
                      [] OTHER -> {}
           missing == sim.missing \cup lacks
           hard == sim.hard \/ /\ OnShelf(i)
                               /\ \/ ~Supported(i)
                                  \/ Priced(i) /\ ~Trade(i).comparable
<1>1. /\ sim.stage = "trades" /\ sim.todo # {} /\ sim.todo \subseteq DOMAIN simInput.trades
      /\ sim \in SimRecords /\ simInput \in SimInputs /\ sim.todo \in SUBSET Nat
  BY SimFields DEF BuildTradeIntent, SimTypeOK
<1>2. i \in sim.todo /\ i \in DOMAIN simInput.trades /\ i \in Nat
  BY <1>1, MinIsLeast
<1>3. sim' = [sim EXCEPT !.todo = @ \ {i}, !.trades = trades, !.missing = missing,
                         !.hard = hard]
  BY DEF BuildTradeIntent
<1> HIDE DEF i
<1>4. /\ ~OnShelf(i) => lacks = {"shelf"}
      /\ OnShelf(i) /\ Supported(i) /\ ~Priced(i) => lacks = {"price"}
      /\ lacks \in SUBSET {"shelf", "price", "fx"}
  <2>1. CASE ~OnShelf(i)
    BY <2>1
  <2>2. CASE OnShelf(i) /\ Supported(i) /\ ~Priced(i)
    BY <2>2
  <2>3. CASE OnShelf(i) /\ ~(Supported(i) /\ ~Priced(i))
    BY <2>3
  <2> QED
    BY <2>1, <2>2, <2>3
<1> HIDE DEF lacks
<1>5. \/ i \in trades \/ hard \/ "shelf" \in missing
      \/ ~Priced(i) /\ "price" \in missing
  <2>1. Trade(i).comparable \in BOOLEAN
    BY <1>1, <1>2, TradeTypes
  <2> QED
    BY <1>4, <2>1
<1>6. /\ trades \in SUBSET Nat /\ sim.trades \subseteq trades
      /\ trades \subseteq sim.trades \cup {i}
      /\ i \in trades => Priced(i)
  BY <1>1, <1>2 DEF SimRecords, SimTypeOK
<1>7. missing \in SUBSET {"shelf", "price", "fx"} /\ sim.missing \subseteq missing
  BY <1>1, <1>4 DEF SimRecords
<1>8. hard \in BOOLEAN /\ (sim.hard => hard)
  OBVIOUS
<1> HIDE DEF trades, missing, hard
<1>9. /\ sim' \in SimRecords
      /\ sim'.trades = trades /\ sim'.missing = missing /\ sim'.hard = hard
  BY <1>1, <1>3, <1>6, <1>7, <1>8 DEF SimRecords
<1> QED
  BY <1>1, <1>2, <1>3, <1>5, <1>6, <1>7, <1>8, <1>9

LEMMA SellStep ==
    ASSUME SimTypeOK, ApplySell
    PROVE  \E i \in sim.todo, x \in IntentRecords :
              /\ sim.stage = "sells" /\ i \in TradesOf("SELL")
              /\ x.kind = "SELL" /\ x.id = <<"trade", i>> /\ x.needs = {}
              /\ plan' = Append(plan, x)
              /\ sim' \in SimRecords
              /\ sim' = [sim EXCEPT !.todo = @ \ {i}, !.cash = sim'.cash,
                                    !.holdings = sim'.holdings]
              /\ \A c \in Currencies : At(sim'.cash, c) = At(sim.cash, c) + x.cash[c]
<1> DEFINE i == FirstTrade(sim.todo)
           c1 == TradeCurrency(i)
           m == Notional(i)
           cash == Added(sim.cash, c1, m)
           holdings == Added(sim.holdings, Trade(i).instrument, -Trade(i).quantity)
           x == Intent("SELL", <<"trade", i>>, One(c1, m), {})
<1>1. /\ sim.stage = "sells" /\ sim.todo # {} /\ sim.todo \subseteq TradesOf("SELL")
      /\ sim \in SimRecords /\ simInput \in SimInputs
  BY DEF ApplySell, SimTypeOK
<1>2. i \in sim.todo /\ i \in TradesOf("SELL") /\ i \in sim.trades
  BY <1>1, TradesOfTypes, FirstTradeIn
<1>3. sim' = [sim EXCEPT !.todo = @ \ {i}, !.cash = cash, !.holdings = holdings]
      /\ plan' = Append(plan, x)
  BY DEF ApplySell
<1> HIDE DEF i
<1>4. c1 \in Currencies /\ m \in Nat /\ i \in Nat
      /\ Trade(i).instrument \in Instruments /\ -Trade(i).quantity \in Int
  <2>1. i \in DOMAIN simInput.trades /\ c1 \in Currencies /\ m \in Nat /\ i \in Nat
    BY <1>2, TradesOfTypes
  <2>2. Trade(i).instrument \in Instruments /\ Trade(i).quantity \in Nat
    BY <1>1, <2>1, TradeTypes
  <2> QED
    BY <2>1, <2>2
<1> HIDE DEF c1, m
<1>5. /\ cash \in LedgersOf(Currencies)
      /\ At(cash, c1) = At(sim.cash, c1) + m
      /\ \A c \in Currencies \ {c1} : At(cash, c) = At(sim.cash, c)
  BY <1>4, SimFields, AddedType, AddedHere, AddedElsewhere
<1>6. holdings \in LedgersOf(Instruments)
  BY <1>4, SimFields, AddedType
<1>7. /\ x \in IntentRecords /\ x.kind = "SELL" /\ x.id = <<"trade", i>> /\ x.needs = {}
      /\ x.cash[c1] = m /\ \A c \in Currencies \ {c1} : x.cash[c] = 0
  <2>1. <<"trade", i>> \in Ids /\ {} \in SUBSET Ids
    BY <1>4 DEF Ids
  <2>2. Moves(x, "SELL", <<"trade", i>>, {}, c1, m)
    BY <1>4, <2>1, OneIntent
  <2> HIDE DEF x
  <2> QED
    BY <2>2 DEF Moves
<1> HIDE DEF cash, holdings, x
<1>8. sim' \in SimRecords /\ sim'.cash = cash /\ sim'.holdings = holdings
  BY <1>1, <1>3, <1>5, <1>6 DEF SimRecords
<1>9. \A c \in Currencies : At(sim'.cash, c) = At(sim.cash, c) + x.cash[c]
  BY <1>5, <1>7, <1>8, SimFields
<1> QED
  BY <1>1, <1>2, <1>3, <1>7, <1>8, <1>9

LEMMA BuyStep ==
    ASSUME SimTypeOK, NeedsComeFirst, ApplyBuy
    PROVE  \E i \in sim.todo :
              /\ sim.stage = "buys" /\ i \in TradesOf("BUY")
              /\ sim' \in SimRecords
              /\ sim' = [sim EXCEPT !.todo = @ \ {i}, !.cash = sim'.cash,
                                    !.holdings = sim'.holdings]
              /\ \/ /\ TradeCurrency(i) \in sim.unfunded
                    /\ sim'.cash = sim.cash /\ plan' = plan
                 \/ \E x \in IntentRecords :
                      /\ x.kind = "BUY" /\ x.id = <<"trade", i>>
                      /\ x.needs \subseteq {plan[k].id : k \in DOMAIN plan}
                      /\ plan' = Append(plan, x)
                      /\ TradeCurrency(i) \notin sim.unfunded
                      /\ sim.fx[TradeCurrency(i)] \subseteq x.needs
                      /\ TradeCurrency(i) \in DOMAIN sim'.cash
                      /\ DOMAIN sim.cash \subseteq DOMAIN sim'.cash
                      /\ x.cash[TradeCurrency(i)] <= 0
                      /\ \A c \in Currencies \ {TradeCurrency(i)} : x.cash[c] = 0
                      /\ \A c \in Currencies :
                            At(sim'.cash, c) = At(sim.cash, c) + x.cash[c]
<1> DEFINE i == FirstTrade(sim.todo)
           c1 == TradeCurrency(i)
           m == Notional(i)
           l == -m
           cash == Added(sim.cash, c1, l)
           holdings == Added(sim.holdings, Trade(i).instrument, Trade(i).quantity)
           x == Intent("BUY", <<"trade", i>>, One(c1, l), Dependencies(i))
<1>1. /\ sim.stage = "buys" /\ sim.todo # {} /\ sim.todo \subseteq TradesOf("BUY")
      /\ sim \in SimRecords /\ simInput \in SimInputs /\ plan \in Seq(IntentRecords)
  BY DEF ApplyBuy, SimTypeOK
<1>2. i \in sim.todo /\ i \in TradesOf("BUY") /\ i \in sim.trades
  BY <1>1, TradesOfTypes, FirstTradeIn
<1>3. \/ /\ c1 \in sim.unfunded
         /\ sim' = [sim EXCEPT !.todo = @ \ {i}] /\ plan' = plan
      \/ /\ c1 \notin sim.unfunded
         /\ sim' = [sim EXCEPT !.todo = @ \ {i}, !.cash = cash, !.holdings = holdings]
         /\ plan' = Append(plan, x)
  BY DEF ApplyBuy
<1> HIDE DEF i
<1>4. c1 \in Currencies /\ l \in Int /\ l <= 0 /\ i \in Nat
      /\ Trade(i).instrument \in Instruments /\ Trade(i).quantity \in Int
  <2>1. i \in DOMAIN simInput.trades /\ c1 \in Currencies /\ m \in Nat /\ i \in Nat
    BY <1>2, TradesOfTypes
  <2>2. Trade(i).instrument \in Instruments /\ Trade(i).quantity \in Nat
    BY <1>1, <2>1, TradeTypes
  <2> QED
    BY <2>1, <2>2
<1>5. CASE c1 \in sim.unfunded
  <2>1. sim' = [sim EXCEPT !.todo = @ \ {i}] /\ plan' = plan
    BY <1>3, <1>5
  <2>2. sim' \in SimRecords /\ sim'.cash = sim.cash /\ sim'.holdings = sim.holdings
    BY <1>1, <2>1 DEF SimRecords
  <2>3. sim' = [sim EXCEPT !.todo = @ \ {i}, !.cash = sim'.cash,
                           !.holdings = sim'.holdings]
    BY <1>1, <2>1, <2>2 DEF SimRecords
  <2> QED
    BY <1>1, <1>2, <1>5, <2>1, <2>2, <2>3
<1>6. CASE c1 \notin sim.unfunded
  <2>1. sim' = [sim EXCEPT !.todo = @ \ {i}, !.cash = cash, !.holdings = holdings]
        /\ plan' = Append(plan, x)
    BY <1>3, <1>6
  <2>2. /\ sim.fx[c1] \subseteq Dependencies(i)
        /\ Dependencies(i) \subseteq {plan[k].id : k \in DOMAIN plan}
    <3> DEFINE sells == {n \in DOMAIN plan : plan[n].kind = "SELL" /\ plan[n].cash[c1] # 0}
    <3>1. Dependencies(i) = sim.fx[c1] \cup
             IF simInput.options.link_sells /\ sells # {} THEN {plan[Max(sells)].id} ELSE {}
      BY DEF Dependencies
    <3>2. sells \in SUBSET (1 .. Len(plan)) /\ Len(plan) \in Nat
          /\ DOMAIN plan = 1 .. Len(plan)
      BY <1>1, SeqTypes
    <3>3. sim.fx[c1] \subseteq {plan[k].id : k \in DOMAIN plan}
      BY <1>4 DEF NeedsComeFirst
    <3> HIDE DEF sells
    <3>4. sells # {} => Max(sells) \in DOMAIN plan
      BY <3>2, MaxIsGreatest
    <3> QED
      BY <3>1, <3>3, <3>4
  <2>3. {plan[k].id : k \in DOMAIN plan} \subseteq Ids
    <3>1. \A k \in DOMAIN plan : plan[k] \in IntentRecords
      BY <1>1, SeqTypes
    <3> QED
      BY <3>1 DEF IntentRecords
  <2> HIDE DEF c1, l
  <2>4. /\ cash \in LedgersOf(Currencies)
        /\ At(cash, c1) = At(sim.cash, c1) + l
        /\ \A c \in Currencies \ {c1} : At(cash, c) = At(sim.cash, c)
    BY <1>4, SimFields, AddedType, AddedHere, AddedElsewhere
  <2>5. c1 \in DOMAIN cash /\ DOMAIN sim.cash \subseteq DOMAIN cash
    BY AddedDomain
  <2>6. holdings \in LedgersOf(Instruments)
    BY <1>4, SimFields, AddedType
  <2>7. /\ x \in IntentRecords /\ x.kind = "BUY" /\ x.id = <<"trade", i>>
        /\ x.needs = Dependencies(i)
        /\ x.cash[c1] = l /\ \A c \in Currencies \ {c1} : x.cash[c] = 0
    <3>1. <<"trade", i>> \in Ids /\ Dependencies(i) \in SUBSET Ids
      BY <1>4, <2>2, <2>3 DEF Ids
    <3>2. Moves(x, "BUY", <<"trade", i>>, Dependencies(i), c1, l)
      BY <1>4, <3>1, OneIntent
    <3> HIDE DEF x
    <3> QED
      BY <3>2 DEF Moves
  <2> HIDE DEF cash, holdings, x
  <2>8. sim' \in SimRecords /\ sim'.cash = cash /\ sim'.holdings = holdings
    BY <1>1, <2>1, <2>4, <2>6 DEF SimRecords
  <2>9. \A c \in Currencies : At(sim'.cash, c) = At(sim.cash, c) + x.cash[c]
    BY <2>4, <2>7, <2>8, SimFields
  <2>10. /\ x.kind = "BUY" /\ x.id = <<"trade", i>>
         /\ x.needs \subseteq {plan[k].id : k \in DOMAIN plan}
         /\ plan' = Append(plan, x)
         /\ c1 \notin sim.unfunded
         /\ sim.fx[c1] \subseteq x.needs
         /\ c1 \in DOMAIN sim'.cash
         /\ DOMAIN sim.cash \subseteq DOMAIN sim'.cash
         /\ x.cash[c1] <= 0
         /\ \A c \in Currencies \ {c1} : x.cash[c] = 0
         /\ \A c \in Currencies : At(sim'.cash, c) = At(sim.cash, c) + x.cash[c]
    BY <1>4, <1>6, <2>1, <2>2, <2>5, <2>7, <2>8, <2>9
  <2>11. sim' = [sim EXCEPT !.todo = @ \ {i}, !.cash = sim'.cash,
                            !.holdings = sim'.holdings]
    BY <2>1, <2>8
  <2>12. \E x1 \in IntentRecords :
                      /\ x1.kind = "BUY" /\ x1.id = <<"trade", i>>
                      /\ x1.needs \subseteq {plan[k].id : k \in DOMAIN plan}
                      /\ plan' = Append(plan, x1)
                      /\ TradeCurrency(i) \notin sim.unfunded
                      /\ sim.fx[TradeCurrency(i)] \subseteq x1.needs
                      /\ TradeCurrency(i) \in DOMAIN sim'.cash
                      /\ DOMAIN sim.cash \subseteq DOMAIN sim'.cash
                      /\ x1.cash[TradeCurrency(i)] <= 0
                      /\ \A c \in Currencies \ {TradeCurrency(i)} : x1.cash[c] = 0
                      /\ \A c \in Currencies :
                            At(sim'.cash, c) = At(sim.cash, c) + x1.cash[c]
    BY <2>7, <2>10 DEF c1
  <2> QED
    BY <1>1, <1>2, <2>8, <2>11, <2>12
<1> QED
  BY <1>5, <1>6

\* The three ends of the funding of a currency
NotNeeded(c) ==
    /\ Required(c) <= At(sim.cash, c)
    /\ plan' = plan /\ sim'.fx = sim.fx /\ sim'.unfunded = sim.unfunded
    /\ sim'.hard = sim.hard /\ sim'.pending = sim.pending
    /\ \A d \in Currencies : At(sim'.cash, d) = At(sim.cash, d)

LeftUnfunded(c) ==
    /\ plan' = plan /\ sim'.fx = sim.fx /\ sim'.unfunded = sim.unfunded \cup {c}
    /\ sim'.hard \/ sim'.pending
    /\ sim.hard => sim'.hard
    /\ sim.pending => sim'.pending
    /\ \A d \in Currencies : At(sim'.cash, d) = At(sim.cash, d)

FundedBy(c, x) ==
    /\ plan' = Append(plan, x)
    /\ x.kind = "FX" /\ x.id = <<"fx", Cardinality(FxIntents) + 1>> /\ x.needs = {}
    /\ sim'.fx[c] = sim.fx[c] \cup {x.id}
    /\ \A d \in Currencies \ {c} : sim'.fx[d] = sim.fx[d]
    /\ sim'.unfunded = sim.unfunded
    /\ sim'.hard = sim.hard /\ sim'.pending = sim.pending
    /\ x.cash[c] >= 0 /\ x.cash[c] + 1 >= Required(c) - At(sim.cash, c)
    /\ \A d \in Currencies \ {c} :
          /\ x.cash[d] <= 0
          /\ x.cash[d] < 0 => At(sim.cash, d) + x.cash[d] >= 0
    /\ \A d \in Currencies : At(sim'.cash, d) = At(sim.cash, d) + x.cash[d]

LEMMA FxCount ==
    ASSUME plan \in Seq(IntentRecords)
    PROVE  /\ IsFiniteSet(FxIntents) /\ Cardinality(FxIntents) \in Nat
           /\ <<"fx", Cardinality(FxIntents) + 1>> \in Ids
<1>1. FxIntents \in SUBSET (1 .. Len(plan)) /\ Len(plan) \in Nat
  BY SeqTypes DEF FxIntents
<1>2. IsFiniteSet(1 .. Len(plan))
  BY <1>1, FS_Interval
<1>3. IsFiniteSet(FxIntents)
  BY <1>1, <1>2, FS_Subset
<1>4. Cardinality(FxIntents) \in Nat
  BY <1>3, FS_CardinalityType
<1> QED
  BY <1>3, <1>4 DEF Ids

LEMMA FundStep ==
    ASSUME SimTypeOK, FundCurrency
    PROVE  \E c \in sim.todo :
              /\ sim.stage = "funding" /\ c \in BoughtCurrencies
              /\ sim' \in SimRecords
              /\ sim'.stage = sim.stage /\ sim'.todo = sim.todo \ {c}
              /\ sim'.trades = sim.trades /\ sim'.missing = sim.missing
              /\ NotNeeded(c) \/ LeftUnfunded(c) \/ \E x \in IntentRecords : FundedBy(c, x)
<1> DEFINE c == Min(sim.todo)
           need == Required(c) - At(sim.cash, c)
           source == Source(c, need)
           tried == {d \in Candidates(c) : source = None \/ ~Preferred(source, d)}
           unrated == sim.unrated \cup {<<c, d>> : d \in {d \in tried : ~HasRate(c, d)}}
           cash == [d \in DOMAIN sim.cash \cup {c} \cup
                         {d \in tried : HasRate(c, d)} |-> At(sim.cash, d)]
           id == <<"fx", Cardinality(FxIntents) + 1>>
<1>1. /\ sim.stage = "funding" /\ sim.todo # {} /\ sim.todo \subseteq BoughtCurrencies
      /\ sim \in SimRecords /\ simInput \in SimInputs /\ plan \in Seq(IntentRecords)
  BY DEF FundCurrency, SimTypeOK
<1>2. c \in sim.todo /\ c \in BoughtCurrencies /\ c \in Currencies
  <2>1. sim.todo \in SUBSET Nat
    BY SimFields
  <2> QED
    BY <1>1, <2>1, MinIsLeast, TradesOfTypes
<1>3. \/ /\ need <= 0
         /\ sim' = [sim EXCEPT !.todo = @ \ {c}, !.cash = Added(@, c, 0)]
         /\ plan' = plan
      \/ /\ need > 0 /\ source # None
         /\ LET buys == Quantized(need, 1)
                sells == QuantizedIn(need, c, source)
            IN
            /\ sim' = [sim EXCEPT
                  !.todo = @ \ {c}, !.unrated = unrated,
                  !.cash = Added(Added(cash, source, -sells), c, buys),
                  !.fx[FundedCurrency(c, source)] = @ \cup {id}]
            /\ plan' = Append(plan, Intent("FX", id,
                  [d \in {c, source} |-> IF d = c THEN buys ELSE -sells], {}))
      \/ /\ need > 0 /\ source = None
         /\ sim' = [sim EXCEPT
               !.todo = @ \ {c}, !.unrated = unrated, !.cash = cash,
               !.unfunded = @ \cup {c},
               !.pending = @ \/ /\ unrated # {}
                                /\ ~simInput.options.block_on_missing_fx,
               !.hard = @ \/ unrated = {} \/ simInput.options.block_on_missing_fx]
         /\ plan' = plan
  BY DEF FundCurrency, FxIntents
<1> HIDE DEF c
<1>4. need \in Int /\ At(sim.cash, c) \in Int /\ Required(c) \in Int
  BY <1>2, RequiredType, SimFields
<1>5. Candidates(c) \subseteq Currencies
  BY SimFields, SimAssumption DEF Candidates
<1>6. unrated \in SUBSET (Currencies \X Currencies)
  BY <1>2, <1>5, SimFields
<1>7. /\ cash \in LedgersOf(Currencies)
      /\ \A d \in Currencies : At(cash, d) = At(sim.cash, d) /\ At(cash, d) \in Int
  <2> DEFINE D == DOMAIN sim.cash \cup {c} \cup {d \in tried : HasRate(c, d)}
  <2>1. D \in SUBSET Currencies /\ DOMAIN sim.cash \subseteq D
    BY <1>2, <1>5, SimFields
  <2>2. cash = [d \in D |-> At(sim.cash, d)]
    OBVIOUS
  <2> HIDE DEF D, cash
  <2>3. cash \in [D -> Int]
    BY <2>1, <2>2, SimFields
  <2>4. \A d \in Currencies : At(cash, d) = At(sim.cash, d)
    <3>1. ASSUME NEW d \in Currencies PROVE At(cash, d) = At(sim.cash, d)
      <4>1. CASE d \in D
        BY <2>2, <4>1 DEF At
      <4>2. CASE d \notin D
        BY <2>1, <2>2, <4>2 DEF At
      <4> QED
        BY <4>1, <4>2
    <3> QED
      BY <3>1
  <2> QED
    BY <2>1, <2>3, <2>4, SimFields DEF LedgersOf
<1> HIDE DEF unrated, cash, tried
<1>8. CASE need <= 0
  <2>1. sim' = [sim EXCEPT !.todo = @ \ {c}, !.cash = Added(@, c, 0)] /\ plan' = plan
    BY <1>3, <1>4, <1>8
  <2> DEFINE cash1 == Added(sim.cash, c, 0)
  <2>2. /\ cash1 \in LedgersOf(Currencies)
        /\ At(cash1, c) = At(sim.cash, c) + 0
        /\ \A d \in Currencies \ {c} : At(cash1, d) = At(sim.cash, d)
    BY <1>2, SimFields, AddedType, AddedHere, AddedElsewhere
  <2> HIDE DEF cash1
  <2>3. sim' = [sim EXCEPT !.todo = @ \ {c}, !.cash = cash1]
    BY <2>1 DEF cash1
  <2>4. /\ sim' \in SimRecords /\ sim'.cash = cash1 /\ sim'.todo = sim.todo \ {c}
        /\ sim'.stage = sim.stage /\ sim'.trades = sim.trades
        /\ sim'.missing = sim.missing
        /\ sim'.fx = sim.fx /\ sim'.unfunded = sim.unfunded
        /\ sim'.hard = sim.hard /\ sim'.pending = sim.pending
    BY <1>1, <2>2, <2>3 DEF SimRecords
  <2>5. \A d \in Currencies : At(sim'.cash, d) = At(sim.cash, d)
    BY <1>4, <2>2, <2>4
  <2>6. Required(c) <= At(sim.cash, c)
    BY <1>4, <1>8
  <2>7. NotNeeded(c)
    BY <2>1, <2>4, <2>5, <2>6 DEF NotNeeded
  <2> QED
    BY <1>1, <1>2, <2>4, <2>7
<1>9. CASE need > 0 /\ source = None
  <2> DEFINE pending == sim.pending \/ /\ unrated # {}
                                       /\ ~simInput.options.block_on_missing_fx
             hard == sim.hard \/ unrated = {} \/ simInput.options.block_on_missing_fx
  <2>1. sim' = [sim EXCEPT
               !.todo = @ \ {c}, !.unrated = unrated, !.cash = cash,
               !.unfunded = @ \cup {c}, !.pending = pending, !.hard = hard]
        /\ plan' = plan
    BY <1>3, <1>4, <1>9
  <2>2. /\ hard \in BOOLEAN /\ pending \in BOOLEAN /\ (sim.hard => hard)
        /\ (sim.pending => pending) /\ (hard \/ pending)
    OBVIOUS
  <2> HIDE DEF hard, pending
  <2>3. /\ sim' \in SimRecords /\ sim'.cash = cash /\ sim'.todo = sim.todo \ {c}
        /\ sim'.stage = sim.stage /\ sim'.trades = sim.trades
        /\ sim'.missing = sim.missing
        /\ sim'.fx = sim.fx /\ sim'.unfunded = sim.unfunded \cup {c}
        /\ sim'.hard = hard /\ sim'.pending = pending
    BY <1>1, <1>2, <1>6, <1>7, <2>1, <2>2 DEF SimRecords
  <2>4. LeftUnfunded(c)
    BY <1>7, <2>1, <2>2, <2>3 DEF LeftUnfunded
  <2> QED
    BY <1>1, <1>2, <2>3, <2>4
<1>10. CASE need > 0 /\ source # None
  <2> DEFINE buys == Quantized(need, 1)
             sells == QuantizedIn(need, c, source)
             lost == -sells
             cash1 == Added(cash, source, lost)
             cash2 == Added(cash1, c, buys)
             paid == [d \in {c, source} |-> IF d = c THEN buys ELSE lost]
             x == Intent("FX", id, paid, {})
             new == [sim EXCEPT !.todo = @ \ {c}, !.unrated = unrated, !.cash = cash2,
                                !.fx[FundedCurrency(c, source)] = @ \cup {id}]
  <2>1. sim' = new /\ plan' = Append(plan, x)
    BY <1>3, <1>4, <1>10
  <2>2. need \in Nat
    BY <1>4, <1>10
  <2>3. /\ source \in Currencies /\ source # c
        /\ sells \in Nat /\ At(sim.cash, source) >= sells
    BY <1>2, <1>10, <2>2, SourcePays
  <2>4. buys \in Nat /\ buys + 1 >= need
    BY <2>2, QuantizedLoss
  <2>5. id \in Ids
    BY <1>1, FxCount
  <2>6. new.fx = [sim.fx EXCEPT ![c] = @ \cup {id}]
    BY <1>1 DEF FundedCurrency, SimRecords
  <2>7. /\ new.todo = sim.todo \ {c} /\ new.unrated = unrated /\ new.cash = cash2
        /\ new.stage = sim.stage /\ new.trades = sim.trades
        /\ new.missing = sim.missing /\ new.unfunded = sim.unfunded
        /\ new.hard = sim.hard /\ new.pending = sim.pending
        /\ new.holdings = sim.holdings
    BY <1>1 DEF SimRecords
  <2> HIDE DEF need, source, id, buys, sells
  <2>8. lost \in Int /\ lost <= 0 /\ At(sim.cash, source) + lost >= 0
    BY <1>7, <2>3, SimFields
  <2> HIDE DEF lost
  <2>9. /\ cash1 \in LedgersOf(Currencies)
        /\ At(cash1, source) = At(cash, source) + lost
        /\ \A d \in Currencies \ {source} : At(cash1, d) = At(cash, d)
    BY <1>7, <2>3, <2>8, AddedType, AddedHere, AddedElsewhere
  <2> HIDE DEF cash1
  <2>10. \A d \in Currencies : At(cash1, d) \in Int
    BY <2>9, LedgerTypes
  <2>11. /\ cash2 \in LedgersOf(Currencies)
         /\ At(cash2, c) = At(cash1, c) + buys
         /\ \A d \in Currencies \ {c} : At(cash2, d) = At(cash1, d)
    BY <1>2, <2>4, <2>9, <2>10, AddedType, AddedHere, AddedElsewhere
  <2>12. /\ At(paid, c) = buys /\ At(paid, source) = lost
         /\ \A d \in Currencies \ {c, source} : At(paid, d) = 0
         /\ \A d \in Currencies : At(paid, d) \in Int
    BY <2>3, <2>4, <2>8 DEF At
  <2> HIDE DEF cash2, paid
  <2>13. /\ x \in IntentRecords /\ x.kind = "FX" /\ x.id = id /\ x.needs = {}
         /\ \A d \in Currencies : x.cash[d] = At(paid, d)
    BY <2>5, <2>12, IntentTypes
  <2> DEFINE fx1 == [sim.fx EXCEPT ![c] = @ \cup {id}]
  <2>14. new \in SimRecords
    <3>1. fx1 \in [Currencies -> SUBSET Ids]
      BY <1>2, <2>5, SimFields
    <3>2. new = [sim EXCEPT !.todo = @ \ {c}, !.unrated = unrated, !.cash = cash2,
                            !.fx = fx1]
      BY <1>1 DEF FundedCurrency, SimRecords
    <3> HIDE DEF fx1, new
    <3>3. sim.todo \ {c} \in SUBSET Nat
      BY SimFields
    <3> QED
      BY <1>1, <1>6, <2>11, <3>1, <3>2, <3>3 DEF SimRecords
  <2> HIDE DEF x, new
  <2>15. \A d \in Currencies : At(sim'.cash, d) = At(sim.cash, d) + x.cash[d]
    <3>1. SUFFICES ASSUME NEW d \in Currencies
                   PROVE  At(sim'.cash, d) = At(sim.cash, d) + x.cash[d]
      OBVIOUS
    <3>2. At(sim'.cash, d) = At(cash2, d)
      BY <2>1, <2>7
    <3>3. x.cash[d] = At(paid, d) /\ At(cash, d) = At(sim.cash, d) /\ At(cash, d) \in Int
      BY <1>7, <2>13
    <3>4. CASE d = c
      <4>1. At(cash2, c) = At(cash, c) + buys
        BY <1>2, <2>3, <2>9, <2>11
      <4> QED
        BY <2>12, <3>2, <3>3, <3>4, <4>1
    <3>5. CASE d = source
      <4>1. At(cash2, source) = At(cash, source) + lost
        BY <2>3, <2>9, <2>11
      <4> QED
        BY <2>12, <3>2, <3>3, <3>5, <4>1
    <3>6. CASE d \notin {c, source}
      <4>1. At(cash2, d) = At(cash, d)
        BY <2>9, <2>11, <3>6
      <4> QED
        BY <2>12, <3>2, <3>3, <3>6, <4>1
    <3> QED
      BY <3>4, <3>5, <3>6
  <2>16. FundedBy(c, x)
    <3>1. x.cash[c] = buys /\ x.cash[c] >= 0 /\ x.cash[c] + 1 >= Required(c) - At(sim.cash, c)
      BY <1>2, <2>4, <2>12, <2>13 DEF need
    <3>2. \A d \in Currencies \ {c} :
             /\ x.cash[d] <= 0
             /\ x.cash[d] < 0 => At(sim.cash, d) + x.cash[d] >= 0
      BY <2>3, <2>8, <2>12, <2>13
    <3>3. /\ sim'.fx[c] = sim.fx[c] \cup {x.id}
          /\ \A d \in Currencies \ {c} : sim'.fx[d] = sim.fx[d]
      BY <1>2, <2>1, <2>6, <2>13, SimFields
    <3>4. x.id = <<"fx", Cardinality(FxIntents) + 1>>
      BY <2>13 DEF id
    <3>5. /\ plan' = Append(plan, x) /\ x.kind = "FX" /\ x.needs = {}
          /\ sim'.unfunded = sim.unfunded
          /\ sim'.hard = sim.hard /\ sim'.pending = sim.pending
      BY <2>1, <2>7, <2>13
    <3> QED
      BY <2>15, <3>1, <3>2, <3>3, <3>4, <3>5 DEF FundedBy
  <2> QED
    BY <1>1, <1>2, <2>1, <2>7, <2>13, <2>14, <2>16
<1> QED
  BY <1>3, <1>8, <1>9, <1>10

-----------------------------------------------------------------------------
\* What a step keeps

LEMMA AppendFacts ==
    ASSUME plan \in Seq(IntentRecords), NEW x \in IntentRecords, plan' = Append(plan, x)
    PROVE  /\ Len(plan) \in Nat /\ DOMAIN plan = 1 .. Len(plan)
           /\ plan' \in Seq(IntentRecords) /\ Len(plan') = Len(plan) + 1
           /\ DOMAIN plan' = DOMAIN plan \cup {Len(plan) + 1}
           /\ Len(plan) + 1 \notin DOMAIN plan
           /\ \A n \in DOMAIN plan : plan'[n] = plan[n]
           /\ plan'[Len(plan) + 1] = x
OBVIOUS

LEMMA AppendBefore ==
    ASSUME plan \in Seq(IntentRecords), NEW x \in IntentRecords, plan' = Append(plan, x)
    PROVE  /\ x.kind \in {"CASH_FLOW", "SELL"} =>
                 BeforeFunding' = BeforeFunding \cup {Len(plan) + 1}
           /\ x.kind \notin {"CASH_FLOW", "SELL"} => BeforeFunding' = BeforeFunding
           /\ x.kind = "FX" => FxIntents' = FxIntents \cup {Len(plan) + 1}
           /\ x.kind # "FX" => FxIntents' = FxIntents
<1> DEFINE k == Len(plan) + 1
<1>1. /\ DOMAIN plan' = DOMAIN plan \cup {k}
      /\ \A n \in DOMAIN plan : plan'[n] = plan[n]
      /\ plan'[k] = x
  BY AppendFacts
<1>2. /\ BeforeFunding' = {n \in DOMAIN plan' : plan'[n].kind \in {"CASH_FLOW", "SELL"}}
      /\ FxIntents' = {n \in DOMAIN plan' : plan'[n].kind = "FX"}
  BY DEF BeforeFunding, FxIntents
<1> HIDE DEF k
<1>3. /\ x.kind \in {"CASH_FLOW", "SELL"} => BeforeFunding' = BeforeFunding \cup {k}
      /\ x.kind \notin {"CASH_FLOW", "SELL"} => BeforeFunding' = BeforeFunding
  BY <1>1, <1>2 DEF BeforeFunding
<1>4. /\ x.kind = "FX" => FxIntents' = FxIntents \cup {k}
      /\ x.kind # "FX" => FxIntents' = FxIntents
  BY <1>1, <1>2 DEF FxIntents
<1> QED
  BY <1>3, <1>4 DEF k

LEMMA OrderKept ==
    ASSUME SimTypeOK, PlanInOrder, NEW x \in IntentRecords, plan' = Append(plan, x),
           sim'.stage = sim.stage,
           x.kind \in {"CASH_FLOW", "SELL"} <=> sim.stage \in EarlyStages
    PROVE  PlanInOrder'
<1>1. /\ Len(plan) \in Nat /\ DOMAIN plan = 1 .. Len(plan)
      /\ DOMAIN plan' = DOMAIN plan \cup {Len(plan) + 1}
  BY AppendFacts DEF SimTypeOK
<1>2. CASE sim.stage \in EarlyStages
  <2>1. BeforeFunding' = DOMAIN plan \cup {Len(plan) + 1}
    BY <1>2, AppendBefore DEF PlanInOrder, SimTypeOK
  <2>2. BeforeFunding' = 1 .. (Len(plan) + 1)
    BY <1>1, <2>1
  <2>3. Cardinality(1 .. (Len(plan) + 1)) = Len(plan) + 1
    BY <1>1, FS_Interval
  <2>4. BeforeFunding' = 1 .. Cardinality(BeforeFunding')
    BY <2>2, <2>3
  <2> QED
    BY <1>1, <2>1, <2>4 DEF PlanInOrder
<1>3. CASE sim.stage \notin EarlyStages
  <2>1. BeforeFunding' = BeforeFunding
    BY <1>3, AppendBefore DEF SimTypeOK
  <2> QED
    BY <1>3, <2>1 DEF PlanInOrder
<1> QED
  BY <1>2, <1>3

LEMMA OrderStays ==
    ASSUME PlanInOrder, plan' = plan,
           sim'.stage \in EarlyStages => sim.stage \in EarlyStages
    PROVE  PlanInOrder'
<1>1. BeforeFunding' = BeforeFunding
  BY DEF BeforeFunding
<1> QED
  BY <1>1 DEF PlanInOrder

LEMMA NoBuysYet ==
    ASSUME IdsAreGiven, sim.stage \notin LateStages
    PROVE  \A n \in DOMAIN plan : plan[n].kind # "BUY"
BY DEF IdsAreGiven, FlowGiven, TradeGiven, FxGiven

LEMMA FlowStays ==
    ASSUME NEW n \in DOMAIN plan, FlowGiven(n), plan'[n] = plan[n], simInput' = simInput,
           sim'.stage = "flows" => sim.stage = "flows" /\ sim'.todo \subseteq sim.todo
    PROVE  FlowGiven(n)'
BY DEF FlowGiven

LEMMA TradeStays ==
    ASSUME NEW n \in DOMAIN plan, TradeGiven(n), plan'[n] = plan[n], simInput' = simInput,
           sim.trades \subseteq sim'.trades,
           sim'.stage \in {"sells", "funding"} \cup LateStages,
           sim.stage \in LateStages => sim'.stage \in LateStages,
           sim'.stage \in {"sells", "buys"} =>
              \A i \in TradesOf(plan[n].kind) :
                 (sim.stage \in {"sells", "buys"} => i \notin sim.todo) => i \notin sim'.todo
    PROVE  TradeGiven(n)'
<1>1. PICK i \in TradesOf(plan[n].kind) :
         /\ plan[n].id = <<"trade", i>>
         /\ sim.stage \in {"sells", "buys"} => i \notin sim.todo
  BY DEF TradeGiven
<1>2. i \in {j \in sim'.trades : Trade(j)'.side = plan'[n].kind}
  BY <1>1, SameInput DEF TradesOf
<1>3. sim'.stage \in {"sells", "buys"} => i \notin sim'.todo
  BY <1>1
<1>4. /\ plan'[n].id = <<"trade", i>>
      /\ plan'[n].kind \in {"SELL", "BUY"}
      /\ plan'[n].kind = "BUY" => sim'.stage \in LateStages
  BY <1>1 DEF TradeGiven
<1> QED
  BY <1>2, <1>3, <1>4 DEF TradeGiven, TradesOf

LEMMA FxStays ==
    ASSUME NEW n \in DOMAIN plan, FxGiven(n), plan'[n] = plan[n],
           Cardinality(FxIntents) \in Nat, Cardinality(FxIntents') \in Nat,
           Cardinality(FxIntents) <= Cardinality(FxIntents')
    PROVE  FxGiven(n)'
<1>1. PICK k \in 1 .. Cardinality(FxIntents) : plan[n].id = <<"fx", k>>
  BY DEF FxGiven
<1>2. k \in 1 .. Cardinality(FxIntents')
  BY <1>1
<1> QED
  BY <1>1, <1>2 DEF FxGiven

LEMMA IdsStayUnique ==
    ASSUME plan \in Seq(IntentRecords), IdsAreUnique,
           NEW x \in IntentRecords, plan' = Append(plan, x),
           \A m \in DOMAIN plan : plan[m].id # x.id
    PROVE  IdsAreUnique'
<1>1. SUFFICES ASSUME NEW n \in DOMAIN plan', NEW m \in 1 .. (n - 1)
               PROVE  plan'[m].id # plan'[n].id
  BY DEF IdsAreUnique
<1>2. /\ Len(plan) \in Nat /\ DOMAIN plan = 1 .. Len(plan)
      /\ DOMAIN plan' = DOMAIN plan \cup {Len(plan) + 1}
      /\ \A k \in DOMAIN plan : plan'[k] = plan[k]
      /\ plan'[Len(plan) + 1] = x
  BY AppendFacts
<1>3. CASE n \in DOMAIN plan
  <2>1. m \in DOMAIN plan
    BY <1>2, <1>3
  <2> QED
    BY <1>2, <1>3, <2>1 DEF IdsAreUnique
<1>4. CASE n = Len(plan) + 1
  <2>1. m \in DOMAIN plan
    BY <1>2, <1>4
  <2> QED
    BY <1>2, <1>4, <2>1
<1> QED
  BY <1>2, <1>3, <1>4

LEMMA NeedsStayFirst ==
    ASSUME plan \in Seq(IntentRecords), NeedsComeFirst,
           NEW x \in IntentRecords, plan' = Append(plan, x),
           x.needs \subseteq {plan[m].id : m \in DOMAIN plan},
           \A c \in Currencies : sim'.fx[c] \subseteq sim.fx[c] \cup {x.id}
    PROVE  NeedsComeFirst'
<1>1. /\ Len(plan) \in Nat /\ DOMAIN plan = 1 .. Len(plan)
      /\ DOMAIN plan' = DOMAIN plan \cup {Len(plan) + 1}
      /\ \A k \in DOMAIN plan : plan'[k] = plan[k]
      /\ plan'[Len(plan) + 1] = x
  BY AppendFacts
<1>2. {plan[m].id : m \in DOMAIN plan} \cup {x.id} \subseteq {plan'[m].id : m \in DOMAIN plan'}
  BY <1>1
<1>3. \A c \in Currencies : sim'.fx[c] \subseteq {plan'[m].id : m \in DOMAIN plan'}
  BY <1>2 DEF NeedsComeFirst
<1>4. ASSUME NEW n \in DOMAIN plan'
      PROVE  plan'[n].needs \subseteq {plan'[m].id : m \in 1 .. (n - 1)}
  <2>1. \A m \in 1 .. (n - 1) : m \in DOMAIN plan /\ plan'[m].id = plan[m].id
    BY <1>1
  <2>2. {plan'[m].id : m \in 1 .. (n - 1)} = {plan[m].id : m \in 1 .. (n - 1)}
    BY <2>1
  <2>3. CASE n \in DOMAIN plan
    <3>1. plan[n].needs \subseteq {plan[m].id : m \in 1 .. (n - 1)}
      BY <2>3 DEF NeedsComeFirst
    <3> QED
      BY <1>1, <2>2, <2>3, <3>1
  <2>4. CASE n = Len(plan) + 1
    <3>1. 1 .. (n - 1) = DOMAIN plan
      BY <1>1, <2>4
    <3> QED
      BY <1>1, <2>2, <2>4, <3>1
  <2> QED
    BY <1>1, <2>3, <2>4
<1> QED
  BY <1>3, <1>4 DEF NeedsComeFirst

LEMMA LedgerStillMatches ==
    ASSUME SimTypeOK, LedgerMatches, simInput' = simInput,
           NEW x \in IntentRecords, plan' = Append(plan, x),
           \A c \in Currencies : At(sim'.cash, c) = At(sim.cash, c) + x.cash[c]
    PROVE  LedgerMatches'
<1>1. SUFFICES ASSUME NEW c \in Currencies
               PROVE  At(sim.cash, c)' = BalanceAfter(Len(plan), c)'
  BY DEF LedgerMatches
<1>2. BalanceAfter(Len(plan), c)' = BalanceAfter(Len(plan), c) + x.cash[c]
  BY BalanceGrows DEF SimTypeOK
<1>3. At(sim.cash, c)' = At(sim'.cash, c)
  BY DEF At
<1> QED
  BY <1>2, <1>3 DEF LedgerMatches

LEMMA LedgerStays ==
    ASSUME LedgerMatches, simInput' = simInput, plan' = plan,
           \A c \in Currencies : At(sim'.cash, c) = At(sim.cash, c)
    PROVE  LedgerMatches'
<1>1. SUFFICES ASSUME NEW c \in Currencies
               PROVE  At(sim.cash, c)' = BalanceAfter(Len(plan), c)'
  BY DEF LedgerMatches
<1>2. BalanceAfter(Len(plan), c)' = BalanceAfter(Len(plan), c)
  <2>1. \A f : At(f, c)' = At(f, c)
    BY DEF At
  <2> QED
    BY <2>1 DEF BalanceAfter, At
<1>3. At(sim.cash, c)' = At(sim'.cash, c)
  BY DEF At
<1> QED
  BY <1>2, <1>3 DEF LedgerMatches

LEMMA SpendingStillCovered ==
    ASSUME SimTypeOK, LedgerMatches, SpendingCovered, simInput' = simInput,
           NEW x \in IntentRecords, plan' = Append(plan, x),
           \A c \in Currencies : At(sim'.cash, c) = At(sim.cash, c) + x.cash[c],
           \/ \A n \in DOMAIN plan : plan[n].kind # "BUY"
           \/ /\ DOMAIN sim.cash \subseteq DOMAIN sim'.cash
              /\ \A c \in Currencies : x.cash[c] <= 0,
           x.kind \notin {"CASH_FLOW", "SELL"} =>
              \A c \in Currencies : x.cash[c] < 0 =>
                 \/ At(sim.cash, c) + x.cash[c] >= 0
                 \/ x.kind = "BUY" /\ c \in DOMAIN sim'.cash
    PROVE  SpendingCovered'
<1>1. /\ Len(plan) \in Nat /\ DOMAIN plan = 1 .. Len(plan)
      /\ DOMAIN plan' = DOMAIN plan \cup {Len(plan) + 1}
      /\ \A n \in DOMAIN plan : plan'[n] = plan[n]
      /\ plan'[Len(plan) + 1] = x
      /\ \A n \in DOMAIN plan : plan[n] \in IntentRecords
  BY AppendFacts, SeqTypes DEF SimTypeOK
<1>2. SUFFICES ASSUME NEW n \in DOMAIN plan' \ BeforeFunding', NEW c \in Currencies,
                      plan'[n].cash[c] < 0
               PROVE  \/ BalanceAfter(n, c)' >= 0
                      \/ /\ plan'[n].kind = "BUY" /\ c \in DOMAIN sim'.cash
                         /\ BalanceAfter(n, c)' >= At(sim'.cash, c)
  BY DEF SpendingCovered, At
<1>3. /\ At(sim.cash, c) \in Int /\ x.cash[c] \in Int
      /\ At(sim'.cash, c) = At(sim.cash, c) + x.cash[c]
  BY SimFields DEF IntentRecords
<1>4. CASE n \in DOMAIN plan
  <2>1. n \notin BeforeFunding
    BY <1>1, <1>2, <1>4 DEF BeforeFunding
  <2>2. \/ BalanceAfter(n, c) >= 0
        \/ /\ plan[n].kind = "BUY" /\ c \in DOMAIN sim.cash
           /\ BalanceAfter(n, c) >= At(sim.cash, c)
    BY <1>1, <1>2, <1>4, <2>1 DEF SpendingCovered
  <2>3. BalanceAfter(n, c)' = BalanceAfter(n, c) /\ BalanceAfter(n, c) \in Int
    BY <1>1, <1>4, BalanceGrows, BalanceTypes DEF SimTypeOK
  <2>4. CASE \A k \in DOMAIN plan : plan[k].kind # "BUY"
    BY <1>4, <2>2, <2>3, <2>4
  <2>5. CASE /\ DOMAIN sim.cash \subseteq DOMAIN sim'.cash
             /\ \A d \in Currencies : x.cash[d] <= 0
    BY <1>1, <1>3, <1>4, <2>2, <2>3, <2>5
  <2> QED
    BY <2>4, <2>5
<1>5. CASE n = Len(plan) + 1
  <2>1. plan'[n] = x /\ n \in Nat
    BY <1>1, <1>5
  <2>2. x.kind \notin {"CASH_FLOW", "SELL"}
    BY <1>2, <2>1 DEF BeforeFunding
  <2>3. BalanceAfter(n, c)' = BalanceAfter(Len(plan), c) + x.cash[c]
    BY <1>5, <2>1, BalanceGrows DEF SimTypeOK
  <2>4. BalanceAfter(n, c)' = At(sim'.cash, c)
    BY <1>3, <2>3 DEF LedgerMatches
  <2> QED
    BY <1>2, <1>3, <2>1, <2>2, <2>4
<1> QED
  BY <1>1, <1>4, <1>5

LEMMA SpendingStays ==
    ASSUME SpendingCovered, simInput' = simInput, plan' = plan,
           \A c \in Currencies : At(sim'.cash, c) = At(sim.cash, c),
           \/ \A n \in DOMAIN plan : plan[n].kind # "BUY"
           \/ sim'.cash = sim.cash
    PROVE  SpendingCovered'
<1>1. SUFFICES ASSUME NEW n \in DOMAIN plan' \ BeforeFunding', NEW c \in Currencies,
                      plan'[n].cash[c] < 0
               PROVE  \/ BalanceAfter(n, c)' >= 0
                      \/ /\ plan'[n].kind = "BUY" /\ c \in DOMAIN sim'.cash
                         /\ BalanceAfter(n, c)' >= At(sim'.cash, c)
  BY DEF SpendingCovered, At
<1>2. BalanceAfter(n, c)' = BalanceAfter(n, c)
  BY BalanceStays
<1>3. n \in DOMAIN plan \ BeforeFunding
  BY <1>1 DEF BeforeFunding
<1>4. \/ BalanceAfter(n, c) >= 0
      \/ /\ plan[n].kind = "BUY" /\ c \in DOMAIN sim.cash
         /\ BalanceAfter(n, c) >= At(sim.cash, c)
  BY <1>1, <1>3 DEF SpendingCovered
<1> QED
  BY <1>2, <1>3, <1>4

LEMMA IntervalSize ==
    ASSUME NEW n \in Nat
    PROVE  IsFiniteSet(1 .. n) /\ Cardinality(1 .. n) = n
<1>1. IsFiniteSet(1 .. n) /\ Cardinality(1 .. n) = IF 1 > n THEN 0 ELSE n - 1 + 1
  BY FS_Interval
<1> QED
  BY <1>1

LEMMA MissingTypes ==
    ASSUME SimTypeOK, NEW c \in Currencies
    PROVE  /\ Cardinality(BeforeFunding) \in 0 .. Len(plan)
           /\ BalanceAfter(Cardinality(BeforeFunding), c) \in Int
           /\ Missing(c) \in Int
<1>1. Cardinality(BeforeFunding) \in 0 .. Len(plan)
  <2>1. /\ Len(plan) \in Nat /\ DOMAIN plan = 1 .. Len(plan)
    BY SeqTypes DEF SimTypeOK
  <2>2. BeforeFunding \subseteq 1 .. Len(plan)
    BY <2>1 DEF BeforeFunding
  <2>3. IsFiniteSet(1 .. Len(plan)) /\ Cardinality(1 .. Len(plan)) = Len(plan)
    BY <2>1, IntervalSize
  <2>4. IsFiniteSet(BeforeFunding) /\ Cardinality(BeforeFunding) <= Len(plan)
    BY <2>2, <2>3, FS_Subset
  <2>5. Cardinality(BeforeFunding) \in Nat
    BY <2>4, FS_CardinalityType
  <2> QED
    BY <2>1, <2>4, <2>5
<1>2. BalanceAfter(Cardinality(BeforeFunding), c) \in Int
  BY <1>1, BalanceTypes DEF SimTypeOK
<1> QED
  BY <1>1, <1>2, RequiredType DEF Missing

\* What the buys of a currency lack is settled when the funding begins.
LEMMA MissingStays ==
    ASSUME SimTypeOK, PlanInOrder, simInput' = simInput, sim'.trades = sim.trades,
           NEW c \in Currencies,
           \/ plan' = plan
           \/ \E x \in IntentRecords :
                 plan' = Append(plan, x) /\ x.kind \notin {"CASH_FLOW", "SELL"}
    PROVE  /\ BalanceAfter(Cardinality(BeforeFunding), c)'
                 = BalanceAfter(Cardinality(BeforeFunding), c)
           /\ Missing(c)' = Missing(c)
           /\ BalanceAfter(Cardinality(BeforeFunding), c) \in Int
<1> DEFINE k == Cardinality(BeforeFunding)
           B(n) == At(simInput.cash, c) + Sums([m \in DOMAIN plan' |-> plan'[m].cash[c]])[n]
<1>1. BeforeFunding' = BeforeFunding
  <2>1. CASE plan' = plan
    BY <2>1 DEF BeforeFunding
  <2>2. CASE \E x \in IntentRecords :
                plan' = Append(plan, x) /\ x.kind \notin {"CASH_FLOW", "SELL"}
    BY <2>2, AppendBefore DEF SimTypeOK
  <2> QED
    BY <2>1, <2>2
<1>2. k \in 0 .. Len(plan)
  BY MissingTypes
<1>3. \A n : BalanceAfter(n, c)' = B(n)
  BY DEF BalanceAfter, At
<1>4. \A n \in 0 .. Len(plan) : BalanceAfter(n, c)' = BalanceAfter(n, c)
  <2>1. CASE plan' = plan
    BY <2>1, BalanceStays
  <2>2. CASE \E x \in IntentRecords : plan' = Append(plan, x)
    BY <2>2, BalanceGrows DEF SimTypeOK
  <2> QED
    BY <2>1, <2>2
<1>5. BalanceAfter(Cardinality(BeforeFunding), c)' = B(Cardinality(BeforeFunding'))
  BY DEF BalanceAfter, At
<1> HIDE DEF B
<1>6. B(Cardinality(BeforeFunding')) = BalanceAfter(k, c)
  BY <1>1, <1>2, <1>3, <1>4
<1>7. BalanceAfter(k, c) \in Int
  BY <1>2, BalanceTypes DEF SimTypeOK
<1>8. Required(c)' = Required(c)
  BY SameTrades
<1>9. Missing(c)' = Required(c)' - BalanceAfter(Cardinality(BeforeFunding), c)'
  BY DEF Missing
<1> QED
  BY <1>5, <1>6, <1>7, <1>8, <1>9 DEF Missing

LEMMA BringsStays ==
    ASSUME NEW m \in DOMAIN plan, NEW c \in Currencies, Brings(m, c),
           plan'[m] = plan[m], sim.fx[c] \subseteq sim'.fx[c], Missing(c)' = Missing(c)
    PROVE  Brings(m, c)'
BY DEF Brings

-----------------------------------------------------------------------------
\* The steps keep the invariant.

LEMMA ReceiveKeeps ==
    ASSUME SimInv, ReceiveSimulation
    PROVE  SimInv'
<1> DEFINE input == simInput'
           new == [stage |-> "flows", todo |-> DOMAIN input.flows,
               cash |-> input.cash, holdings |-> input.holdings,
               trades |-> {}, fx |-> [c \in Currencies |-> {}], unfunded |-> {},
               missing |-> {}, unrated |-> {}, hard |-> FALSE,
               pending |-> FALSE]
<1>1. /\ plan' = <<>> /\ proposalStatus' = None /\ input \in SimInputs /\ sim' = new
  BY DEF ReceiveSimulation, SimInv
<1>2. /\ input.cash \in LedgersOf(Currencies) /\ input.holdings \in LedgersOf(Instruments)
      /\ DOMAIN input.flows \subseteq Nat
  BY <1>1, AnyInputTypes
<1> HIDE DEF input
<1>3. /\ new \in SimRecords /\ new.stage = "flows" /\ new.todo = DOMAIN input.flows
      /\ new.cash = input.cash /\ new.trades = {} /\ new.unfunded = {}
      /\ \A c \in Currencies : new.fx[c] = {}
  BY <1>2 DEF SimRecords, EarlyStages
<1> HIDE DEF new
<1>4. SimTypeOK'
  BY <1>1, <1>3 DEF SimTypeOK, input
<1>5. BeforeFunding' = {} /\ DOMAIN plan' = {} /\ PlanInOrder'
  <2>1. DOMAIN plan' = {}
    BY <1>1
  <2>2. BeforeFunding' = {}
    BY <2>1 DEF BeforeFunding
  <2>3. Cardinality({}) = 0
    BY FS_EmptySet
  <2> QED
    BY <2>1, <2>2, <2>3 DEF PlanInOrder
<1>6. /\ IdsAreGiven' /\ IdsAreUnique' /\ NeedsComeFirst' /\ SpendingCovered'
      /\ BuysAreLinked'
  BY <1>1, <1>3, <1>5
     DEF IdsAreGiven, IdsAreUnique, NeedsComeFirst, SpendingCovered, BuysAreLinked
<1>7. LedgerMatches'
  <2>1. SUFFICES ASSUME NEW c \in Currencies
                 PROVE  At(sim.cash, c)' = BalanceAfter(Len(plan), c)'
    BY DEF LedgerMatches
  <2>2. At(sim.cash, c)' = At(input.cash, c) /\ At(input.cash, c) \in Int
    BY <1>1, <1>2, <1>3, LedgerTypes DEF At
  <2>3. BalanceAfter(Len(plan), c)' = At(input.cash, c) + Sums(CashIn(plan', c))[Len(plan')]
    BY DEF BalanceAfter, At, CashIn, input
  <2>4. plan' \in Seq(IntentRecords) /\ Len(plan') = 0
    BY <1>1
  <2>5. CashIn(plan', c) \in Seq(Int)
    BY <2>4, CashInTypes
  <2>6. Sums(CashIn(plan', c))[0] = 0
    BY <2>5, SumsStep
  <2> QED
    BY <2>2, <2>3, <2>4, <2>6
<1>8. FundingInv' /\ TradesAccounted' /\ ReadyMeans'
  BY <1>1, <1>3, SimAssumption DEF FundingInv, TradesAccounted, ReadyMeans, LateStages
<1> QED
  BY <1>1, <1>3, <1>4, <1>5, <1>6, <1>7, <1>8 DEF SimInv

LEMMA CashFlowKeeps ==
    ASSUME SimInv, ApplyCashFlow
    PROVE  SimInv'
<1>1. /\ SimTypeOK /\ PlanInOrder /\ IdsAreGiven /\ IdsAreUnique
      /\ NeedsComeFirst /\ LedgerMatches /\ SpendingCovered /\ TradesAccounted
      /\ simInput' = simInput /\ proposalStatus' = proposalStatus
  BY DEF SimInv, ApplyCashFlow
<1>2. PICK n \in sim.todo, x \in IntentRecords :
              /\ sim.stage = "flows" /\ n \in DOMAIN simInput.flows
              /\ x.kind = "CASH_FLOW" /\ x.id = <<"cf", n>> /\ x.needs = {}
              /\ plan' = Append(plan, x)
              /\ sim' \in SimRecords
              /\ sim' = [sim EXCEPT !.todo = @ \ {n}, !.cash = sim'.cash,
                                    !.hard = sim'.hard]
              /\ sim.hard => sim'.hard
              /\ \A c \in Currencies : At(sim'.cash, c) = At(sim.cash, c) + x.cash[c]
  BY <1>1, CashFlowStep
<1>3. /\ sim'.stage = "flows" /\ sim'.todo = sim.todo \ {n} /\ sim'.trades = sim.trades
      /\ sim'.fx = sim.fx /\ sim'.unfunded = sim.unfunded
      /\ sim'.pending = sim.pending
  BY <1>1, <1>2 DEF SimTypeOK, SimRecords
<1>4. PICK new :
         /\ new = Len(plan) + 1
         /\ plan \in Seq(IntentRecords) /\ plan' \in Seq(IntentRecords)
         /\ DOMAIN plan' = DOMAIN plan \cup {new}
         /\ \A k \in DOMAIN plan : plan'[k] = plan[k]
         /\ plan'[new] = x
  BY <1>1, <1>2, AppendFacts DEF SimTypeOK
<1>5. proposalStatus' = None
  BY <1>1, <1>2 DEF SimTypeOK
<1>6. SimTypeOK'
  <2>1. sim'.trades \subseteq {i \in DOMAIN simInput'.trades : Priced(i)'}
    BY <1>1, <1>3, SameInput DEF SimTypeOK
  <2>2. sim'.todo \subseteq DOMAIN simInput'.flows
    BY <1>1, <1>2, <1>3 DEF SimTypeOK
  <2> QED
    BY <1>1, <1>2, <1>3, <1>4, <1>5, <2>1, <2>2 DEF SimTypeOK
<1>7. PlanInOrder'
  BY <1>1, <1>2, <1>3, OrderKept DEF EarlyStages
<1>8. \A k \in DOMAIN plan : FlowGiven(k) /\ FlowGiven(k)'
  <2>1. SUFFICES ASSUME NEW k \in DOMAIN plan PROVE FlowGiven(k) /\ FlowGiven(k)'
    OBVIOUS
  <2>2. plan[k].kind \in {"CASH_FLOW", "SELL"}
    BY <1>1, <1>2 DEF PlanInOrder, EarlyStages, BeforeFunding
  <2>3. FlowGiven(k)
    BY <1>1, <1>2, <2>2 DEF IdsAreGiven, TradeGiven, FxGiven, LateStages
  <2> QED
    BY <1>1, <1>2, <1>3, <1>4, <2>3, FlowStays
<1>9. IdsAreGiven'
  <2>1. FlowGiven(new)'
    BY <1>1, <1>2, <1>3, <1>4 DEF FlowGiven
  <2> QED
    BY <1>4, <1>8, <2>1 DEF IdsAreGiven
<1>10. IdsAreUnique'
  <2>1. \A m \in DOMAIN plan : plan[m].id # x.id
    BY <1>2, <1>8 DEF FlowGiven
  <2> QED
    BY <1>1, <1>2, <1>4, <2>1, IdsStayUnique
<1>11. NeedsComeFirst'
  BY <1>1, <1>2, <1>3, <1>4, NeedsStayFirst
<1>12. LedgerMatches'
  BY <1>1, <1>2, LedgerStillMatches
<1>13. SpendingCovered'
  <2>1. \A k \in DOMAIN plan : plan[k].kind # "BUY"
    BY <1>8 DEF FlowGiven
  <2> QED
    BY <1>1, <1>2, <2>1, SpendingStillCovered
<1>14. BuysAreLinked'
  <2>1. \A k \in DOMAIN plan' : plan'[k].kind # "BUY"
    BY <1>2, <1>4, <1>8 DEF FlowGiven
  <2> QED
    BY <2>1 DEF BuysAreLinked
<1>15. FundingInv' /\ ReadyMeans'
  BY <1>3, <1>5, SimAssumption DEF FundingInv, ReadyMeans, LateStages
<1>16. TradesAccounted'
  <2>1. sim'.unfunded # {} => sim'.hard \/ sim'.pending
    BY <1>1, <1>2, <1>3 DEF TradesAccounted
  <2> QED
    BY <1>3, <2>1 DEF TradesAccounted, LateStages
<1> QED
  BY <1>3, <1>6, <1>7, <1>9, <1>10, <1>11, <1>12, <1>13, <1>14, <1>15, <1>16 DEF SimInv

LEMMA PlanStays ==
    ASSUME IdsAreUnique, NeedsComeFirst, plan' = plan, sim'.fx = sim.fx
    PROVE  IdsAreUnique' /\ NeedsComeFirst'
BY DEF IdsAreUnique, NeedsComeFirst

LEMMA BuildTradeKeeps ==
    ASSUME SimInv, BuildTradeIntent
    PROVE  SimInv'
<1>1. /\ SimTypeOK /\ PlanInOrder /\ IdsAreGiven /\ IdsAreUnique
      /\ NeedsComeFirst /\ LedgerMatches /\ SpendingCovered /\ TradesAccounted
      /\ simInput' = simInput /\ plan' = plan /\ proposalStatus' = proposalStatus
  BY DEF SimInv, BuildTradeIntent
<1>2. PICK i \in sim.todo :
              /\ sim.stage = "trades" /\ i \in DOMAIN simInput.trades
              /\ sim' \in SimRecords
              /\ sim' = [sim EXCEPT !.todo = @ \ {i}, !.trades = sim'.trades,
                                    !.missing = sim'.missing, !.hard = sim'.hard]
              /\ sim.trades \subseteq sim'.trades /\ sim.missing \subseteq sim'.missing
              /\ sim.hard => sim'.hard
              /\ sim'.trades \subseteq sim.trades \cup {i}
              /\ i \in sim'.trades => Priced(i)
              /\ \/ i \in sim'.trades
                 \/ sim'.hard \/ "shelf" \in sim'.missing
                 \/ ~Priced(i) /\ "price" \in sim'.missing
  BY <1>1, BuildTradeStep
<1>3. /\ sim'.stage = "trades" /\ sim'.todo = sim.todo \ {i} /\ sim'.cash = sim.cash
      /\ sim'.fx = sim.fx /\ sim'.unfunded = sim.unfunded /\ sim'.pending = sim.pending
  BY <1>1, <1>2 DEF SimTypeOK, SimRecords
<1>4. proposalStatus' = None
  BY <1>1, <1>2 DEF SimTypeOK
<1>5. SimTypeOK'
  <2>1. sim'.trades \subseteq {j \in DOMAIN simInput'.trades : Priced(j)'}
    BY <1>1, <1>2, SameInput DEF SimTypeOK
  <2>2. sim'.todo \subseteq DOMAIN simInput'.trades
    BY <1>1, <1>2, <1>3 DEF SimTypeOK
  <2> QED
    BY <1>1, <1>2, <1>3, <1>4, <2>1, <2>2 DEF SimTypeOK
<1>6. PlanInOrder'
  BY <1>1, <1>2, <1>3, OrderStays
<1>7. \A k \in DOMAIN plan : FlowGiven(k) /\ FlowGiven(k)'
  <2>1. SUFFICES ASSUME NEW k \in DOMAIN plan PROVE FlowGiven(k) /\ FlowGiven(k)'
    OBVIOUS
  <2>2. plan[k].kind \in {"CASH_FLOW", "SELL"}
    BY <1>1, <1>2 DEF PlanInOrder, EarlyStages, BeforeFunding
  <2>3. FlowGiven(k)
    BY <1>1, <1>2, <2>2 DEF IdsAreGiven, TradeGiven, FxGiven, LateStages
  <2> QED
    BY <1>1, <1>2, <1>3, <2>3, FlowStays
<1>8. IdsAreGiven' /\ IdsAreUnique' /\ NeedsComeFirst'
  BY <1>1, <1>3, <1>7, PlanStays DEF IdsAreGiven
<1>9. \A k \in DOMAIN plan : plan[k].kind # "BUY"
  BY <1>7 DEF FlowGiven
<1>10. LedgerMatches' /\ SpendingCovered'
  BY <1>1, <1>3, <1>9, LedgerStays, SpendingStays
<1>11. BuysAreLinked' /\ FundingInv' /\ ReadyMeans'
  BY <1>1, <1>3, <1>4, <1>9, SimAssumption
     DEF BuysAreLinked, FundingInv, ReadyMeans, LateStages
<1>12. TradesAccounted'
  <2>1. sim'.unfunded # {} => sim'.hard \/ sim'.pending
    BY <1>1, <1>2, <1>3 DEF TradesAccounted
  <2>2. ASSUME NEW j \in DOMAIN simInput'.trades
        PROVE  j \in sim'.todo \/ j \in sim'.trades \/ Dropped(j)'
    <3>1. CASE j = i
      BY <1>1, <1>2, <3>1, SameInput DEF Dropped
    <3>2. CASE j # i
      <4>1. j \in sim.todo \/ j \in sim.trades \/ Dropped(j)
        BY <1>1, <1>2, <2>2 DEF TradesAccounted
      <4>2. Dropped(j) => Dropped(j)'
        BY <1>1, <1>2, SameInput DEF Dropped
      <4> QED
        BY <1>2, <1>3, <3>2, <4>1, <4>2
    <3> QED
      BY <3>1, <3>2
  <2> QED
    BY <1>3, <2>1, <2>2 DEF TradesAccounted, LateStages
<1> QED
  BY <1>3, <1>5, <1>6, <1>8, <1>10, <1>11, <1>12 DEF SimInv

LEMMA SellKeeps ==
    ASSUME SimInv, ApplySell
    PROVE  SimInv'
<1>1. /\ SimTypeOK /\ PlanInOrder /\ IdsAreGiven /\ IdsAreUnique
      /\ NeedsComeFirst /\ LedgerMatches /\ SpendingCovered /\ TradesAccounted
      /\ simInput' = simInput /\ proposalStatus' = proposalStatus
  BY DEF SimInv, ApplySell
<1>2. PICK i \in sim.todo, x \in IntentRecords :
              /\ sim.stage = "sells" /\ i \in TradesOf("SELL")
              /\ x.kind = "SELL" /\ x.id = <<"trade", i>> /\ x.needs = {}
              /\ plan' = Append(plan, x)
              /\ sim' \in SimRecords
              /\ sim' = [sim EXCEPT !.todo = @ \ {i}, !.cash = sim'.cash,
                                    !.holdings = sim'.holdings]
              /\ \A c \in Currencies : At(sim'.cash, c) = At(sim.cash, c) + x.cash[c]
  BY <1>1, SellStep
<1>3. /\ sim'.stage = "sells" /\ sim'.todo = sim.todo \ {i} /\ sim'.trades = sim.trades
      /\ sim'.fx = sim.fx /\ sim'.unfunded = sim.unfunded
      /\ sim'.missing = sim.missing /\ sim'.hard = sim.hard /\ sim'.pending = sim.pending
  BY <1>1, <1>2 DEF SimTypeOK, SimRecords
<1>4. PICK new :
         /\ new = Len(plan) + 1
         /\ plan \in Seq(IntentRecords) /\ plan' \in Seq(IntentRecords)
         /\ DOMAIN plan' = DOMAIN plan \cup {new}
         /\ \A k \in DOMAIN plan : plan'[k] = plan[k]
         /\ plan'[new] = x
  BY <1>1, <1>2, AppendFacts DEF SimTypeOK
<1>5. proposalStatus' = None
  BY <1>1, <1>2 DEF SimTypeOK
<1>6. \A side : TradesOf(side)' = TradesOf(side)
  BY <1>1, <1>3, SameTrades
<1>7. SimTypeOK'
  <2>1. sim'.trades \subseteq {j \in DOMAIN simInput'.trades : Priced(j)'}
    BY <1>1, <1>3, SameInput DEF SimTypeOK
  <2>2. sim'.todo \subseteq TradesOf("SELL")'
    BY <1>1, <1>2, <1>3, <1>6 DEF SimTypeOK
  <2> QED
    BY <1>1, <1>2, <1>3, <1>4, <1>5, <2>1, <2>2 DEF SimTypeOK
<1>8. PlanInOrder'
  BY <1>1, <1>2, <1>3, OrderKept DEF EarlyStages
<1>9. \A k \in DOMAIN plan : FlowGiven(k) \/ TradeGiven(k)
  BY <1>1, <1>2 DEF PlanInOrder, EarlyStages, BeforeFunding, IdsAreGiven, FxGiven
<1>10. IdsAreGiven'
  <2>1. TradeGiven(new)'
    <3>1. i \in TradesOf("SELL")'
      BY <1>2, <1>6
    <3> QED
      BY <1>2, <1>3, <1>4, <3>1 DEF TradeGiven
  <2>2. ASSUME NEW k \in DOMAIN plan PROVE FlowGiven(k)' \/ TradeGiven(k)'
    <3>1. CASE FlowGiven(k)
      BY <1>1, <1>3, <1>4, <3>1, FlowStays
    <3>2. CASE TradeGiven(k)
      BY <1>1, <1>2, <1>3, <1>4, <3>2, TradeStays
    <3> QED
      BY <1>9, <3>1, <3>2
  <2> QED
    BY <1>4, <2>1, <2>2 DEF IdsAreGiven
<1>11. IdsAreUnique'
  <2>1. \A m \in DOMAIN plan : plan[m].id # x.id
    BY <1>2, <1>9 DEF FlowGiven, TradeGiven
  <2> QED
    BY <1>1, <1>2, <1>4, <2>1, IdsStayUnique
<1>12. NeedsComeFirst'
  BY <1>1, <1>2, <1>3, <1>4, NeedsStayFirst
<1>13. LedgerMatches'
  BY <1>1, <1>2, LedgerStillMatches
<1>14. \A k \in DOMAIN plan : plan[k].kind # "BUY"
  BY <1>1, <1>2, NoBuysYet DEF LateStages
<1>15. SpendingCovered'
  BY <1>1, <1>2, <1>14, SpendingStillCovered
<1>16. BuysAreLinked' /\ FundingInv' /\ ReadyMeans'
  <2>1. \A k \in DOMAIN plan' : plan'[k].kind # "BUY"
    BY <1>2, <1>4, <1>14
  <2> QED
    BY <1>3, <1>5, <2>1, SimAssumption DEF BuysAreLinked, FundingInv, ReadyMeans, LateStages
<1>17. \A j : (InPlan(j) => InPlan(j)') /\ InPlan(i)'
  BY <1>2, <1>4 DEF InPlan
<1>18. TradesAccounted'
  <2>1. sim'.unfunded # {} => sim'.hard \/ sim'.pending
    BY <1>1, <1>3 DEF TradesAccounted
  <2>2. ASSUME NEW j \in DOMAIN simInput'.trades PROVE j \in sim'.trades \/ Dropped(j)'
    <3>1. j \in sim.trades \/ Dropped(j)
      BY <1>1, <1>2, <2>2 DEF TradesAccounted
    <3> QED
      BY <1>1, <1>3, <3>1, SameInput DEF Dropped
  <2>3. ASSUME NEW j \in TradesOf("SELL")' PROVE j \in sim'.todo \/ InPlan(j)'
    <3>1. j \in sim.todo \/ InPlan(j)
      BY <1>1, <1>2, <1>6, <2>3 DEF TradesAccounted
    <3> QED
      BY <1>3, <1>17, <3>1
  <2> QED
    BY <1>3, <2>1, <2>2, <2>3 DEF TradesAccounted, LateStages
<1> QED
  BY <1>3, <1>7, <1>8, <1>10, <1>11, <1>12, <1>13, <1>15, <1>16, <1>18 DEF SimInv

\* What the funding of a currency settles, whichever way it ends
LEMMA FundingKept ==
    ASSUME SimTypeOK, PlanInOrder, FundingInv, simInput' = simInput,
           sim.stage = "funding", sim'.stage = "funding", sim'.trades = sim.trades,
           NEW c \in sim.todo, c \in Currencies, sim'.todo = sim.todo \ {c},
           sim.unfunded \subseteq sim'.unfunded,
           \A d \in Currencies : sim.fx[d] \subseteq sim'.fx[d],
           \A d \in Currencies \ {c} : At(sim'.cash, d) <= At(sim.cash, d),
           \A d \in Currencies : At(sim'.cash, d) \in Int,
           \/ plan' = plan
           \/ \E x \in IntentRecords :
                 plan' = Append(plan, x) /\ x.kind \notin {"CASH_FLOW", "SELL"},
           simInput.options.auto_funding =>
              c \in sim'.unfunded \/ Missing(c) <= 0 \/ \E m \in DOMAIN plan' : Brings(m, c)'
    PROVE  FundingInv'
<1>1. SUFFICES ASSUME simInput.options.auto_funding
               PROVE  /\ \A d \in sim'.todo :
                            At(sim'.cash, d) <= BalanceAfter(Cardinality(BeforeFunding), d)'
                      /\ \A d \in BoughtCurrencies' :
                            \/ d \in sim'.todo \/ d \in sim'.unfunded
                            \/ Missing(d)' <= 0
                            \/ \E m \in DOMAIN plan' : Brings(m, d)'
  BY DEF FundingInv, At
<1>2. \A d \in Currencies :
         /\ BalanceAfter(Cardinality(BeforeFunding), d)'
               = BalanceAfter(Cardinality(BeforeFunding), d)
         /\ Missing(d)' = Missing(d)
         /\ BalanceAfter(Cardinality(BeforeFunding), d) \in Int
  <2>1. CASE plan' = plan
    BY <2>1, MissingStays
  <2>2. CASE \E x \in IntentRecords :
                plan' = Append(plan, x) /\ x.kind \notin {"CASH_FLOW", "SELL"}
    BY <2>2, MissingStays
  <2> QED
    BY <2>1, <2>2
<1>3. BoughtCurrencies' = BoughtCurrencies /\ BoughtCurrencies \subseteq Currencies
      /\ sim.todo \subseteq BoughtCurrencies
  BY SameTrades, TradesOfTypes DEF SimTypeOK
<1>4. \A m \in DOMAIN plan : m \in DOMAIN plan' /\ plan'[m] = plan[m]
  BY AppendFacts DEF SimTypeOK
<1>5. ASSUME NEW d \in sim'.todo
      PROVE  At(sim'.cash, d) <= BalanceAfter(Cardinality(BeforeFunding), d)'
  <2>1. d \in sim.todo /\ d \in Currencies \ {c}
    BY <1>3, <1>5
  <2>2. At(sim.cash, d) <= BalanceAfter(Cardinality(BeforeFunding), d)
    BY <1>1, <2>1 DEF FundingInv
  <2>3. At(sim.cash, d) \in Int /\ At(sim'.cash, d) \in Int
        /\ At(sim'.cash, d) <= At(sim.cash, d)
    BY <2>1, SimFields
  <2> QED
    BY <1>2, <2>1, <2>2, <2>3
<1>6. ASSUME NEW d \in BoughtCurrencies
      PROVE  \/ d \in sim'.todo \/ d \in sim'.unfunded
             \/ Missing(d)' <= 0
             \/ \E m \in DOMAIN plan' : Brings(m, d)'
  <2>1. CASE d = c
    BY <1>1, <1>2, <2>1
  <2>2. CASE d # c
    <3>1. \/ d \in sim.todo \/ d \in sim.unfunded
          \/ Missing(d) <= 0
          \/ \E m \in DOMAIN plan : Brings(m, d)
      BY <1>1, <1>6 DEF FundingInv
    <3>2. ASSUME NEW m \in DOMAIN plan, Brings(m, d) PROVE m \in DOMAIN plan' /\ Brings(m, d)'
      BY <1>2, <1>3, <1>4, <3>2, BringsStays
    <3> QED
      BY <1>2, <1>3, <2>2, <3>1, <3>2
  <2> QED
    BY <2>1, <2>2
<1> QED
  BY <1>3, <1>5, <1>6

LEMMA FundKeeps ==
    ASSUME SimInv, FundCurrency
    PROVE  SimInv'
<1>1. /\ SimTypeOK /\ PlanInOrder /\ IdsAreGiven /\ IdsAreUnique
      /\ NeedsComeFirst /\ LedgerMatches /\ SpendingCovered /\ TradesAccounted /\ FundingInv
      /\ simInput' = simInput /\ proposalStatus' = proposalStatus
  BY DEF SimInv, FundCurrency
<1>2. PICK c \in sim.todo :
              /\ sim.stage = "funding" /\ c \in BoughtCurrencies
              /\ sim' \in SimRecords
              /\ sim'.stage = sim.stage /\ sim'.todo = sim.todo \ {c}
              /\ sim'.trades = sim.trades /\ sim'.missing = sim.missing
              /\ NotNeeded(c) \/ LeftUnfunded(c) \/ \E x \in IntentRecords : FundedBy(c, x)
  BY <1>1, FundStep
<1>3. c \in Currencies /\ plan \in Seq(IntentRecords) /\ proposalStatus' = None
  BY <1>1, <1>2, TradesOfTypes DEF SimTypeOK
<1>4. /\ \A side : TradesOf(side)' = TradesOf(side)
      /\ BoughtCurrencies' = BoughtCurrencies
  BY <1>1, <1>2, SameTrades
<1>5. /\ \A d \in Currencies : At(sim.cash, d) \in Int
      /\ \A d \in Currencies : At(sim'.cash, d) \in Int
  BY <1>1, <1>2, SimFields, LedgerTypes DEF SimRecords
<1>6. /\ plan' \in Seq(IntentRecords)
      /\ \A k \in DOMAIN plan : k \in DOMAIN plan' /\ plan'[k] = plan[k]
      /\ sim.unfunded \subseteq sim'.unfunded
      /\ sim.hard => sim'.hard
      /\ sim.pending => sim'.pending
      /\ sim'.unfunded # sim.unfunded => sim'.hard \/ sim'.pending
      /\ \A d \in Currencies : sim.fx[d] \subseteq sim'.fx[d]
      /\ \A d \in Currencies \ {c} : At(sim'.cash, d) <= At(sim.cash, d)
  <2>1. CASE NotNeeded(c)
    BY <1>3, <1>5, <2>1 DEF NotNeeded
  <2>2. CASE LeftUnfunded(c)
    BY <1>3, <1>5, <2>2 DEF LeftUnfunded
  <2>3. ASSUME NEW x \in IntentRecords, FundedBy(c, x)
        PROVE  /\ plan' \in Seq(IntentRecords)
               /\ \A k \in DOMAIN plan : k \in DOMAIN plan' /\ plan'[k] = plan[k]
               /\ sim'.unfunded = sim.unfunded
               /\ sim'.hard = sim.hard /\ sim'.pending = sim.pending
               /\ \A d \in Currencies : sim.fx[d] \subseteq sim'.fx[d]
               /\ \A d \in Currencies \ {c} : At(sim'.cash, d) <= At(sim.cash, d)
    <3>1. \A d \in Currencies : x.cash[d] \in Int
      BY DEF IntentRecords
    <3>2. plan' = Append(plan, x)
      BY <2>3 DEF FundedBy
    <3>3. \A d \in Currencies \ {c} : At(sim'.cash, d) <= At(sim.cash, d)
      BY <1>5, <2>3, <3>1 DEF FundedBy
    <3>4. /\ plan' \in Seq(IntentRecords)
          /\ \A k \in DOMAIN plan : k \in DOMAIN plan' /\ plan'[k] = plan[k]
      BY <1>3, <3>2, AppendFacts
    <3> QED
      BY <2>3, <3>3, <3>4 DEF FundedBy
  <2> QED
    BY <1>2, <2>1, <2>2, <2>3
<1>7. SimTypeOK'
  <2>1. sim'.trades \subseteq {j \in DOMAIN simInput'.trades : Priced(j)'}
    BY <1>1, <1>2, SameInput DEF SimTypeOK
  <2>2. sim'.todo \subseteq BoughtCurrencies'
    BY <1>1, <1>2, <1>4 DEF SimTypeOK
  <2> QED
    BY <1>1, <1>2, <1>3, <1>6, <2>1, <2>2 DEF SimTypeOK
<1>8. \A k \in DOMAIN plan : plan[k].kind # "BUY"
  BY <1>1, <1>2, NoBuysYet DEF LateStages
<1>9. \A k \in DOMAIN plan : (FlowGiven(k) => FlowGiven(k)') /\ (TradeGiven(k) => TradeGiven(k)')
  BY <1>1, <1>2, <1>6, FlowStays, TradeStays DEF LateStages
<1>10. TradesAccounted'
  <2>1. sim'.unfunded # {} => sim'.hard \/ sim'.pending
    BY <1>1, <1>6 DEF TradesAccounted
  <2>2. ASSUME NEW j \in DOMAIN simInput'.trades PROVE j \in sim'.trades \/ Dropped(j)'
    <3>1. j \in sim.trades \/ Dropped(j)
      BY <1>1, <1>2, <2>2 DEF TradesAccounted
    <3> QED
      BY <1>1, <1>2, <1>6, <3>1, SameInput DEF Dropped
  <2>3. ASSUME NEW j \in TradesOf("SELL")' PROVE InPlan(j)'
    <3>1. InPlan(j)
      BY <1>1, <1>2, <1>4, <2>3 DEF TradesAccounted
    <3> QED
      BY <1>6, <3>1 DEF InPlan
  <2> QED
    BY <1>2, <2>1, <2>2, <2>3 DEF TradesAccounted, LateStages
<1>11. ReadyMeans'
  BY <1>3, SimAssumption DEF ReadyMeans
<1>12. ASSUME plan' = plan, sim'.fx = sim.fx,
              \A d \in Currencies : At(sim'.cash, d) = At(sim.cash, d),
              simInput.options.auto_funding => c \in sim'.unfunded \/ Missing(c) <= 0
       PROVE  SimInv'
  <2>1. PlanInOrder'
    BY <1>1, <1>2, <1>12, OrderStays
  <2>2. IdsAreGiven'
    <3>1. FxIntents' = FxIntents
      BY <1>12 DEF FxIntents
    <3>2. \A k \in DOMAIN plan : FxGiven(k) => FxGiven(k)'
      BY <1>12, <3>1 DEF FxGiven
    <3> QED
      BY <1>1, <1>9, <1>12, <3>2 DEF IdsAreGiven
  <2>3. IdsAreUnique' /\ NeedsComeFirst' /\ LedgerMatches' /\ SpendingCovered'
    BY <1>1, <1>8, <1>12, PlanStays, LedgerStays, SpendingStays
  <2>4. BuysAreLinked'
    BY <1>8, <1>12 DEF BuysAreLinked
  <2>5. FundingInv'
    BY <1>1, <1>2, <1>3, <1>5, <1>6, <1>12, FundingKept
  <2> QED
    BY <1>2, <1>7, <1>10, <1>11, <2>1, <2>2, <2>3, <2>4, <2>5 DEF SimInv
<1>13. CASE NotNeeded(c)
  <2>1. simInput.options.auto_funding => Missing(c) <= 0
    <3>1. SUFFICES ASSUME simInput.options.auto_funding PROVE Missing(c) <= 0
      OBVIOUS
    <3>2. At(sim.cash, c) <= BalanceAfter(Cardinality(BeforeFunding), c)
      BY <1>1, <1>2, <3>1 DEF FundingInv
    <3>3. Required(c) <= At(sim.cash, c)
      BY <1>13 DEF NotNeeded
    <3>4. BalanceAfter(Cardinality(BeforeFunding), c) \in Int
          /\ Required(c) \in Int /\ At(sim.cash, c) \in Int
      BY <1>1, <1>2, <1>3, <1>5, <1>13, MissingStays, RequiredType DEF NotNeeded
    <3> QED
      BY <3>2, <3>3, <3>4 DEF Missing
  <2> QED
    BY <1>12, <1>13, <2>1 DEF NotNeeded
<1>14. CASE LeftUnfunded(c)
  BY <1>12, <1>14 DEF LeftUnfunded
<1>15. ASSUME NEW x \in IntentRecords, FundedBy(c, x)
       PROVE  SimInv'
  <2>1. /\ plan' = Append(plan, x)
        /\ x.kind = "FX" /\ x.id = <<"fx", Cardinality(FxIntents) + 1>> /\ x.needs = {}
        /\ sim'.fx[c] = sim.fx[c] \cup {x.id}
        /\ \A d \in Currencies \ {c} : sim'.fx[d] = sim.fx[d]
        /\ sim'.unfunded = sim.unfunded
        /\ \A d \in Currencies : At(sim'.cash, d) = At(sim.cash, d) + x.cash[d]
        /\ \A d \in Currencies : x.cash[d] \in Int
    BY <1>15 DEF FundedBy, IntentRecords
  <2>2. PICK new :
           /\ new = Len(plan) + 1
           /\ DOMAIN plan' = DOMAIN plan \cup {new} /\ new \notin DOMAIN plan
           /\ \A k \in DOMAIN plan : plan'[k] = plan[k]
           /\ plan'[new] = x
    BY <1>3, <2>1, AppendFacts
  <2>3. PlanInOrder'
    BY <1>1, <1>2, <2>1, OrderKept DEF EarlyStages
  <2>4. /\ FxIntents' = FxIntents \cup {new} /\ new \notin FxIntents
        /\ Cardinality(FxIntents) \in Nat
        /\ Cardinality(FxIntents') = Cardinality(FxIntents) + 1
    <3>1. FxIntents' = FxIntents \cup {new} /\ new \notin FxIntents
      BY <1>3, <2>1, <2>2, AppendBefore DEF FxIntents
    <3>2. IsFiniteSet(FxIntents) /\ Cardinality(FxIntents) \in Nat
      BY <1>3, FxCount
    <3>3. Cardinality(FxIntents \cup {new}) = Cardinality(FxIntents) + 1
      BY <3>1, <3>2, FS_AddElement
    <3> QED
      BY <3>1, <3>2, <3>3
  <2>5. IdsAreGiven'
    <3>1. FxGiven(new)'
      BY <2>1, <2>2, <2>4 DEF FxGiven
    <3>2. \A k \in DOMAIN plan : FxGiven(k) => FxGiven(k)'
      <4>1. Cardinality(FxIntents') \in Nat /\ Cardinality(FxIntents) <= Cardinality(FxIntents')
        BY <2>4
      <4> QED
        BY <2>2, <2>4, <4>1, FxStays
    <3> QED
      BY <1>1, <1>9, <2>2, <3>1, <3>2 DEF IdsAreGiven
  <2>6. IdsAreUnique'
    <3>1. \A m \in DOMAIN plan : plan[m].id # x.id
      BY <1>1, <2>1, <2>4 DEF IdsAreGiven, FlowGiven, TradeGiven, FxGiven
    <3> QED
      BY <1>1, <1>3, <2>1, <3>1, IdsStayUnique
  <2>7. NeedsComeFirst'
    <3>1. \A d \in Currencies : sim'.fx[d] \subseteq sim.fx[d] \cup {x.id}
      BY <2>1
    <3> QED
      BY <1>1, <1>3, <2>1, <3>1, NeedsStayFirst
  <2>8. LedgerMatches'
    BY <1>1, <2>1, LedgerStillMatches
  <2>9. SpendingCovered'
    <3>1. \A d \in Currencies : x.cash[d] < 0 => At(sim.cash, d) + x.cash[d] >= 0
      BY <1>15, <2>1 DEF FundedBy
    <3> QED
      BY <1>1, <1>8, <2>1, <3>1, SpendingStillCovered
  <2>10. BuysAreLinked'
    BY <1>8, <2>1, <2>2 DEF BuysAreLinked
  <2>11. FundingInv'
    <3>1. ASSUME simInput.options.auto_funding PROVE Brings(new, c)'
      <4>1. At(sim.cash, c) <= BalanceAfter(Cardinality(BeforeFunding), c)
        BY <1>1, <1>2, <3>1 DEF FundingInv
      <4>2. x.cash[c] + 1 >= Required(c) - At(sim.cash, c)
        BY <1>15 DEF FundedBy
      <4>3. /\ BalanceAfter(Cardinality(BeforeFunding), c) \in Int
            /\ Missing(c)' = Missing(c)
        BY <1>1, <1>2, <1>3, <2>1, MissingStays
      <4>4. Required(c) \in Int /\ At(sim.cash, c) \in Int /\ x.cash[c] \in Int
        BY <1>1, <1>3, <1>5, <2>1, RequiredType
      <4>5. x.cash[c] + 1 >= Missing(c)
        BY <4>1, <4>2, <4>3, <4>4 DEF Missing
      <4> QED
        BY <2>1, <2>2, <4>3, <4>5 DEF Brings
    <3>2. simInput.options.auto_funding => \E m \in DOMAIN plan' : Brings(m, c)'
      BY <2>2, <3>1
    <3> QED
      BY <1>1, <1>2, <1>3, <1>5, <1>6, <2>1, <3>2, FundingKept
  <2> QED
    BY <1>2, <1>7, <1>10, <1>11, <2>3, <2>5, <2>6, <2>7, <2>8, <2>9, <2>10, <2>11 DEF SimInv
<1> QED
  BY <1>2, <1>13, <1>14, <1>15

LEMMA BuyKeeps ==
    ASSUME SimInv, ApplyBuy
    PROVE  SimInv'
<1>1. /\ SimTypeOK /\ PlanInOrder /\ IdsAreGiven /\ IdsAreUnique
      /\ NeedsComeFirst /\ LedgerMatches /\ SpendingCovered /\ TradesAccounted
      /\ FundingInv /\ BuysAreLinked
      /\ simInput' = simInput /\ proposalStatus' = proposalStatus
  BY DEF SimInv, ApplyBuy
<1>2. PICK i \in sim.todo :
              /\ sim.stage = "buys" /\ i \in TradesOf("BUY")
              /\ sim' \in SimRecords
              /\ sim' = [sim EXCEPT !.todo = @ \ {i}, !.cash = sim'.cash,
                                    !.holdings = sim'.holdings]
              /\ \/ /\ TradeCurrency(i) \in sim.unfunded
                    /\ sim'.cash = sim.cash /\ plan' = plan
                 \/ \E x \in IntentRecords :
                      /\ x.kind = "BUY" /\ x.id = <<"trade", i>>
                      /\ x.needs \subseteq {plan[k].id : k \in DOMAIN plan}
                      /\ plan' = Append(plan, x)
                      /\ TradeCurrency(i) \notin sim.unfunded
                      /\ sim.fx[TradeCurrency(i)] \subseteq x.needs
                      /\ TradeCurrency(i) \in DOMAIN sim'.cash
                      /\ DOMAIN sim.cash \subseteq DOMAIN sim'.cash
                      /\ x.cash[TradeCurrency(i)] <= 0
                      /\ \A c \in Currencies \ {TradeCurrency(i)} : x.cash[c] = 0
                      /\ \A c \in Currencies :
                            At(sim'.cash, c) = At(sim.cash, c) + x.cash[c]
  BY <1>1, BuyStep
<1>3. /\ sim'.stage = "buys" /\ sim'.todo = sim.todo \ {i} /\ sim'.trades = sim.trades
      /\ sim'.fx = sim.fx /\ sim'.unfunded = sim.unfunded
      /\ sim'.missing = sim.missing /\ sim'.hard = sim.hard /\ sim'.pending = sim.pending
  BY <1>1, <1>2 DEF SimTypeOK, SimRecords
<1>4. plan \in Seq(IntentRecords) /\ proposalStatus' = None
  BY <1>1, <1>2 DEF SimTypeOK
<1>5. /\ \A side : TradesOf(side)' = TradesOf(side)
      /\ BoughtCurrencies' = BoughtCurrencies
      /\ BoughtCurrencies \subseteq Currencies
  BY <1>1, <1>3, SameTrades, TradesOfTypes
<1>6. /\ plan' \in Seq(IntentRecords)
      /\ \A k \in DOMAIN plan : k \in DOMAIN plan' /\ plan'[k] = plan[k]
  BY <1>2, <1>4, AppendFacts
<1>7. \/ plan' = plan
      \/ \E x \in IntentRecords :
            plan' = Append(plan, x) /\ x.kind \notin {"CASH_FLOW", "SELL"}
  BY <1>2
<1>8. SimTypeOK'
  <2>1. sim'.trades \subseteq {j \in DOMAIN simInput'.trades : Priced(j)'}
    BY <1>1, <1>3, SameInput DEF SimTypeOK
  <2>2. sim'.todo \subseteq TradesOf("BUY")'
    BY <1>1, <1>2, <1>3, <1>5 DEF SimTypeOK
  <2> QED
    BY <1>1, <1>2, <1>3, <1>4, <1>6, <2>1, <2>2 DEF SimTypeOK
<1>9. \A k \in DOMAIN plan :
         /\ FlowGiven(k) => FlowGiven(k)'
         /\ TradeGiven(k) => TradeGiven(k)'
  BY <1>1, <1>2, <1>3, <1>6, FlowStays, TradeStays DEF LateStages
<1>10. \A k \in DOMAIN plan : FxGiven(k) => FxGiven(k)'
  <2>1. FxIntents' = FxIntents
    <3>1. CASE plan' = plan
      BY <3>1 DEF FxIntents
    <3>2. ASSUME NEW x \in IntentRecords, plan' = Append(plan, x), x.kind = "BUY"
          PROVE  FxIntents' = FxIntents
      BY <1>4, <3>2, AppendBefore
    <3> QED
      BY <1>2, <3>1, <3>2
  <2> QED
    BY <1>6, <2>1 DEF FxGiven
<1>11. FundingInv'
  <2>1. SUFFICES ASSUME simInput.options.auto_funding, NEW d \in BoughtCurrencies
                 PROVE  \/ d \in sim'.unfunded \/ Missing(d)' <= 0
                        \/ \E m \in DOMAIN plan' : Brings(m, d)'
    BY <1>1, <1>3, <1>5 DEF FundingInv
  <2>2. d \in sim.unfunded \/ Missing(d) <= 0 \/ \E m \in DOMAIN plan : Brings(m, d)
    BY <1>1, <1>2, <2>1 DEF FundingInv, LateStages
  <2>3. Missing(d)' = Missing(d)
    BY <1>1, <1>3, <1>5, <1>7, <2>1, MissingStays
  <2>4. \A m \in DOMAIN plan : Brings(m, d) => m \in DOMAIN plan' /\ Brings(m, d)'
    BY <1>3, <1>5, <1>6, <2>1, <2>3, BringsStays
  <2> QED
    BY <1>3, <2>2, <2>3, <2>4
<1>12. ReadyMeans'
  BY <1>4, SimAssumption DEF ReadyMeans
<1>13. ASSUME TradeCurrency(i) \in sim.unfunded \/ InPlan(i)' PROVE TradesAccounted'
  <2>1. sim'.unfunded # {} => sim'.hard \/ sim'.pending
    BY <1>1, <1>3 DEF TradesAccounted
  <2>2. ASSUME NEW j \in DOMAIN simInput'.trades PROVE j \in sim'.trades \/ Dropped(j)'
    <3>1. j \in sim.trades \/ Dropped(j)
      BY <1>1, <1>2, <2>2 DEF TradesAccounted
    <3> QED
      BY <1>1, <1>3, <3>1, SameInput DEF Dropped
  <2>3. \A j : InPlan(j) => InPlan(j)'
    BY <1>6 DEF InPlan
  <2>4. ASSUME NEW j \in TradesOf("SELL")' PROVE InPlan(j)'
    BY <1>1, <1>2, <1>5, <2>3, <2>4 DEF TradesAccounted, LateStages
  <2>5. ASSUME NEW j \in TradesOf("BUY")'
        PROVE  j \in sim'.todo \/ InPlan(j)' \/ sim'.unfunded # {}
    <3>1. j \in sim.todo \/ InPlan(j) \/ sim.unfunded # {}
      BY <1>1, <1>2, <1>5, <2>5 DEF TradesAccounted, LateStages
    <3> QED
      BY <1>3, <1>13, <2>3, <3>1
  <2> QED
    BY <1>3, <2>1, <2>2, <2>4, <2>5 DEF TradesAccounted, LateStages
<1>14. CASE TradeCurrency(i) \in sim.unfunded /\ sim'.cash = sim.cash /\ plan' = plan
  <2>1. PlanInOrder'
    BY <1>1, <1>2, <1>3, <1>14, OrderStays
  <2>2. IdsAreGiven'
    BY <1>1, <1>9, <1>10, <1>14 DEF IdsAreGiven
  <2>3. IdsAreUnique' /\ NeedsComeFirst' /\ LedgerMatches' /\ SpendingCovered'
    BY <1>1, <1>3, <1>14, PlanStays, LedgerStays, SpendingStays
  <2>4. BuysAreLinked'
    BY <1>1, <1>3, <1>5, <1>14 DEF BuysAreLinked
  <2>5. TradesAccounted'
    BY <1>13, <1>14
  <2> QED
    BY <1>3, <1>8, <1>11, <1>12, <2>1, <2>2, <2>3, <2>4, <2>5 DEF SimInv
<1>15. ASSUME NEW x \in IntentRecords,
              x.kind = "BUY", x.id = <<"trade", i>>,
              x.needs \subseteq {plan[k].id : k \in DOMAIN plan},
              plan' = Append(plan, x),
              TradeCurrency(i) \notin sim.unfunded,
              sim.fx[TradeCurrency(i)] \subseteq x.needs,
              TradeCurrency(i) \in DOMAIN sim'.cash,
              DOMAIN sim.cash \subseteq DOMAIN sim'.cash,
              x.cash[TradeCurrency(i)] <= 0,
              \A c \in Currencies \ {TradeCurrency(i)} : x.cash[c] = 0,
              \A c \in Currencies : At(sim'.cash, c) = At(sim.cash, c) + x.cash[c]
       PROVE  SimInv'
  <2>1. PICK new :
           /\ new = Len(plan) + 1
           /\ DOMAIN plan' = DOMAIN plan \cup {new} /\ new \notin DOMAIN plan
           /\ \A k \in DOMAIN plan : plan'[k] = plan[k]
           /\ plan'[new] = x
    BY <1>4, <1>15, AppendFacts
  <2>2. PlanInOrder'
    BY <1>1, <1>2, <1>3, <1>15, OrderKept DEF EarlyStages
  <2>3. IdsAreGiven'
    <3>1. TradeGiven(new)'
      <4>1. i \in TradesOf("BUY")'
        BY <1>2, <1>5
      <4> QED
        BY <1>3, <1>15, <2>1, <4>1 DEF TradeGiven, LateStages
    <3> QED
      BY <1>1, <1>9, <1>10, <2>1, <3>1 DEF IdsAreGiven
  <2>4. IdsAreUnique'
    <3>1. ASSUME NEW m \in DOMAIN plan, TradeGiven(m) PROVE plan[m].id # x.id
      BY <1>2, <1>15, <3>1 DEF TradeGiven
    <3>2. \A m \in DOMAIN plan : plan[m].id # x.id
      BY <1>1, <1>15, <3>1 DEF IdsAreGiven, FlowGiven, FxGiven
    <3> QED
      BY <1>1, <1>4, <1>15, <3>2, IdsStayUnique
  <2>5. NeedsComeFirst'
    BY <1>1, <1>3, <1>4, <1>15, NeedsStayFirst
  <2>6. LedgerMatches'
    BY <1>1, <1>15, LedgerStillMatches
  <2>7. \A c \in Currencies : x.cash[c] <= 0
    BY <1>15
  <2>8. SpendingCovered'
    <3>1. \A c \in Currencies : x.cash[c] < 0 => x.kind = "BUY" /\ c \in DOMAIN sim'.cash
      BY <1>15
    <3> QED
      BY <1>1, <1>15, <2>7, <3>1, SpendingStillCovered
  <2>9. BuysAreLinked'
    <3>1. SUFFICES ASSUME NEW n \in DOMAIN plan', NEW c \in Currencies,
                          plan'[n].kind = "BUY", plan'[n].cash[c] < 0
                   PROVE  /\ c \in BoughtCurrencies \ sim.unfunded
                          /\ sim.fx[c] \subseteq plan'[n].needs
      BY <1>3, <1>5 DEF BuysAreLinked
    <3>2. CASE n \in DOMAIN plan
      BY <1>1, <2>1, <3>1, <3>2 DEF BuysAreLinked
    <3>3. CASE n = new
      <4>1. c = TradeCurrency(i)
        BY <1>15, <2>1, <3>1, <3>3
      <4>2. c \in BoughtCurrencies
        BY <1>2, <4>1 DEF BoughtCurrencies
      <4> QED
        BY <1>15, <2>1, <3>3, <4>1, <4>2
    <3> QED
      BY <2>1, <3>2, <3>3
  <2>10. TradesAccounted'
    <3>1. InPlan(i)'
      BY <1>15, <2>1 DEF InPlan
    <3> QED
      BY <1>13, <3>1
  <2> QED
    BY <1>3, <1>8, <1>11, <1>12, <2>2, <2>3, <2>4, <2>5, <2>6, <2>8, <2>9, <2>10 DEF SimInv
<1> QED
  BY <1>2, <1>14, <1>15

\* A stage that ends leaves the plan and the portfolio alone.
OnlyStage ==
    /\ sim' \in SimRecords /\ simInput' = simInput /\ plan' = plan
    /\ sim'.cash = sim.cash /\ sim'.trades = sim.trades /\ sim'.fx = sim.fx
    /\ sim'.unfunded = sim.unfunded /\ sim'.missing = sim.missing
    /\ sim'.hard = sim.hard /\ sim'.pending = sim.pending

LEMMA OnlyStageKeeps ==
    ASSUME SimTypeOK, PlanInOrder, IdsAreUnique, NeedsComeFirst, LedgerMatches,
           SpendingCovered, BuysAreLinked, OnlyStage,
           sim'.stage \in EarlyStages => sim.stage \in EarlyStages
    PROVE  /\ PlanInOrder' /\ IdsAreUnique' /\ NeedsComeFirst' /\ LedgerMatches'
           /\ SpendingCovered' /\ BuysAreLinked'
           /\ sim'.trades \subseteq {j \in DOMAIN simInput'.trades : Priced(j)'}
           /\ \A side : TradesOf(side)' = TradesOf(side)
           /\ BoughtCurrencies' = BoughtCurrencies
           /\ \A j : InPlan(j)' <=> InPlan(j)
           /\ \A j : Dropped(j)' <=> Dropped(j)
           /\ \A d \in Currencies : Missing(d)' = Missing(d)
           /\ \A m \in DOMAIN plan, d \in Currencies : Brings(m, d) => Brings(m, d)'
<1>1. /\ simInput' = simInput /\ plan' = plan
      /\ sim'.cash = sim.cash /\ sim'.trades = sim.trades /\ sim'.fx = sim.fx
      /\ sim'.unfunded = sim.unfunded /\ sim'.missing = sim.missing
      /\ sim'.hard = sim.hard
  BY DEF OnlyStage
<1>2. PlanInOrder' /\ IdsAreUnique' /\ NeedsComeFirst'
  BY <1>1, OrderStays, PlanStays
<1>3. LedgerMatches' /\ SpendingCovered'
  BY <1>1, LedgerStays, SpendingStays
<1>4. /\ \A side : TradesOf(side)' = TradesOf(side)
      /\ BoughtCurrencies' = BoughtCurrencies
  BY <1>1, SameTrades
<1>5. BuysAreLinked'
  BY <1>1, <1>4 DEF BuysAreLinked
<1>6. /\ sim'.trades \subseteq {j \in DOMAIN simInput'.trades : Priced(j)'}
      /\ \A j : Dropped(j)' <=> Dropped(j)
  BY <1>1, SameInput DEF SimTypeOK, Dropped
<1>7. \A j : InPlan(j)' <=> InPlan(j)
  BY <1>1 DEF InPlan
<1>8. \A d \in Currencies : Missing(d)' = Missing(d)
  BY <1>1, MissingStays
<1>9. \A m \in DOMAIN plan, d \in Currencies : Brings(m, d) => Brings(m, d)'
  BY <1>1, <1>8, BringsStays
<1> QED
  BY <1>2, <1>3, <1>4, <1>5, <1>6, <1>7, <1>8, <1>9

LEMMA IdsStayGiven ==
    ASSUME SimTypeOK, IdsAreGiven, OnlyStage, sim'.stage # "flows",
           sim.stage \in {"sells", "funding"} \cup LateStages =>
              sim'.stage \in {"funding"} \cup LateStages,
           sim.stage \in LateStages => sim'.stage \in LateStages \ {"buys"},
           sim'.stage = "buys" => sim'.todo \subseteq TradesOf("BUY")
    PROVE  IdsAreGiven'
<1>1. simInput' = simInput /\ plan' = plan /\ sim'.trades = sim.trades
  BY DEF OnlyStage
<1>2. SUFFICES ASSUME NEW n \in DOMAIN plan
               PROVE  FlowGiven(n)' \/ TradeGiven(n)' \/ FxGiven(n)'
  BY <1>1 DEF IdsAreGiven
<1>3. CASE FlowGiven(n)
  BY <1>1, <1>3, FlowStays
<1>4. CASE TradeGiven(n)
  <2>1. /\ sim.stage \in {"sells", "funding"} \cup LateStages
        /\ plan[n].kind \in {"SELL", "BUY"}
        /\ plan[n].kind = "BUY" => sim.stage \in LateStages
    BY <1>4 DEF TradeGiven
  <2>2. sim'.stage \in {"sells", "buys"} => \A i \in TradesOf(plan[n].kind) : i \notin sim'.todo
    <3>1. SUFFICES ASSUME sim'.stage = "buys", NEW i \in TradesOf(plan[n].kind)
                   PROVE  i \notin sim'.todo
      BY <2>1 DEF LateStages
    <3>2. plan[n].kind = "SELL"
      BY <2>1, <3>1
    <3> QED
      BY <3>1, <3>2, TradesOfTypes
  <2>3. TradeGiven(n)'
    BY <1>1, <1>4, <2>1, <2>2, TradeStays
  <2> QED
    BY <2>3
<1>5. CASE FxGiven(n)
  <2>1. FxIntents' = FxIntents
    BY <1>1 DEF FxIntents
  <2> QED
    BY <1>1, <1>5, <2>1 DEF FxGiven
<1> QED
  BY <1>2, <1>3, <1>4, <1>5 DEF IdsAreGiven

LEMMA NextStageStep ==
    ASSUME SimTypeOK, NextStage
    PROVE  /\ OnlyStage /\ sim.todo = {}
           /\ \/ /\ sim.stage = "flows" /\ sim'.stage = "trades"
                 /\ sim'.todo = DOMAIN simInput.trades
              \/ /\ sim.stage = "trades" /\ sim'.stage = "sells"
                 /\ sim'.todo = TradesOf("SELL")
              \/ /\ sim.stage = "sells" /\ sim'.stage = "funding"
                 /\ sim'.todo \subseteq BoughtCurrencies
                 /\ simInput.options.auto_funding => sim'.todo = BoughtCurrencies
              \/ /\ sim.stage = "funding" /\ sim'.stage = "buys"
                 /\ sim'.todo = TradesOf("BUY")
              \/ sim.stage = "buys" /\ sim'.stage = "review"
<1> DEFINE bought == IF simInput.options.auto_funding THEN BoughtCurrencies ELSE {}
<1>1. /\ sim \in SimRecords /\ simInput' = simInput /\ plan' = plan
      /\ sim.todo = {} /\ sim.stage \in {"flows", "trades", "sells", "funding", "buys"}
  BY DEF SimTypeOK, NextStage
<1>2. /\ DOMAIN simInput.trades \in SUBSET Nat
      /\ TradesOf("SELL") \in SUBSET Nat /\ TradesOf("BUY") \in SUBSET Nat
      /\ bought \in SUBSET Nat
      /\ bought \subseteq BoughtCurrencies
      /\ simInput.options.auto_funding => bought = BoughtCurrencies
  <2>1. DOMAIN simInput.trades \in SUBSET Nat
    BY InputTypes DEF SimTypeOK
  <2>2. /\ TradesOf("SELL") \in SUBSET Nat /\ TradesOf("BUY") \in SUBSET Nat
        /\ BoughtCurrencies \in SUBSET Nat
    BY TradesOfTypes DEF Currencies
  <2> QED
    BY <2>1, <2>2
<1>3. CASE sim.stage = "flows"
  <2>1. sim' = [sim EXCEPT !.stage = "trades", !.todo = DOMAIN simInput.trades]
    BY <1>3 DEF NextStage
  <2> QED
    BY <1>1, <1>2, <1>3, <2>1 DEF OnlyStage, SimRecords, EarlyStages
<1>4. CASE sim.stage = "trades"
  <2>1. sim' = [sim EXCEPT !.stage = "sells", !.todo = TradesOf("SELL")]
    BY <1>4 DEF NextStage
  <2> QED
    BY <1>1, <1>2, <1>4, <2>1 DEF OnlyStage, SimRecords, EarlyStages
<1>5. CASE sim.stage = "sells"
  <2>1. sim' = [sim EXCEPT !.stage = "funding", !.todo = bought]
    BY <1>5 DEF NextStage, BoughtCurrencies
  <2> HIDE DEF bought
  <2> QED
    BY <1>1, <1>2, <1>5, <2>1 DEF OnlyStage, SimRecords
<1>6. CASE sim.stage = "funding"
  <2>1. sim' = [sim EXCEPT !.stage = "buys", !.todo = TradesOf("BUY")]
    BY <1>6 DEF NextStage
  <2> QED
    BY <1>1, <1>2, <1>6, <2>1 DEF OnlyStage, SimRecords, LateStages
<1>7. CASE sim.stage = "buys"
  <2>1. sim' = [sim EXCEPT !.stage = "review"]
    BY <1>7 DEF NextStage
  <2> QED
    BY <1>1, <1>7, <2>1 DEF OnlyStage, SimRecords, LateStages
<1> QED
  BY <1>1, <1>3, <1>4, <1>5, <1>6, <1>7

LEMMA NextStageKeeps ==
    ASSUME SimInv, NextStage
    PROVE  SimInv'
<1>1. /\ SimTypeOK /\ PlanInOrder /\ IdsAreGiven /\ IdsAreUnique
      /\ NeedsComeFirst /\ LedgerMatches /\ SpendingCovered /\ TradesAccounted
      /\ FundingInv /\ BuysAreLinked /\ proposalStatus' = proposalStatus
  BY DEF SimInv, NextStage
<1>2. /\ OnlyStage /\ sim.todo = {}
      /\ \/ /\ sim.stage = "flows" /\ sim'.stage = "trades"
            /\ sim'.todo = DOMAIN simInput.trades
         \/ /\ sim.stage = "trades" /\ sim'.stage = "sells"
            /\ sim'.todo = TradesOf("SELL")
         \/ /\ sim.stage = "sells" /\ sim'.stage = "funding"
            /\ sim'.todo \subseteq BoughtCurrencies
            /\ simInput.options.auto_funding => sim'.todo = BoughtCurrencies
         \/ /\ sim.stage = "funding" /\ sim'.stage = "buys"
            /\ sim'.todo = TradesOf("BUY")
         \/ sim.stage = "buys" /\ sim'.stage = "review"
  BY <1>1, NextStageStep
<1>3. /\ sim' \in SimRecords /\ simInput' = simInput /\ plan' = plan
      /\ sim'.cash = sim.cash /\ sim'.trades = sim.trades
      /\ sim'.unfunded = sim.unfunded
      /\ sim'.hard = sim.hard /\ sim'.pending = sim.pending
  BY <1>2 DEF OnlyStage
<1>4. /\ PlanInOrder' /\ IdsAreUnique' /\ NeedsComeFirst' /\ LedgerMatches'
      /\ SpendingCovered' /\ BuysAreLinked'
      /\ sim'.trades \subseteq {j \in DOMAIN simInput'.trades : Priced(j)'}
      /\ \A side : TradesOf(side)' = TradesOf(side)
      /\ BoughtCurrencies' = BoughtCurrencies
      /\ \A j : InPlan(j)' <=> InPlan(j)
      /\ \A j : Dropped(j)' <=> Dropped(j)
      /\ \A d \in Currencies : Missing(d)' = Missing(d)
      /\ \A m \in DOMAIN plan, d \in Currencies : Brings(m, d) => Brings(m, d)'
  BY <1>1, <1>2, OnlyStageKeeps DEF EarlyStages
<1>5. IdsAreGiven'
  BY <1>1, <1>2, IdsStayGiven DEF LateStages
<1>6. proposalStatus' = None
  BY <1>1, <1>2 DEF SimTypeOK
<1>7. SimTypeOK'
  BY <1>1, <1>2, <1>3, <1>4, <1>6 DEF SimTypeOK
<1>8. ReadyMeans'
  BY <1>6, SimAssumption DEF ReadyMeans
<1>9. FundingInv'
  <2>1. SUFFICES ASSUME simInput.options.auto_funding,
                        sim'.stage \in {"funding"} \cup LateStages
                 PROVE  /\ sim'.stage = "funding" => \A d \in sim'.todo :
                              At(sim'.cash, d) <= BalanceAfter(Cardinality(BeforeFunding), d)'
                        /\ \A d \in BoughtCurrencies' :
                              \/ sim'.stage = "funding" /\ d \in sim'.todo
                              \/ d \in sim'.unfunded
                              \/ Missing(d)' <= 0
                              \/ \E m \in DOMAIN plan' : Brings(m, d)'
    BY <1>3 DEF FundingInv, At
  <2>2. BoughtCurrencies \subseteq Currencies
    BY <1>1, TradesOfTypes
  <2>3. CASE sim.stage = "sells"
    <3>1. sim'.todo = BoughtCurrencies
      BY <1>2, <2>1, <2>3
    <3>2. Cardinality(BeforeFunding) = Len(plan)
      <4>1. Len(plan) \in Nat /\ DOMAIN plan = 1 .. Len(plan)
        BY <1>1, SeqTypes DEF SimTypeOK
      <4>2. BeforeFunding = 1 .. Len(plan)
        BY <1>1, <2>3, <4>1 DEF PlanInOrder, EarlyStages
      <4> QED
        BY <4>1, <4>2, IntervalSize
    <3>3. ASSUME NEW d \in sim'.todo
          PROVE  At(sim'.cash, d) <= BalanceAfter(Cardinality(BeforeFunding), d)'
      <4>1. d \in Currencies
        BY <2>2, <3>1, <3>3
      <4>2. At(sim.cash, d) = BalanceAfter(Cardinality(BeforeFunding), d)
        BY <1>1, <3>2, <4>1 DEF LedgerMatches
      <4>3. /\ BalanceAfter(Cardinality(BeforeFunding), d)'
                  = BalanceAfter(Cardinality(BeforeFunding), d)
            /\ BalanceAfter(Cardinality(BeforeFunding), d) \in Int
        BY <1>1, <1>3, <4>1, MissingStays
      <4> QED
        BY <1>3, <4>2, <4>3
    <3> QED
      BY <1>2, <1>4, <2>3, <3>1, <3>3
  <2>4. CASE sim.stage \in {"funding", "buys"}
    <3>1. sim'.stage # "funding"
      BY <1>2, <2>4
    <3>2. ASSUME NEW d \in BoughtCurrencies
          PROVE  d \in sim.unfunded \/ Missing(d) <= 0 \/ \E m \in DOMAIN plan : Brings(m, d)
      BY <1>1, <1>2, <2>1, <2>4 DEF FundingInv, LateStages
    <3> QED
      BY <1>3, <1>4, <2>2, <3>1, <3>2
  <2> QED
    BY <1>2, <2>1, <2>3, <2>4 DEF LateStages
<1>10. TradesAccounted'
  <2>1. sim'.unfunded # {} => sim'.hard \/ sim'.pending
    BY <1>1, <1>3 DEF TradesAccounted
  <2>2. ASSUME NEW j \in DOMAIN simInput'.trades
        PROVE  \/ sim'.stage = "trades" /\ j \in sim'.todo
               \/ j \in sim'.trades \/ Dropped(j)'
    <3>1. \/ sim.stage = "flows" \/ j \in sim.trades \/ Dropped(j)
      BY <1>1, <1>2, <1>3, <2>2 DEF TradesAccounted
    <3> QED
      BY <1>2, <1>3, <1>4, <3>1
  <2>3. ASSUME sim'.stage \in {"sells", "funding"} \cup LateStages,
               NEW j \in TradesOf("SELL")'
        PROVE  (sim'.stage = "sells" /\ j \in sim'.todo) \/ InPlan(j)'
    <3>1. CASE sim.stage = "trades"
      BY <1>2, <1>4, <3>1
    <3>2. CASE sim.stage # "trades"
      <4>1. sim.stage \in {"sells", "funding"} \cup LateStages
        BY <1>2, <2>3, <3>2 DEF LateStages
      <4>2. InPlan(j)
        BY <1>1, <1>2, <1>4, <2>3, <4>1 DEF TradesAccounted
      <4> QED
        BY <1>4, <4>2
    <3> QED
      BY <3>1, <3>2
  <2>4. ASSUME sim'.stage \in LateStages, NEW j \in TradesOf("BUY")'
        PROVE  (sim'.stage = "buys" /\ j \in sim'.todo) \/ InPlan(j)' \/ sim'.unfunded # {}
    <3>1. CASE sim.stage = "funding"
      BY <1>2, <1>4, <3>1
    <3>2. CASE sim.stage = "buys"
      <4>1. InPlan(j) \/ sim.unfunded # {}
        BY <1>1, <1>2, <1>4, <2>4, <3>2 DEF TradesAccounted, LateStages
      <4> QED
        BY <1>3, <1>4, <4>1
    <3> QED
      BY <1>2, <2>4, <3>1, <3>2 DEF LateStages
  <2> QED
    BY <1>2, <2>1, <2>2, <2>3, <2>4 DEF TradesAccounted
<1>11. sim'.stage # "idle"
  BY <1>2
<1> QED
  BY <1>4, <1>5, <1>7, <1>8, <1>9, <1>10, <1>11 DEF SimInv

LEMMA ReviewKeeps ==
    ASSUME SimInv, ReviewSimulation
    PROVE  SimInv'
<1>1. /\ SimTypeOK /\ PlanInOrder /\ IdsAreGiven /\ IdsAreUnique
      /\ NeedsComeFirst /\ LedgerMatches /\ SpendingCovered /\ TradesAccounted
      /\ FundingInv /\ BuysAreLinked
      /\ simInput' = simInput /\ plan' = plan /\ sim.stage = "review"
      /\ sim' = [sim EXCEPT !.stage = "done"]
  BY DEF SimInv, ReviewSimulation
<1>2. OnlyStage /\ sim'.stage = "done"
  BY <1>1 DEF SimTypeOK, SimRecords, OnlyStage, LateStages
<1>3. /\ sim' \in SimRecords
      /\ sim'.cash = sim.cash /\ sim'.trades = sim.trades /\ sim'.missing = sim.missing
      /\ sim'.unfunded = sim.unfunded
      /\ sim'.hard = sim.hard /\ sim'.pending = sim.pending
  BY <1>2 DEF OnlyStage
<1>4. /\ PlanInOrder' /\ IdsAreUnique' /\ NeedsComeFirst' /\ LedgerMatches'
      /\ SpendingCovered' /\ BuysAreLinked'
      /\ sim'.trades \subseteq {j \in DOMAIN simInput'.trades : Priced(j)'}
      /\ \A side : TradesOf(side)' = TradesOf(side)
      /\ BoughtCurrencies' = BoughtCurrencies
      /\ \A j : InPlan(j)' <=> InPlan(j)
      /\ \A j : Dropped(j)' <=> Dropped(j)
      /\ \A d \in Currencies : Missing(d)' = Missing(d)
      /\ \A m \in DOMAIN plan, d \in Currencies : Brings(m, d) => Brings(m, d)'
  BY <1>1, <1>2, OnlyStageKeeps DEF EarlyStages
<1>5. IdsAreGiven'
  BY <1>1, <1>2, IdsStayGiven DEF LateStages
<1>6. SimTypeOK'
  BY <1>1, <1>2, <1>3, <1>4 DEF SimTypeOK
<1>7. FundingInv'
  <2>1. SUFFICES ASSUME simInput.options.auto_funding, NEW d \in BoughtCurrencies
                 PROVE  \/ d \in sim'.unfunded \/ Missing(d)' <= 0
                        \/ \E m \in DOMAIN plan' : Brings(m, d)'
    BY <1>1, <1>2, <1>4 DEF FundingInv
  <2>2. d \in sim.unfunded \/ Missing(d) <= 0 \/ \E m \in DOMAIN plan : Brings(m, d)
    BY <1>1, <2>1 DEF FundingInv, LateStages
  <2>3. d \in Currencies
    BY <1>1, <2>1, TradesOfTypes
  <2> QED
    BY <1>1, <1>3, <1>4, <2>2, <2>3
<1>8. TradesAccounted'
  <2>1. /\ \A j \in DOMAIN simInput.trades : j \in sim.trades \/ Dropped(j)
        /\ \A j \in TradesOf("SELL") : InPlan(j)
        /\ \A j \in TradesOf("BUY") : InPlan(j) \/ sim.unfunded # {}
        /\ sim.unfunded # {} => sim.hard \/ sim.pending
    BY <1>1 DEF TradesAccounted, LateStages
  <2> QED
    BY <1>1, <1>2, <1>3, <1>4, <2>1 DEF TradesAccounted
<1>9. ReadyMeans'
  <2>1. SUFFICES ASSUME proposalStatus' = "READY"
                 PROVE  /\ ~sim.hard /\ ~sim.pending
                        /\ \A c \in DOMAIN sim.cash : sim.cash[c] >= 0
                        /\ "shelf" \notin sim.missing
                        /\ simInput.options.block_on_missing_prices =>
                              "price" \notin sim.missing
    BY <1>1, <1>2, <1>3 DEF ReadyMeans
  <2>2. ~sim.hard /\ ~DataQualityFails /\ ~Overdrawn /\ ~ReviewForced
    BY <2>1 DEF ReviewSimulation
  <2>3. \A c \in DOMAIN sim.cash : sim.cash[c] >= 0
    <3>1. \A c \in DOMAIN sim.cash : ~(sim.cash[c] < 0)
      BY <2>2 DEF Overdrawn
    <3>2. \A c \in DOMAIN sim.cash : sim.cash[c] \in Int
      <4>1. DOMAIN sim.cash \subseteq Currencies /\ \A c \in Currencies : At(sim.cash, c) \in Int
        BY <1>1, CashTypes
      <4> QED
        BY <4>1 DEF At
    <3> QED
      BY <3>1, <3>2
  <2>4. /\ "shelf" \notin sim.missing
        /\ simInput.options.block_on_missing_prices => "price" \notin sim.missing
    BY <2>2 DEF DataQualityFails
  <2> QED
    BY <2>2, <2>3, <2>4 DEF ReviewForced
<1> QED
  BY <1>2, <1>4, <1>5, <1>6, <1>7, <1>8, <1>9 DEF SimInv

-----------------------------------------------------------------------------
\* The theorems

\* At each stage of run_proposal_simulation: the ledger is what the intents so far
\* make of the portfolio, ids are given once and needs point backwards, what is
\* spent after the sells is covered, each bought currency is funded, given up or
\* still to come, and each trade is in the plan, still to come or accounted for.
THEOREM SimulationInvariant == SimSpec => []SimInv
<1>1. SimInit => SimInv
  BY DEF SimInit, SimInv
<1>2. SimInv /\ [SimNext]_simVars => SimInv'
  <2>1. SUFFICES ASSUME SimInv, [SimNext]_simVars PROVE SimInv'
    OBVIOUS
  <2>2. CASE SimNext
    BY <2>1, <2>2, ReceiveKeeps, CashFlowKeeps, BuildTradeKeeps, SellKeeps, FundKeeps,
       BuyKeeps, NextStageKeeps, ReviewKeeps DEF SimNext
  <2>3. CASE UNCHANGED simVars
    <3>1. /\ simInput' = simInput /\ sim' = sim /\ plan' = plan
          /\ proposalStatus' = proposalStatus
      BY <2>3 DEF simVars
    <3>2. CASE sim.stage = "idle"
      BY <2>1, <3>1, <3>2 DEF SimInv
    <3>3. CASE sim.stage # "idle"
      <4>1. /\ SimTypeOK /\ PlanInOrder /\ IdsAreGiven /\ IdsAreUnique
            /\ NeedsComeFirst /\ LedgerMatches /\ SpendingCovered /\ TradesAccounted
            /\ FundingInv /\ BuysAreLinked /\ ReadyMeans
        BY <2>1, <3>3 DEF SimInv
      <4>2. OnlyStage
        BY <3>1, <4>1 DEF OnlyStage, SimTypeOK
      <4>3. /\ PlanInOrder' /\ IdsAreUnique' /\ NeedsComeFirst' /\ LedgerMatches'
            /\ SpendingCovered' /\ BuysAreLinked'
            /\ sim'.trades \subseteq {j \in DOMAIN simInput'.trades : Priced(j)'}
            /\ \A side : TradesOf(side)' = TradesOf(side)
            /\ BoughtCurrencies' = BoughtCurrencies
            /\ \A j : InPlan(j)' <=> InPlan(j)
            /\ \A j : Dropped(j)' <=> Dropped(j)
        BY <3>1, <4>1, <4>2, OnlyStageKeeps
      <4>4. SimTypeOK'
        BY <3>1, <4>1, <4>3 DEF SimTypeOK
      <4>5. IdsAreGiven'
        <5>1. FxIntents' = FxIntents
          BY <3>1 DEF FxIntents
        <5>2. \A n \in DOMAIN plan : /\ FlowGiven(n) => FlowGiven(n)'
                                     /\ FxGiven(n) => FxGiven(n)'
          BY <3>1, <5>1 DEF FlowGiven, FxGiven
        <5>3. \A n \in DOMAIN plan : TradeGiven(n) => TradeGiven(n)'
          BY <3>1, TradeStays DEF TradeGiven
        <5> QED
          BY <3>1, <4>1, <5>2, <5>3 DEF IdsAreGiven
      <4>6. FundingInv'
        <5>1. SUFFICES ASSUME simInput.options.auto_funding PROVE FundingInv'
          BY <3>1 DEF FundingInv
        <5>2. BoughtCurrencies \subseteq Currencies /\ (sim.stage = "funding" => sim.todo \subseteq BoughtCurrencies)
          BY <4>1, TradesOfTypes DEF SimTypeOK
        <5>3. /\ \A d \in Currencies : BalanceAfter(Cardinality(BeforeFunding), d)'
                     = BalanceAfter(Cardinality(BeforeFunding), d)
              /\ \A d \in Currencies : Missing(d)' = Missing(d)
          BY <3>1, <4>1, MissingStays
        <5>4. \A m \in DOMAIN plan, d \in Currencies : Brings(m, d) => Brings(m, d)'
          BY <3>1, <5>3, BringsStays
        <5> QED
          BY <3>1, <4>1, <4>3, <5>1, <5>2, <5>3, <5>4 DEF FundingInv, At
      <4>7. TradesAccounted' /\ ReadyMeans'
        BY <3>1, <4>1, <4>3 DEF TradesAccounted, ReadyMeans
      <4> QED
        BY <3>1, <3>3, <4>3, <4>4, <4>5, <4>6, <4>7 DEF SimInv
    <3> QED
      BY <3>2, <3>3
  <2> QED
    BY <2>1, <2>2, <2>3
<1> QED
  BY <1>1, <1>2, PTL DEF SimSpec

\* However many trades are proposed, a proposal that evaluate_simulation_review
\* calls READY carries them all: READY has none of the reasons for which a trade
\* is dropped or a buy skipped, but for a missing price that does not block.
THEOREM ReadyCarriesAll == SimSpec => []ReadyCarriesAllTrades
<1>1. ASSUME SimInv PROVE ReadyCarriesAllTrades
  <2>1. SUFFICES ASSUME proposalStatus = "READY", NEW i \in DOMAIN simInput.trades
                 PROVE  \/ InPlan(i)
                        \/ ~Priced(i) /\ ~simInput.options.block_on_missing_prices
    BY DEF ReadyCarriesAllTrades, InPlan
  <2>2. SimTypeOK /\ TradesAccounted /\ ReadyMeans
    BY <1>1, <2>1, SimAssumption DEF SimInv
  <2>3. /\ sim.stage = "done" /\ ~sim.hard /\ ~sim.pending /\ "shelf" \notin sim.missing
        /\ simInput.options.block_on_missing_prices => "price" \notin sim.missing
    BY <2>1, <2>2 DEF ReadyMeans
  <2>4. CASE i \in sim.trades
    <3>1. i \in TradesOf("BUY") \/ i \in TradesOf("SELL")
      BY <2>2, <2>4, TradesOfTypes
    <3>2. sim.unfunded = {}
      BY <2>2, <2>3 DEF TradesAccounted
    <3> QED
      BY <2>2, <2>3, <3>1, <3>2 DEF TradesAccounted, LateStages
  <2>5. CASE i \notin sim.trades
    <3>1. Dropped(i)
      BY <2>2, <2>3, <2>5 DEF TradesAccounted
    <3> QED
      BY <2>3, <3>1 DEF Dropped
  <2> QED
    BY <2>4, <2>5
<1> QED
  BY <1>1, SimulationInvariant, PTL

\* However long the plan, a READY proposal can be executed in the order of its
\* intents: the FX intents of _fund_target_currency never sell more than there is,
\* and a buy leaves at least what the ledger ends with, which is no overdraft.
THEOREM ReadyExecutable == SimSpec => []ReadyIsExecutable
<1>1. ASSUME SimInv PROVE ReadyIsExecutable
  <2>1. SUFFICES ASSUME proposalStatus = "READY",
                        NEW n \in DOMAIN plan \ BeforeFunding, NEW c \in Currencies,
                        plan[n].cash[c] < 0
                 PROVE  BalanceAfter(n, c) >= 0
    BY DEF ReadyIsExecutable
  <2>2. SimTypeOK /\ SpendingCovered /\ ReadyMeans
    BY <1>1, <2>1, SimAssumption DEF SimInv
  <2>3. \A d \in DOMAIN sim.cash : sim.cash[d] >= 0
    BY <2>1, <2>2 DEF ReadyMeans
  <2>4. \/ BalanceAfter(n, c) >= 0
        \/ c \in DOMAIN sim.cash /\ BalanceAfter(n, c) >= At(sim.cash, c)
    BY <2>1, <2>2 DEF SpendingCovered
  <2>5. BalanceAfter(n, c) \in Int /\ At(sim.cash, c) \in Int
    <3>1. plan \in Seq(IntentRecords) /\ simInput \in SimInputs
      BY <2>2 DEF SimTypeOK
    <3>2. n \in 0 .. Len(plan)
      BY <2>1, <3>1, SeqTypes
    <3> QED
      BY <2>2, <3>1, <3>2, BalanceTypes, CashTypes
  <2>6. c \in DOMAIN sim.cash => At(sim.cash, c) >= 0
    BY <2>3 DEF At
  <2> QED
    BY <2>4, <2>5, <2>6
<1> QED
  BY <1>1, SimulationInvariant, PTL

\* Whatever the flows, trades and rates are, link_buy_intent_dependencies makes a
\* buy wait for earlier intents only, and among them for the FX intent that brings
\* what its currency lacks, up to the half of a minor unit that rounding may cost.
THEOREM BuysFunded == SimSpec => []BuysWaitForFunding
<1>1. ASSUME SimInv PROVE BuysWaitForFunding
  <2>1. CASE sim.stage = "idle"
    BY <1>1, <2>1 DEF SimInv, BuysWaitForFunding
  <2>2. CASE sim.stage # "idle"
    <3>1. /\ SimTypeOK /\ IdsAreGiven /\ IdsAreUnique /\ NeedsComeFirst
          /\ FundingInv /\ BuysAreLinked
      BY <1>1, <2>2 DEF SimInv
    <3>2. SUFFICES ASSUME NEW n \in DOMAIN plan, NEW c \in Currencies,
                          plan[n].kind = "BUY", simInput.options.auto_funding,
                          plan[n].cash[c] < 0, Missing(c) > 0
                   PROVE  \E m \in DOMAIN plan : /\ plan[m].kind = "FX"
                                                 /\ plan[m].id \in plan[n].needs
                                                 /\ plan[m].cash[c] + 1 >= Missing(c)
      BY <3>1 DEF BuysWaitForFunding, Missing, IdsAreUnique, NeedsComeFirst
    <3>3. sim.stage \in LateStages
      BY <3>1, <3>2, NoBuysYet
    <3>4. c \in BoughtCurrencies \ sim.unfunded /\ sim.fx[c] \subseteq plan[n].needs
      BY <3>1, <3>2 DEF BuysAreLinked
    <3>5. Missing(c) \in Int
      BY <3>1, MissingTypes
    <3>6. \E m \in DOMAIN plan : Brings(m, c)
      BY <3>1, <3>2, <3>3, <3>4, <3>5 DEF FundingInv, LateStages
    <3> QED
      BY <3>4, <3>6 DEF Brings
  <2> QED
    BY <2>1, <2>2
<1> QED
  BY <1>1, SimulationInvariant, PTL

-----------------------------------------------------------------------------
\* The decision summary

\* Each step leaves its result alone afterwards.
DecisionInv ==
    /\ stage \in {"idle", "simulated", "scanned", "gated", "enriched", "decided"}
    /\ stage # "idle" => simulated \in DecisionInputs
    /\ stage \in {"scanned", "gated", "enriched", "decided"} =>
          suitability = IF Options.scanner THEN ClassifiedIssues ELSE {}
    /\ stage \in {"gated", "enriched", "decided"} =>
          gate = IF Options.gates THEN GateOutcome ELSE None
    /\ stage \in {"enriched", "decided"} =>
          riskAuthority \in {"lotus_risk", "unavailable"}
    /\ stage = "decided" =>
          /\ decision.status = DecisionStatus
          /\ decision.approvals = DecisionApprovals

\* The scan depends on the simulated proposal only.
LEMMA SameScan ==
    ASSUME simulated' = simulated
    PROVE  Options' = Options /\ ClassifiedIssues' = ClassifiedIssues
<1>1. Options' = Options
  BY DEF Options
<1>2. \A i : Shelf(i)' = Shelf(i)
  BY DEF Shelf
<1>3. Listed' = Listed
  BY <1>2 DEF Listed
<1>4. LimitedExposures' = LimitedExposures
  BY <1>1, <1>2, <1>3 DEF LimitedExposures
<1>5. \A w, limit : Exposure(w, limit)' = Exposure(w, limit)
  BY <1>2, <1>3 DEF Exposure
<1>6. \A limit : Cap(limit)' = Cap(limit)
  BY <1>1 DEF Cap
<1>7. \A w : Exceeded(w)' = Exceeded(w)
  BY <1>4, <1>5, <1>6 DEF Exceeded
<1>8. \A w : OutsideCashBand(w)' = OutsideCashBand(w)
  BY <1>1 DEF OutsideCashBand
<1>9. \A w, limit : Concentration(w, limit)' = Concentration(w, limit)
  BY <1>5, <1>6 DEF Concentration
<1>10. \A kind, i : DataQuality(kind, i)' = DataQuality(kind, i)
  BY <1>1 DEF DataQuality
<1>11. \A w : UnenrichedIssues(w)' = UnenrichedIssues(w)
  BY <1>2, <1>3, <1>10 DEF UnenrichedIssues
<1>12. \A i, w : Grows(i, w)' = Grows(i, w)
  BY DEF Grows
<1>13. \A i : Governance(i)' = Governance(i)
  BY <1>1, <1>2 DEF Governance
<1>14. \A w : GovernedHoldings(w)' = GovernedHoldings(w)
  BY <1>2, <1>3, <1>12 DEF GovernedHoldings
<1>15. \A w : StateIssues(w)' = StateIssues(w)
  BY <1>7, <1>8, <1>9, <1>11, <1>13, <1>14 DEF StateIssues
<1>16. ClientContext' = ClientContext /\ MandateContext' = MandateContext
  BY DEF ClientContext, MandateContext
<1>17. GovernedBuys' = GovernedBuys
  BY <1>2, <1>3 DEF GovernedBuys
<1>18. ComplexAdditions' = ComplexAdditions
  BY <1>2, <1>3, <1>12 DEF ComplexAdditions
<1>19. RestrictedBuys' = RestrictedBuys
  BY <1>2, <1>3 DEF RestrictedBuys
<1>20. TradeIssues' = TradeIssues
  BY <1>13, <1>16, <1>17, <1>18, <1>19 DEF TradeIssues
<1>21. ClassifiedIssues' = ClassifiedIssues
  BY <1>15, <1>20 DEF ClassifiedIssues
<1> QED
  BY <1>1, <1>21

LEMMA SameGate ==
    ASSUME simulated' = simulated, suitability' = suitability
    PROVE  ResultStatus' = ResultStatus /\ GateOutcome' = GateOutcome
<1>1. Options' = Options
  BY SameScan
<1>2. ResultStatus' = ResultStatus
  BY DEF ResultStatus
<1>3. \A severity : HasNew(severity)' = HasNew(severity)
  BY DEF HasNew
<1>4. RequiresRiskReview' = RequiresRiskReview
  BY <1>3 DEF RequiresRiskReview
<1> QED
  BY <1>1, <1>2, <1>3, <1>4 DEF GateOutcome

LEMMA SameDecision ==
    ASSUME UNCHANGED <<simulated, suitability, gate, riskAuthority>>
    PROVE  DecisionStatus' = DecisionStatus /\ DecisionApprovals' = DecisionApprovals
<1>1. ResultStatus' = ResultStatus
  BY SameGate
<1>2. IssueGaps' = IssueGaps
  BY <1>1 DEF IssueGaps
<1>3. MissingEvidence' = MissingEvidence
  BY <1>1, <1>2 DEF MissingEvidence
<1>4. DecisionStatus' = DecisionStatus
  BY <1>1, <1>3 DEF DecisionStatus
<1>5. GateApprovals' = GateApprovals
  BY DEF GateApprovals
<1>6. DecisionApprovals' = DecisionApprovals
  BY <1>3, <1>5 DEF DecisionApprovals
<1> QED
  BY <1>4, <1>6

LEMMA DecisionStepOK ==
    ASSUME DecisionInv, [DecisionNext]_decisionVars
    PROVE  DecisionInv'
<1>1. CASE UNCHANGED decisionVars
  BY <1>1, SameScan, SameGate, SameDecision DEF decisionVars, DecisionInv
<1>2. CASE ReceiveSimulated
  BY <1>2 DEF ReceiveSimulated, DecisionInv
<1>3. CASE ScanSuitability
  BY <1>3, SameScan DEF ScanSuitability, DecisionInv
<1>4. CASE DecideGate
  BY <1>4, SameScan, SameGate DEF DecideGate, DecisionInv
<1>5. CASE EnrichRisk
  BY <1>5, SameScan, SameGate DEF EnrichRisk, DecisionInv
<1>6. CASE SummarizeDecision
  BY <1>6, SameScan, SameGate, SameDecision DEF SummarizeDecision, DecisionInv
<1> QED
  BY <1>1, <1>2, <1>3, <1>4, <1>5, <1>6 DEF DecisionNext

\* What the kinds of candidates have in common: an implication and a dimension
\* go together.
LEMMA CandidateKinds ==
    ASSUME NEW c
    PROVE  /\ \A w : c \in StateIssues(w) =>
                  /\ c.dimension # "PRODUCT"
                  /\ c.implication \notin
                        {"CLIENT_CONTEXT_REQUIRED", "MANDATE_EXCEPTION_APPROVAL"}
                  /\ c.implication = "DATA_REMEDIATION" => c.dimension = "DATA_QUALITY"
           /\ c \in TradeIssues =>
                  /\ c.implication # "DATA_REMEDIATION"
                  /\ c.implication \in
                        {"CLIENT_CONTEXT_REQUIRED", "MANDATE_EXCEPTION_APPROVAL"} =>
                        c.dimension = "PRODUCT"
<1>1. \A w, limit :
          /\ Concentration(w, limit).dimension = "LIMIT"
          /\ Concentration(w, limit).implication \in {"COMPLIANCE_REVIEW", "RISK_REVIEW"}
  BY DEF Concentration, Candidate, ReviewFor
<1>2. \A i : /\ Governance(i).dimension = "GOVERNANCE"
             /\ Governance(i).implication \in {"COMPLIANCE_REVIEW", "RISK_REVIEW"}
  BY DEF Governance, Candidate, ReviewFor
<1>3. \A w : c \in UnenrichedIssues(w) =>
          c.dimension = "DATA_QUALITY" /\ c.implication = "DATA_REMEDIATION"
  BY DEF UnenrichedIssues, DataQuality, Candidate
<1>4. ASSUME NEW w, c \in StateIssues(w)
      PROVE  /\ c.dimension # "PRODUCT"
             /\ c.implication \notin
                   {"CLIENT_CONTEXT_REQUIRED", "MANDATE_EXCEPTION_APPROVAL"}
             /\ c.implication = "DATA_REMEDIATION" => c.dimension = "DATA_QUALITY"
  BY <1>1, <1>2, <1>3, <1>4 DEF StateIssues, Candidate
<1>5. ASSUME c \in TradeIssues
      PROVE  /\ c.implication # "DATA_REMEDIATION"
             /\ c.implication \in
                   {"CLIENT_CONTEXT_REQUIRED", "MANDATE_EXCEPTION_APPROVAL"} =>
                   c.dimension = "PRODUCT"
  BY <1>2, <1>5 DEF TradeIssues, Candidate
<1> QED
  BY <1>4, <1>5

\* The keys of the issues of a portfolio, by their kinds
LEMMA StateKeys ==
    ASSUME NEW w, NEW key \in Keys(StateIssues(w))
    PROVE  \/ key \in Exceeded(w)
           \/ key[1] \in {"MISSING_SHELF", "MISSING_ISSUER", "MISSING_LIQUIDITY_TIER"}
           \/ \E i \in GovernedHoldings(w) : key = <<Shelf(i).status, i>>
           \/ key = <<"CASH_BAND", 0>> /\ OutsideCashBand(w)
<1>1. PICK c \in StateIssues(w) : key = c.key
  BY DEF Keys
<1>2. \A limit : Concentration(w, limit).key = limit
  BY DEF Concentration, Candidate
<1>3. \A i : Governance(i).key = <<Shelf(i).status, i>>
  BY DEF Governance, Candidate
<1>4. c \in UnenrichedIssues(w) =>
          key[1] \in {"MISSING_SHELF", "MISSING_ISSUER", "MISSING_LIQUIDITY_TIER"}
  BY <1>1 DEF UnenrichedIssues, DataQuality, Candidate
<1> QED
  BY <1>1, <1>2, <1>3, <1>4 DEF StateIssues, Candidate

\* A candidate of the portfolio after, or of a trade, is among the issues; it is
\* new unless the portfolio before has an issue of its key.
LEMMA IssueIsNew ==
    ASSUME NEW c \in StateIssues(simulated.after) \cup TradeIssues
    PROVE  /\ \E s \in ClassifiedIssues : s.issue = c
           /\ c.key \notin Keys(StateIssues(simulated.before)) =>
                 \E s \in ClassifiedIssues : s.issue = c /\ s.change = "NEW"
<1> DEFINE before == StateIssues(simulated.before)
           after == StateIssues(simulated.after) \cup TradeIssues
           s == [issue |-> c, change |-> StatusChange(c.key, Keys(before), Keys(after))]
<1>1. s \in ClassifiedIssues
  BY DEF ClassifiedIssues
<1>2. c.key \in Keys(after)
  BY DEF Keys
<1>3. c.key \notin Keys(before) => s.change = "NEW"
  BY <1>2 DEF StatusChange
<1> QED
  BY <1>1, <1>3

LEMMA IssuesComeFrom ==
    ASSUME NEW s \in ClassifiedIssues
    PROVE  s.issue \in StateIssues(simulated.before)
                \cup StateIssues(simulated.after) \cup TradeIssues
BY DEF ClassifiedIssues

\* What the status of a proposal that goes to the client excludes
LEMMA StatusForClient ==
    ASSUME DecisionStatus \in ForClient
    PROVE  /\ ResultStatus # "BLOCKED"
           /\ \A gap \in MissingEvidence : ~gap.blocking
           /\ gate \notin {"COMPLIANCE_REVIEW_REQUIRED", "RISK_REVIEW_REQUIRED"}
           /\ gate = "CLIENT_CONSENT_REQUIRED" \/ ResultStatus # "PENDING_REVIEW"
<1>1. ResultStatus # "BLOCKED"
  BY DEF DecisionStatus, ForClient
<1>2. ~ \E gap \in MissingEvidence : gap.blocking
  BY <1>1 DEF DecisionStatus, ForClient
<1>3. (CASE gate = "COMPLIANCE_REVIEW_REQUIRED" -> "REQUIRES_COMPLIANCE_REVIEW"
         [] gate = "RISK_REVIEW_REQUIRED" -> "REQUIRES_RISK_REVIEW"
         [] gate = "CLIENT_CONSENT_REQUIRED" -> "REQUIRES_CLIENT_CONSENT"
         [] OTHER -> IF ResultStatus = "PENDING_REVIEW"
                     THEN "REVISION_RECOMMENDED" ELSE "READY_FOR_CLIENT_REVIEW")
      \in {"READY_FOR_CLIENT_REVIEW", "REQUIRES_CLIENT_CONSENT"}
  BY <1>1, <1>2 DEF DecisionStatus, ForClient
<1>4. gate # "COMPLIANCE_REVIEW_REQUIRED"
  BY <1>3
<1>5. gate # "RISK_REVIEW_REQUIRED"
  BY <1>3
<1>6. gate = "CLIENT_CONSENT_REQUIRED" \/ ResultStatus # "PENDING_REVIEW"
  BY <1>3, <1>4, <1>5
<1> QED
  BY <1>1, <1>2, <1>4, <1>5, <1>6

\* A gate that lets a proposal pass has seen no new issue.
LEMMA GatePasses ==
    ASSUME GateOutcome \notin {"BLOCKED", "COMPLIANCE_REVIEW_REQUIRED",
                               "RISK_REVIEW_REQUIRED"}
    PROVE  ~HasNew("HIGH") /\ ~HasNew("MEDIUM") /\ "SOFT" \notin simulated.fails
BY DEF GateOutcome, RequiresRiskReview

\* What is missing of an issue about a product or about the risk lens blocks.
LEMMA IssueGapBlocks ==
    /\ \A s \in suitability : s.issue.dimension = "PRODUCT" =>
          \E gap \in MissingEvidence : gap.blocking
    /\ riskAuthority = "unavailable" => \E gap \in MissingEvidence : gap.blocking
<1>1. ASSUME NEW s \in suitability, s.issue.dimension = "PRODUCT"
      PROVE  \E gap \in MissingEvidence : gap.blocking
  <2>1. Gap(s.issue.key[1], TRUE) \in MissingEvidence
    BY <1>1 DEF MissingEvidence, IssueGaps
  <2> QED
    BY <2>1 DEF Gap
<1>2. ASSUME riskAuthority = "unavailable"
      PROVE  \E gap \in MissingEvidence : gap.blocking
  <2>1. Gap("MISSING_RISK_LENS", TRUE) \in MissingEvidence
    BY <1>2 DEF MissingEvidence
  <2> QED
    BY <2>1 DEF Gap
<1> QED
  BY <1>1, <1>2

\* What the gate has let pass stands on no limit that the trades broke, no cash
\* that they took out of its band, and nothing governed that they added.
LEMMA NothingNew ==
    ASSUME simulated \in DecisionInputs, suitability = ClassifiedIssues,
           ~HasNew("HIGH"), ~HasNew("MEDIUM")
    PROVE  /\ Exceeded(simulated.after) \subseteq Exceeded(simulated.before)
           /\ OutsideCashBand(simulated.after) => OutsideCashBand(simulated.before)
           /\ GovernedBuys = {}
           /\ \A i \in GovernedHoldings(simulated.after) :
                 Shelf(i).status \in {"BANNED", "SUSPENDED"} /\ simulated.before[i] > 0
<1> DEFINE before == Keys(StateIssues(simulated.before))
           after == StateIssues(simulated.after) \cup TradeIssues
<1>1. ASSUME NEW c \in after, c.severity \in {"HIGH", "MEDIUM"}
      PROVE  c.key \in before
  BY <1>1, IssueIsNew DEF HasNew
<1>2. ASSUME NEW limit \in Exceeded(simulated.after)
      PROVE  limit \in Exceeded(simulated.before)
  <2> DEFINE c == Concentration(simulated.after, limit)
  <2>1. c \in after /\ c.severity \in {"HIGH", "MEDIUM"} /\ c.key = limit
    BY <1>2 DEF StateIssues, Concentration, Candidate
  <2>2. limit \in before
    BY <1>1, <2>1
  <2>3. limit[1] \in {"SINGLE_POSITION_MAX", "ISSUER_MAX", "LIQUIDITY_MAX"}
    BY <1>2 DEF Exceeded, LimitedExposures
  <2>4. \A i \in GovernedHoldings(simulated.before) :
            Shelf(i).status \in {"BANNED", "SUSPENDED", "SELL_ONLY", "RESTRICTED"}
    BY DEF GovernedHoldings
  <2> QED
    BY <2>2, <2>3, <2>4, StateKeys
<1>3. ASSUME OutsideCashBand(simulated.after)
      PROVE  OutsideCashBand(simulated.before)
  <2> DEFINE c == Candidate(<<"CASH_BAND", 0>>, "CASH", "MEDIUM", "RISK_REVIEW")
  <2>1. c \in after /\ c.severity = "MEDIUM" /\ c.key = <<"CASH_BAND", 0>>
    BY <1>3 DEF StateIssues, Candidate
  <2>2. <<"CASH_BAND", 0>> \in before
    BY <1>1, <2>1
  <2>3. <<"CASH_BAND", 0>> \notin Exceeded(simulated.before)
    BY DEF Exceeded, LimitedExposures
  <2>4. \A i \in GovernedHoldings(simulated.before) :
            Shelf(i).status \in {"BANNED", "SUSPENDED", "SELL_ONLY", "RESTRICTED"}
    BY DEF GovernedHoldings
  <2> QED
    BY <2>2, <2>3, <2>4, StateKeys
<1>4. \A i : Governance(i).severity \in {"HIGH", "MEDIUM"}
             /\ Governance(i).key = <<Shelf(i).status, i>>
  BY DEF Governance, Candidate
<1>5. ASSUME NEW i \in Products, Governance(i) \in after,
             Shelf(i).status \in {"BANNED", "SUSPENDED", "SELL_ONLY", "RESTRICTED"}
      PROVE  i \in GovernedHoldings(simulated.before)
  <2>1. <<Shelf(i).status, i>> \in before
    BY <1>1, <1>4, <1>5
  <2>2. <<Shelf(i).status, i>> \notin Exceeded(simulated.before)
    BY <1>5 DEF Exceeded, LimitedExposures
  <2> QED
    BY <1>5, <2>1, <2>2, StateKeys
<1>6. \A i \in GovernedHoldings(simulated.before) :
          Shelf(i).status \in {"BANNED", "SUSPENDED"} /\ simulated.before[i] > 0
  <2>1. \A i \in Products : simulated.before[i] \in Nat
    BY DecisionAssumption DEF DecisionAssumption
  <2> QED
    BY <2>1 DEF GovernedHoldings, Grows, Listed
<1>7. GovernedBuys = {}
  <2>1. \A i \in GovernedBuys :
            /\ i \in Products /\ Governance(i) \in after
            /\ Shelf(i).status \in {"SELL_ONLY", "RESTRICTED"}
    BY DEF GovernedBuys, Listed, TradeIssues
  <2> QED
    BY <1>5, <1>6, <2>1
<1>8. ASSUME NEW i \in GovernedHoldings(simulated.after)
      PROVE  Shelf(i).status \in {"BANNED", "SUSPENDED"} /\ simulated.before[i] > 0
  <2>1. /\ i \in Products
        /\ Shelf(i).status \in {"BANNED", "SUSPENDED", "SELL_ONLY", "RESTRICTED"}
    BY <1>8 DEF GovernedHoldings, Listed
  <2>2. Governance(i) \in after
    BY <1>8 DEF StateIssues
  <2> QED
    BY <1>5, <1>6, <2>1, <2>2
<1> QED
  BY <1>2, <1>3, <1>7, <1>8

LEMMA DecisionInvGives ==
    ASSUME DecisionInv
    PROVE  ClientStatusIsEarned
<1> SUFFICES ASSUME stage = "decided", decision.status \in ForClient
             PROVE  ClientStatusIsEarned
  BY DEF ClientStatusIsEarned
<1>1. /\ simulated \in DecisionInputs
      /\ suitability = IF Options.scanner THEN ClassifiedIssues ELSE {}
      /\ gate = IF Options.gates THEN GateOutcome ELSE None
      /\ riskAuthority \in {"lotus_risk", "unavailable"}
      /\ decision.status = DecisionStatus /\ decision.approvals = DecisionApprovals
  BY DEF DecisionInv
<1>2. /\ ResultStatus # "BLOCKED"
      /\ \A gap \in MissingEvidence : ~gap.blocking
      /\ gate \notin {"COMPLIANCE_REVIEW_REQUIRED", "RISK_REVIEW_REQUIRED"}
      /\ gate = "CLIENT_CONSENT_REQUIRED" \/ ResultStatus # "PENDING_REVIEW"
  BY <1>1, StatusForClient
<1>3. /\ riskAuthority = "lotus_risk"
      /\ \A s \in suitability : s.issue.dimension # "PRODUCT"
  BY <1>1, <1>2, IssueGapBlocks
<1>4. ASSUME Options.gates
      PROVE  ~HasNew("HIGH") /\ ~HasNew("MEDIUM") /\ "SOFT" \notin simulated.fails
  <2>1. GateOutcome \notin {"COMPLIANCE_REVIEW_REQUIRED", "RISK_REVIEW_REQUIRED"}
    BY <1>1, <1>2, <1>4
  <2>2. GateOutcome # "BLOCKED"
    BY <1>2 DEF GateOutcome
  <2> QED
    BY <2>1, <2>2, GatePasses
<1>5. simulated.fails = {}
  <2>1. "HARD" \notin simulated.fails
    BY <1>2 DEF ResultStatus
  <2>2. CASE ResultStatus # "PENDING_REVIEW"
    BY <2>1, <2>2, <1>1, DecisionAssumption DEF ResultStatus, DecisionAssumption
  <2>3. CASE gate = "CLIENT_CONSENT_REQUIRED" /\ Options.gates
    BY <2>1, <2>3, <1>1, <1>4, DecisionAssumption DEF DecisionAssumption
  <2>4. gate = "CLIENT_CONSENT_REQUIRED" => Options.gates
    BY <1>1, DecisionAssumption DEF DecisionAssumption
  <2> QED
    BY <1>2, <2>2, <2>3, <2>4
<1>6. ASSUME NEW a \in BlockingApprovals(decision.approvals)
      PROVE  a.reason = "SUIT_DATA_QUALITY"
  <2>1. a \in DecisionApprovals
        /\ a.type \in {"DATA_REMEDIATION", "MANDATE_EXCEPTION_APPROVAL"}
    BY <1>1, <1>6 DEF BlockingApprovals
  <2>2. a \notin GateApprovals
    BY <2>1 DEF GateApprovals, Approval
  <2>3. PICK s \in suitability :
            a = Approval(ApprovalForImplication(s.issue.implication),
                         IF s.issue.dimension = "DATA_QUALITY" THEN "SUIT_DATA_QUALITY"
                         ELSE s.issue.key[1])
    BY <1>2, <2>1, <2>2 DEF DecisionApprovals
  <2>4. s.issue.implication \in {"DATA_REMEDIATION", "CLIENT_CONTEXT_REQUIRED",
                                 "MANDATE_EXCEPTION_APPROVAL"}
    BY <2>1, <2>3 DEF Approval, ApprovalForImplication
  <2>5. s \in ClassifiedIssues
    BY <1>1, <2>3
  <2>6. s.issue.dimension = "DATA_QUALITY"
    BY <1>3, <2>4, <2>5, IssuesComeFrom, CandidateKinds
  <2> QED
    BY <2>3, <2>6 DEF Approval
<1>7. ASSUME Options.scanner
      PROVE  /\ ComplexAdditions = {} \/ ClientContext
             /\ RestrictedBuys = {} \/ MandateContext \/ simulated.context = None
  <2>1. \A c \in TradeIssues : c.dimension # "PRODUCT"
    BY <1>1, <1>3, <1>7, IssueIsNew
  <2>2. ASSUME NEW i \in ComplexAdditions, ~ClientContext
        PROVE  FALSE
    <3>1. Candidate(<<"MISSING_CLIENT_PRODUCT_COMPLEXITY_EVIDENCE", i>>, "PRODUCT",
                    "HIGH", "CLIENT_CONTEXT_REQUIRED") \in TradeIssues
      BY <2>2 DEF TradeIssues
    <3> QED
      BY <2>1, <3>1 DEF Candidate
  <2>3. ASSUME NEW i \in RestrictedBuys, ~MandateContext, simulated.context # None
        PROVE  FALSE
    <3>1. Candidate(<<"MISSING_MANDATE_RESTRICTED_PRODUCT_EVIDENCE", i>>, "PRODUCT",
                    "HIGH", "MANDATE_EXCEPTION_APPROVAL") \in TradeIssues
      BY <2>3 DEF TradeIssues
    <3> QED
      BY <2>1, <3>1 DEF Candidate
  <2> QED
    BY <2>2, <2>3
<1>8. ASSUME Options.scanner, Options.gates
      PROVE  /\ Exceeded(simulated.after) \subseteq Exceeded(simulated.before)
             /\ OutsideCashBand(simulated.after) => OutsideCashBand(simulated.before)
             /\ GovernedBuys = {}
             /\ \A i \in GovernedHoldings(simulated.after) :
                   Shelf(i).status \in {"BANNED", "SUSPENDED"} /\ simulated.before[i] > 0
  BY <1>1, <1>4, <1>8, NothingNew
<1> QED
  BY <1>3, <1>5, <1>6, <1>7, <1>8 DEF ClientStatusIsEarned

\* Each step of the decision leaves its result alone, and the summary is what the
\* rules of the modules derive from it.
THEOREM DecisionInvariant == DecisionSpec => []DecisionInv
<1>1. DecisionInit => DecisionInv
  BY DEF DecisionInit, DecisionInv
<1> QED
  BY <1>1, DecisionStepOK, PTL DEF DecisionSpec

\* For every portfolio, shelf and set of options: what goes to the client has
\* failed no rule, has its risk lens, waits for no approval that blocks it and,
\* where the gates look, breaks no limit that held before.
THEOREM ClientStatusEarned == DecisionSpec => []ClientStatusIsEarned
<1> QED
  BY DecisionInvariant, DecisionInvGives, PTL

=============================================================================
