------------------------------- MODULE Prices -------------------------------
(***************************************************************************)
(* The oracle's arithmetic of currency pairs (oracle/src/currency.rs), the *)
(* validation of routes (oracle/src/config.rs) and how a feed's route is   *)
(* turned into the price of a pair (oracle/src/feeds.rs).                  *)
(*                                                                         *)
(* Prices are kept as logarithms, in integers: multiplying is adding, and  *)
(* inverting is negating.  What matters is which currency cancels which;   *)
(* rounding of floating-point numbers is not modelled.                     *)
(***************************************************************************)
EXTENDS Integers, Sequences, Functions, SequencesExt

CONSTANTS
    Currencies,
    Worth,      \* logarithm of the worth of one unit of each currency
    Decimals,   \* decimals of each currency, in the logarithms' unit
    MaxHops     \* bound: pairs of a route

ASSUME PricesAssumption ==
    /\ Worth \in [Currencies -> Int]
    /\ Decimals \in [Currencies -> Nat]
    /\ MaxHops \in Nat

Pairs == {p \in [base : Currencies, quote : Currencies] : p.base # p.quote}
Routes == SeqOf(Pairs, MaxHops)

\* CurrencyPair::contains and has_shared
HasCurrency(p, c) == p.base = c \/ p.quote = c
HasShared(p, q) == HasCurrency(p, q.base) \/ HasCurrency(p, q.quote)

\* CurrencyPairAndPrice::invert
Invert(x) == [base |-> x.quote, quote |-> x.base, price |-> -x.price]

\* Mutant: two pairs with the same base are multiplied as they are
Reduce_SameBase(x, y) ==
    LET l == IF x.quote # y.quote /\ x.base = y.quote THEN Invert(x) ELSE x
        r == IF x.quote = y.quote \/ x.base = y.quote THEN Invert(y) ELSE y
    IN [base |-> l.base, quote |-> r.quote, price |-> l.price + r.price]

\* CurrencyPairAndPrice::reduce: which of the two is inverted depends on the
\* element they have in common; the rest of the cases is taken for the last.
Reduce(x, y) ==
    LET l == IF x.quote # y.quote /\ (x.base = y.base \/ x.base = y.quote) THEN Invert(x) ELSE x
        r == IF x.quote = y.quote \/ (x.base # y.base /\ x.base = y.quote) THEN Invert(y) ELSE y
    IN [base |-> l.base, quote |-> r.quote, price |-> l.price + r.price]

\* PriceConfig::validate, for one feed: the route starts at one currency of
\* the pair, ends at the other, and neighbours share a currency.
Validate(pair, route) ==
    /\ route # <<>>
    /\ HasShared(pair, Head(route))
    /\ HasCurrency(Last(route), IF HasCurrency(Head(route), pair.base) THEN pair.quote ELSE pair.base)
    /\ \A i \in 1..Len(route) - 1 : HasShared(route[i], route[i + 1])

\* PriceFeed::get_price: what a feed with the true worths answers for a pair.
GetPrice(p) == [base |-> p.base, quote |-> p.quote, price |-> Worth[p.base] - Worth[p.quote]]

\* PriceFeeds::get_prices, for one feed: the prices of the route reduced from
\* the left, inverted if the result starts with another currency.
RoutePrice(pair, route) ==
    LET x == FoldLeft(Reduce, GetPrice(Head(route)), [i \in 1..Len(route) - 1 |-> GetPrice(route[i + 1])])
    IN IF x.base # pair.base THEN Invert(x) ELSE x

\* CurrencyPairAndPrice::exchange_rate, of the pair in the configuration: the
\* price of the smallest unit.
ExchangeRate(pair, price) == price + Decimals[pair.quote] - Decimals[pair.base]

\* A route that leads from one currency of the pair to the other, hop by hop,
\* through currencies that differ.
Leads(pair, route) ==
    \E x \in [0..Len(route) -> Currencies] :
        /\ IsInjective(x)
        /\ \A i \in 1..Len(route) : {route[i].base, route[i].quote} = {x[i - 1], x[i]}
        /\ {x[0], x[Len(route)]} = {pair.base, pair.quote}

=============================================================================
