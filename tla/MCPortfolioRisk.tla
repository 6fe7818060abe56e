--------------------------- MODULE MCPortfolioRisk ---------------------------
(***************************************************************************)
(* PortfolioRisk on wallets of a balance and up to two positions.  A debt  *)
(* of 200 against 400 meets the threshold 5000 exactly; against 300, which *)
(* is 6666 2/3, it meets 6667 by rounding and misses 6668 by one.          *)
(***************************************************************************)
EXTENDS PortfolioRisk

Holding(asset, role, amount) == [asset |-> asset, role |-> role, amount |-> amount, value |-> Null]

Report(protocol, type, threshold, liquidBps, assets) ==
    [protocol |-> protocol, type |-> type, partialThreshold |-> threshold, liquidBps |-> liquidBps,
     assets |-> assets, gross |-> Null, equity |-> Null, healthFactorE4 |-> Null, distanceBps |-> Null]

Balances == {Report("wallet", "wallet", Null, Unit, << Holding("STX", "asset", n) >>) : n \in {0, 2}}

Streams == {Report("bitpay", "stream", Null, l, << Holding("sBTC", "locked", 1) >>) : l \in {Null, 0, 3333}}

Loan(threshold, btc, stx, usd) ==
    Report("zest", "borrowing", threshold, 0,
           << Holding("sBTC", "collateral", btc), Holding("STX", "collateral", stx),
              Holding("USDC", "debt", usd) >>)

Loans == {Loan(t, b, x, d) : t \in {0, 5000, 6667, 6668}, b \in {0, 1, 3}, x \in {0, 3}, d \in {0, 2, 7}}

MCPortfolios ==
    {<< b >> : b \in Balances} \cup {<< b, l >> : b \in Balances, l \in Loans}
    \cup {<< s, l >> : s \in Streams, l \in Loans}
    \cup {<< Loan(6668, 1, 0, 2), l >> : l \in Loans} \cup {<< Loan(6667, 0, 3, 2), l >> : l \in Loans}

MCQuotes == {[BTC |-> 1, sBTC |-> b, STX |-> x, USDC |-> u] :
                b \in {Null, 100, 300}, x \in {100}, u \in {Null, 100}}
            \cup {[BTC |-> Null, sBTC |-> Null, STX |-> Null, USDC |-> Null]}

Shock(by, key, change) == [by |-> by, key |-> key, changeBps |-> change]

MCScenarios ==
    {<< Shock("symbol", "BTC", c), Shock("symbol", "sBTC", c) >> : c \in {-1000, -3000}}
    \cup {<< Shock("symbol", "BTC", -2000) >>, << Shock("symbol", "STX", -2000) >>,
          << Shock("assetId", "sBTC", -10000) >>,
          << Shock("symbol", "sBTC", -5000), Shock("assetId", "sBTC", 5000) >>,
          << Shock("symbol", "WELSH", -5000) >>}

\* One loan, whose assets the oracle may know or not.
MCOneLoan == {<< Loan(6668, 3, 0, 2) >>}
=============================================================================
