----------------------------- MODULE MCTradeTools -----------------------------
(***************************************************************************)
(* Codes, markets and price adjustments to check TradeTools with.          *)
(***************************************************************************)
EXTENDS TradeTools

CONSTANTS none, invalid

\* Two prefixes of one market, two markets with one code, a raw code, a code with
\* a dot of its own, and a prefix that is not one.
SymbolCodes ==
    {<<"US", "A">>, <<"SZ", "1">>, <<"CNSZ", "1">>, <<"SH", "1">>, <<"JP", "1">>, <<"1">>,
     <<"US", "BRK", "B">>, <<"XX", "A">>}

\* CN names a market of accounts, CN_SZ one of orders, SZ neither.
SymbolNames == {"US", "CN", "CN_SZ", "SZ"}

\* Nothing to adjust, a limit alone, and a pair that contradicts itself.
SomeAdjust ==
    {[price |-> none, limit |-> none], [price |-> none, limit |-> "up"],
     [price |-> FALSE, limit |-> "up"]}

=============================================================================
