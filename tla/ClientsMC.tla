------------------------------ MODULE ClientsMC ------------------------------
(***************************************************************************)
(* The network, the markets and the stored files the clients meet.         *)
(***************************************************************************)
EXTENDS Clients

(* Requests tried twice; listings of two, three and four coins in pages of  *)
(* two, and quotes of three coins in chunks of two.                         *)

SomeKinds == {"single", "listing", "quotes"}
SomeMarket == <<"a", "b", "c", "d", "e">>
SomeChunks == {<<<<"x", "y">>, <<"z">>>>}
SomeAnswers == {"ok", "badJson", "timeout", "403", "429", "429 date"}

(* Markets that name their coins in every order, a perpetual before the     *)
(* spot market of the same pair, and one pair quoted in another coin.       *)

MarketOf(s, b, q, st, bare) ==
    [symbol |-> s, base |-> b, quote |-> q, settle |-> st, bare |-> bare]
SomeMarkets ==
    <<MarketOf("BTC/IRT", "BTC", "IRT", "", "BTCIRT"),
      MarketOf("BTC/USDT:USDT", "BTC", "USDT", "USDT", "BTCUSDTUSDT"),
      MarketOf("BTC/USDT", "BTC", "USDT", "", "BTCUSDT"),
      MarketOf("ETH/BTC", "ETH", "BTC", "", "ETHBTC")>>

SymbolOf(text, parts, stems, bare, meant) ==
    [text |-> text, parts |-> parts, stems |-> stems, bare |-> bare, meant |-> meant]
NoStems == [q \in {} |-> ""]
SomeSymbols ==
    {SymbolOf("BTC/USDT", <<"BTC", "USDT">>, NoStems, "BTCUSDT", <<"BTC", "USDT">>),
     SymbolOf("BTC-USDT", <<>>, [q \in {"USDT"} |-> "BTC-"], "BTCUSDT", <<"BTC", "USDT">>),
     SymbolOf("BTC", <<>>, NoStems, "BTC", <<"BTC", "USDT">>),
     SymbolOf("ETHBTC", <<>>, [q \in {"BTC"} |-> "ETH"], "ETHBTC", <<"ETH", "BTC">>),
     SymbolOf("DOGE", <<>>, NoStems, "DOGE", <<"DOGE", "USDT">>)}
SomeOwn == [text \in {s.text : s \in SomeSymbols} |-> IF text = "ETHBTC" THEN 4 ELSE 0]

(* A first start without a file, with one that is no JSON, with one of the  *)
(* first version, of the eighth and of the present one.                     *)

SomeFiles ==
    {[absent |-> TRUE], [broken |-> TRUE],
     [exchange |-> "nobitex", market |-> "USDT", currency |-> "USDT", oldStop |-> 5],
     [version |-> 8, exchange |-> "nobitex", market |-> "RLS", rial |-> 60],
     [version |-> 10, exchange |-> "ccxt", rial |-> 60, market |-> "USDT",
      oldStop |-> 5, mode |-> "real"]}
=============================================================================
