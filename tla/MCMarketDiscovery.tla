------------------------- MODULE MCMarketDiscovery -------------------------
(* An instance of MarketDiscovery for TLC.  The exchange lists a market    *)
(* that is not polled, one without a token, and on the second page one     *)
(* that is polled; a market whose volume is not a number may open.         *)
EXTENDS MarketDiscovery, TLC

CONSTANTS fed, sport, tokenless, broken

Plain == [id |-> TRUE, token |-> TRUE, number |-> TRUE, keywords |-> {}, keep |-> FALSE]

MCMarkets == {fed, sport, tokenless, broken}
MCInfo == (fed :> [Plain EXCEPT !.keywords = {"fed_rate", "political"}])
       @@ (sport :> Plain)
       @@ (tokenless :> [Plain EXCEPT !.token = FALSE])
       @@ (broken :> [Plain EXCEPT !.number = FALSE])
MCPriority == <<"fed_rate", "political">>
MCListed   == <<sport, tokenless, fed>>

==============================================================================
