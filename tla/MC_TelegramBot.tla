--------------------------- MODULE MC_TelegramBot ---------------------------
(* Of the two prices one has more digits than a summary shows.             *)
EXTENDS TelegramBot, TLC

CONSTANTS long, short, rounded

MCPrices == {long, short}
MCPrinted == [p \in MCPrices |-> IF p = long THEN rounded ELSE p]
=============================================================================
