---------------------------- MODULE MCStreamBus ----------------------------
(* StreamBus with the two streams of the broker. *)
EXTENDS StreamBus, TLC

CONSTANTS market, portfolio, price, position

\* Service.start: one handler for each stream
ServiceSubs == (market :> <<price>>) @@ (portfolio :> <<position>>)

=============================================================================
