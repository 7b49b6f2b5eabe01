--------------------------- MODULE MC_WebSocketHub ---------------------------
(* The liveness instance of WebSocketHub: two clients of one room or of the  *)
(* rooms list, two notifications.  Without symmetry, which TLC does not      *)
(* support for liveness; HubDelivery's instance is the one for safety.       *)
EXTENDS WebSocketHub
=============================================================================
