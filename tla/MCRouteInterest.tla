-------------------------- MODULE MCRouteInterest --------------------------
(***************************************************************************)
(* Two subscribers of one key, plain or queue: the connection of the first *)
(* may break, the second may unsubscribe after one message, either may     *)
(* unsubscribe, and the route may be registered and lost at any point.     *)
(***************************************************************************)
EXTENDS RouteInterest

=============================================================================
