---------------------------- MODULE MC_HubDelivery ----------------------------
(* A small instance of HubDelivery.  Nothing tells connections, notifiers or *)
(* notes apart.                                                              *)
EXTENDS HubDelivery

Symmetry ==
    Permutations(Conns) \cup Permutations(Notifiers) \cup Permutations(Notes)
=============================================================================
