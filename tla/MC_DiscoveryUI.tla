---------------------------- MODULE MC_DiscoveryUI ----------------------------
(* A small instance of DiscoveryUI for TLC.  Liveness allows no symmetry.  *)
EXTENDS DiscoveryUI
===============================================================================
