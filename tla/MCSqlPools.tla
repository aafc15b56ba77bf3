----------------------------- MODULE MCSqlPools -----------------------------
(***************************************************************************)
(* SqlPools on small instances.  One has a gateway with two configurations,*)
(* so that calls with an old one meet calls with a new one, two calls that *)
(* compete for the one connection of a pool, and two switches that overlap;*)
(* the other, two gateways and one switch.                                 *)
(***************************************************************************)
EXTENDS SqlPools

CONSTANTS n1, n2, a, b, r1, r2, s1, s2, k1, k2
=============================================================================
