----------------------------- MODULE MCSessions -----------------------------
(***************************************************************************)
(* Sessions on small instances.  MCSessions.cfg: two sessions of two       *)
(* providers and two requests, for what sessions could do to each other.   *)
(* SessionsLive.cfg: one session through every provider kind and more      *)
(* time, with fairness.  SessionsLogout.cfg: a logout beside a refresh.    *)
(***************************************************************************)
EXTENDS Sessions, TLC

CONSTANTS t1, t2, r1, r2, p1, p2

\* An answer that is expired on arrival, one that lasts two ticks, and one
\* without an expiry.
MCLifetimes == {0, 2, Never}

Interchangeable == Permutations({t1, t2}) \cup Permutations({r1, r2})
                     \cup Permutations({p1, p2})
=============================================================================
