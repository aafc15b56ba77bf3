-------------------------- MODULE MCOAuthCodeFlow --------------------------
(***************************************************************************)
(* OAuthCodeFlow on a small instance: two attempts and two callbacks, of   *)
(* two providers that each register one app with one return_to.  MaxClock  *)
(* lets an attempt outlive its TTL while another is started.               *)
(***************************************************************************)
EXTENDS OAuthCodeFlow

CONSTANTS s1, s2, c1, c2, p1, p2, app, url
=============================================================================
