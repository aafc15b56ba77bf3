-------------------------- MODULE SessionLifecycle --------------------------
(***************************************************************************)
(* What a caller may rely on about its session token, without stores,      *)
(* providers, requests or time: a token is issued once; it is live until   *)
(* it ends; a renewal may run beside either; and a token that has ended    *)
(* lives again only through a renewal that began while it was live.        *)
(***************************************************************************)
CONSTANT Tokens

VARIABLES
  status,    \* of each token: unissued, live or ended
  renewing   \* tokens with a renewal in progress

lifecycle == <<status, renewing>>

Init ==
  /\ status = [t \in Tokens |-> "unissued"]
  /\ renewing = {}

Issue(t) ==
  /\ status[t] = "unissued"
  /\ status' = [status EXCEPT ![t] = "live"]
  /\ UNCHANGED renewing

BeginRenewal(t) ==
  /\ status[t] = "live"
  /\ t \notin renewing
  /\ renewing' = renewing \cup {t}
  /\ UNCHANGED status

Renew(t) ==
  /\ t \in renewing
  /\ renewing' = renewing \ {t}
  /\ status' = [status EXCEPT ![t] = "live"]

\* A renewal that fails leaves the token as it is, or ends it.
FailRenewal(t) ==
  /\ t \in renewing
  /\ renewing' = renewing \ {t}
  /\ status' \in {status, [status EXCEPT ![t] = "ended"]}

\* Live tokens end: one by one, several at once, or all with the process,
\* which then also forgets its renewals.
End(S) ==
  /\ \A t \in S : status[t] = "live"
  /\ status' = [t \in Tokens |-> IF t \in S THEN "ended" ELSE status[t]]
  /\ \/ UNCHANGED renewing
     \/ renewing' = {} /\ \A t \in Tokens : status'[t] # "live"

Next ==
  \/ \E t \in Tokens :
       Issue(t) \/ BeginRenewal(t) \/ Renew(t) \/ FailRenewal(t)
  \/ \E S \in SUBSET Tokens : End(S)

Spec == Init /\ [][Next]_lifecycle
=============================================================================
