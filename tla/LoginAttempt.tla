---------------------------- MODULE LoginAttempt ----------------------------
(***************************************************************************)
(* What a redirect login promises, without stores, time or registrations:  *)
(* an attempt is started once; at most one code exchange is ever made for  *)
(* it, out of a pending attempt; and it yields at most one session, out of *)
(* that exchange.                                                          *)
(***************************************************************************)
CONSTANT States

VARIABLES
  status,   \* of each attempt: unstarted, pending, exchanging or over
  granted   \* attempts that yielded a session

attempt == <<status, granted>>

Init ==
  /\ status = [s \in States |-> "unstarted"]
  /\ granted = {}

Move(s, from, to) ==
  /\ status[s] = from
  /\ status' = [status EXCEPT ![s] = to]

Start(s) == Move(s, "unstarted", "pending") /\ UNCHANGED granted

Exchange(s) == Move(s, "pending", "exchanging") /\ UNCHANGED granted

Grant(s) == Move(s, "exchanging", "over") /\ granted' = granted \cup {s}

\* Attempts that are refused, denied, given up, or lost with the process.
Close(S) ==
  /\ \A s \in S : status[s] \in {"pending", "exchanging"}
  /\ status' = [s \in States |-> IF s \in S THEN "over" ELSE status[s]]
  /\ UNCHANGED granted

Next ==
  \/ \E s \in States : Start(s) \/ Exchange(s) \/ Grant(s)
  \/ \E S \in SUBSET States : Close(S)

Spec == Init /\ [][Next]_attempt
=============================================================================
