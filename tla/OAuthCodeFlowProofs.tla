------------------------ MODULE OAuthCodeFlowProofs ------------------------
(***************************************************************************)
(* OAuthCodeFlow for every set of attempts, callbacks, providers, apps and *)
(* addresses: its type, the single use of an attempt, the age limit, the   *)
(* vetting of the address, and that it implements LoginAttempt.            *)
(***************************************************************************)
EXTENDS OAuthCodeFlow, TLAPS

\* A new Map holds nothing, of whatever type.
LEMMA EmptyMapType ==
  ASSUME NEW K, NEW V
  PROVE  IsMap(EmptyMap, K, V) /\ DOMAIN EmptyMap = {}
  BY DEF IsMap, EmptyMap

\* set keeps the type of a Map.
LEMMA PutType ==
  ASSUME NEW K, NEW V, NEW m, NEW k \in K, NEW v \in V, IsMap(m, K, V)
  PROVE  IsMap(Put(m, k, v), K, V)
  BY DEF IsMap, Put

\* delete keeps the type of a Map.
LEMMA WithoutType ==
  ASSUME NEW K, NEW V, NEW m, NEW S, IsMap(m, K, V)
  PROVE  IsMap(Without(m, S), K, V)
  BY DEF IsMap, Without, Restrict

LEMMA TypeInit == Init => TypeOK
  BY EmptyMapType, OAuthAssumption DEF Init, TypeOK

LEMMA TypeStep ==
  ASSUME TypeOK, [Next]_vars PROVE TypeOK'
<1>1. ASSUME NEW client \in Registration, StartArrives(client) PROVE TypeOK'
  BY <1>1 DEF TypeOK, StartArrives
<1>2. ASSUME NEW client \in starts, NEW s \in States, StartRedirects(client, s)
      PROVE  TypeOK'
  <2>1. clock \in Nat /\ client \in Registration
    BY OAuthAssumption DEF TypeOK
  <2>2. [client |-> client, createdAt |-> clock] \in PendingFlow
    BY <2>1 DEF PendingFlow
  <2>3. IsMap(flows', States, PendingFlow)
    BY <1>2, <2>2, PutType DEF TypeOK, StartRedirects
  <2>4. IsMap(born', States, Nat)
    BY <1>2, <2>1, PutType DEF TypeOK, StartRedirects
  <2> QED BY <1>2, <2>3, <2>4 DEF TypeOK, StartRedirects
<1>3. ASSUME NEW S, flows' = Without(flows, S),
             UNCHANGED <<clock, registered, starts, calls, born, sessions>>
      PROVE  TypeOK'
  BY <1>3, WithoutType DEF TypeOK
<1>4. ASSUME NEW s \in States, NEW p \in Providers, NEW c \in Callbacks,
             CallbackExchanges(c, s, p)
      PROVE  TypeOK'
  <2>1. flows[s].client \in Registration
    BY <1>4 DEF TypeOK, IsMap, PendingFlow, CallbackExchanges
  <2>2. [state |-> s, client |-> flows[s].client] \in Call
    BY <2>1 DEF TypeOK, Call
  <2>3. IsMap(calls', Callbacks, Call)
    BY <1>4, <2>2, PutType DEF TypeOK, CallbackExchanges
  <2> QED BY <1>4, <2>3, WithoutType DEF TypeOK, CallbackExchanges
<1>5. ASSUME NEW c \in DOMAIN calls, ExchangeSucceeds(c) PROVE TypeOK'
  <2>1. calls[c].state \in States
    BY DEF TypeOK, IsMap, Call
  <2> QED BY <1>5, <2>1, WithoutType DEF TypeOK, ExchangeSucceeds
<1>6. ASSUME NEW c \in DOMAIN calls, ExchangeFails(c) PROVE TypeOK'
  BY <1>6, WithoutType DEF TypeOK, ExchangeFails
<1>7. CASE Restart
  BY <1>7, EmptyMapType DEF TypeOK, Restart
<1>8. CASE Tick
  BY <1>8, OAuthAssumption DEF TypeOK, Tick
<1>9. ASSUME NEW now \in SUBSET Registration, EditProviders(now) PROVE TypeOK'
  BY <1>9 DEF TypeOK, EditProviders
<1>10. CASE UNCHANGED vars
  BY <1>10 DEF TypeOK, vars
<1> QED
  BY <1>1, <1>2, <1>3, <1>4, <1>5, <1>6, <1>7, <1>8, <1>9, <1>10
     DEF Next, CallbackRefused, CallbackDenied, Sweep

\* TypeOK: every variable keeps to its type.
THEOREM TypeCorrect == Spec => []TypeOK
<1>1. TypeOK /\ [Next]_vars => TypeOK'
  BY TypeStep
<1> QED BY TypeInit, <1>1, PTL DEF Spec

-----------------------------------------------------------------------------
(***************************************************************************)
(* The inductive invariant.  That a state is used once rests on its being  *)
(* drawn once, so everything that has a state must have drawn it; and the  *)
(* age limit, which the store checks by createdAt, holds of the attempt    *)
(* only as long as the store keeps the time the attempt began.             *)
(***************************************************************************)
Drawn ==
  /\ DOMAIN flows \subseteq DOMAIN born
  /\ sessions \subseteq DOMAIN born
  /\ \A c \in DOMAIN calls : calls[c].state \in DOMAIN born

BirthKept == \A s \in DOMAIN flows : flows[s].createdAt = born[s]

IInv == TypeOK /\ SingleUse /\ Drawn /\ BirthKept

\* Steps that only drop pending flows, perhaps none.
LEMMA KeepsWhenDropping ==
  ASSUME IInv, TypeOK', NEW S, flows' = Without(flows, S),
         UNCHANGED <<calls, born, sessions>>
  PROVE  IInv'
<1>1. /\ DOMAIN flows' \subseteq DOMAIN flows
      /\ \A s \in DOMAIN flows' : flows'[s] = flows[s]
  BY DEF Without, Restrict
<1> QED BY <1>1 DEF IInv, SingleUse, Drawn, BirthKept

\* Steps that leave flows, calls and sessions alone.
LEMMA KeepsWhenUntouched ==
  ASSUME IInv, TypeOK', UNCHANGED <<flows, calls, born, sessions>>
  PROVE  IInv'
  BY DEF IInv, SingleUse, Drawn, BirthKept

LEMMA KeepsWhenStarting ==
  ASSUME IInv, TypeOK', NEW client, NEW s, StartRedirects(client, s)
  PROVE  IInv'
<1>1. /\ s \notin DOMAIN born
      /\ DOMAIN flows' = DOMAIN flows \cup {s}
      /\ DOMAIN born' = DOMAIN born \cup {s}
      /\ flows'[s].createdAt = clock /\ born'[s] = clock
      /\ \A x \in DOMAIN flows : x # s => flows'[x] = flows[x]
      /\ \A x \in DOMAIN born : x # s => born'[x] = born[x]
      /\ calls' = calls /\ sessions' = sessions
  BY DEF StartRedirects, FreshState, Put
<1>2. SingleUse'
  BY <1>1 DEF IInv, SingleUse, Drawn
<1>3. Drawn'
  BY <1>1 DEF IInv, Drawn
<1>4. BirthKept'
  BY <1>1 DEF IInv, Drawn, BirthKept
<1> QED BY <1>2, <1>3, <1>4 DEF IInv

\* What an exchange that begins does to the flows and calls.
Begins(c, s) ==
  /\ c \notin DOMAIN calls
  /\ s \in DOMAIN flows
  /\ DOMAIN flows' = DOMAIN flows \ {s}
  /\ \A x \in DOMAIN flows' : flows'[x] = flows[x]
  /\ DOMAIN calls' = DOMAIN calls \cup {c}
  /\ calls'[c].state = s
  /\ \A d \in DOMAIN calls : calls'[d] = calls[d]
  /\ born' = born /\ sessions' = sessions /\ clock' = clock

LEMMA BeginFacts ==
  ASSUME NEW c, NEW s, NEW p, CallbackExchanges(c, s, p)
  PROVE  Begins(c, s)
<1>1. calls' = Put(calls, c, [state |-> s, client |-> flows[s].client])
  BY DEF CallbackExchanges
<1>2. /\ DOMAIN calls' = DOMAIN calls \cup {c}
      /\ calls'[c] = [state |-> s, client |-> flows[s].client]
      /\ \A d \in DOMAIN calls : d # c => calls'[d] = calls[d]
  BY <1>1 DEF Put
<1>3. /\ DOMAIN flows' = DOMAIN flows \ {s}
      /\ \A x \in DOMAIN flows' : flows'[x] = flows[x]
  BY DEF CallbackExchanges, Without, Restrict
<1> QED BY <1>2, <1>3 DEF CallbackExchanges, Begins

LEMMA KeepsWhenBeginning ==
  ASSUME IInv, TypeOK', NEW c, NEW s, Begins(c, s)
  PROVE  IInv'
<1>1. SingleUse'
  BY DEF IInv, SingleUse, Begins
<1>2. Drawn'
  BY DEF IInv, Drawn, Begins
<1>3. BirthKept'
  BY DEF IInv, BirthKept, Begins
<1> QED BY <1>1, <1>2, <1>3 DEF IInv

\* What an exchange that ends, with a session or without, does.
Ends(c) ==
  /\ c \in DOMAIN calls
  /\ DOMAIN calls' = DOMAIN calls \ {c}
  /\ \A d \in DOMAIN calls' : calls'[d] = calls[d]
  /\ sessions' \in {sessions, sessions \cup {calls[c].state}}
  /\ flows' = flows /\ born' = born

LEMMA EndFacts ==
  ASSUME NEW c, ExchangeSucceeds(c) \/ ExchangeFails(c)
  PROVE  Ends(c)
<1>1. calls' = Without(calls, {c}) /\ c \in DOMAIN calls
  BY DEF ExchangeSucceeds, ExchangeFails
<1>2. /\ DOMAIN calls' = DOMAIN calls \ {c}
      /\ \A d \in DOMAIN calls' : calls'[d] = calls[d]
  BY <1>1 DEF Without, Restrict
<1> QED BY <1>1, <1>2 DEF Ends, ExchangeSucceeds, ExchangeFails

LEMMA KeepsWhenEnding ==
  ASSUME IInv, TypeOK', NEW c, Ends(c)
  PROVE  IInv'
<1>1. SingleUse'
  BY DEF IInv, SingleUse, Ends
<1>2. Drawn'
  BY DEF IInv, Drawn, Ends
<1>3. BirthKept'
  BY DEF IInv, BirthKept, Ends
<1> QED BY <1>1, <1>2, <1>3 DEF IInv

LEMMA KeepsWhenRestarting ==
  ASSUME IInv, TypeOK', Restart PROVE IInv'
<1>1. DOMAIN flows' = {} /\ DOMAIN calls' = {}
  BY EmptyMapType DEF Restart
<1> QED
  BY <1>1 DEF IInv, SingleUse, Drawn, BirthKept, Restart

LEMMA IInvStep ==
  ASSUME IInv, [Next]_vars PROVE IInv'
<1>0. TypeOK'
  BY TypeStep DEF IInv
<1>1. ASSUME NEW client \in Registration, StartArrives(client) PROVE IInv'
  BY <1>0, <1>1, KeepsWhenUntouched DEF StartArrives
<1>2. ASSUME NEW client \in starts, NEW s \in States, StartRedirects(client, s)
      PROVE  IInv'
  BY <1>0, <1>2, KeepsWhenStarting
<1>3. ASSUME NEW s \in States, NEW p \in Providers,
             CallbackRefused(s, p) \/ CallbackDenied(s, p)
      PROVE  IInv'
  BY <1>0, <1>3, KeepsWhenDropping DEF CallbackRefused, CallbackDenied
<1>4. ASSUME NEW s \in States, NEW p \in Providers, NEW c \in Callbacks,
             CallbackExchanges(c, s, p)
      PROVE  IInv'
  BY <1>0, <1>4, BeginFacts, KeepsWhenBeginning
<1>5. ASSUME NEW c \in DOMAIN calls, ExchangeSucceeds(c) \/ ExchangeFails(c)
      PROVE  IInv'
  BY <1>0, <1>5, EndFacts, KeepsWhenEnding
<1>6. CASE Sweep
  BY <1>0, <1>6, KeepsWhenDropping DEF Sweep
<1>7. CASE Restart
  BY <1>0, <1>7, KeepsWhenRestarting
<1>8. CASE Tick
  BY <1>0, <1>8, KeepsWhenUntouched DEF Tick
<1>9. ASSUME NEW now \in SUBSET Registration, EditProviders(now) PROVE IInv'
  BY <1>0, <1>9, KeepsWhenUntouched DEF EditProviders
<1>10. CASE UNCHANGED vars
  BY <1>0, <1>10, KeepsWhenUntouched DEF vars
<1> QED
  BY <1>1, <1>2, <1>3, <1>4, <1>5, <1>6, <1>7, <1>8, <1>9, <1>10 DEF Next

LEMMA IInvInit == Init => IInv
<1> SUFFICES ASSUME Init PROVE IInv
  OBVIOUS
<1>1. DOMAIN flows = {} /\ DOMAIN calls = {} /\ sessions = {}
  BY EmptyMapType DEF Init
<1> QED
  BY <1>1, TypeInit DEF IInv, SingleUse, Drawn, BirthKept

LEMMA Invariance == Spec => []IInv
<1>1. IInv /\ [Next]_vars => IInv'
  BY IInvStep
<1> QED BY IInvInit, <1>1, PTL DEF Spec

\* SingleUse: a replayed callback never redeems an attempt a second time.
THEOREM AttemptUsedOnce == Spec => []SingleUse
<1>1. IInv => SingleUse
  BY DEF IInv
<1> QED BY <1>1, Invariance, PTL

\* StaleAttemptsRefused: no attempt is redeemed later than TTL after its start.
THEOREM AgeLimit == Spec => StaleAttemptsRefused
<1>1. ASSUME IInv, [Next]_vars
      PROVE  [\A s \in States : Redeems(s) => clock - born[s] <= TTL]_vars
  <2> SUFFICES ASSUME NEW s \in States, Redeems(s)
               PROVE  clock - born[s] <= TTL
    OBVIOUS
  <2>1. PICK c \in DOMAIN calls' \ DOMAIN calls : calls'[c].state = s
    BY DEF Redeems
  <2>2. PICK x \in States, p \in Providers, d \in Callbacks :
          CallbackExchanges(d, x, p)
    <3>1. ASSUME NEW e \in DOMAIN calls, ExchangeSucceeds(e) \/ ExchangeFails(e)
          PROVE  FALSE
      BY <2>1, <3>1, EndFacts DEF Ends
    <3>2. ASSUME Restart PROVE FALSE
      BY <2>1, <3>2, EmptyMapType DEF Restart
    <3> QED
      BY <1>1, <2>1, <3>1, <3>2
         DEF Next, vars, StartArrives, StartRedirects, CallbackRefused,
             CallbackDenied, Sweep, Tick, EditProviders
  <2>3. Begins(d, x)
    BY <2>2, BeginFacts
  <2>4. c = d /\ x = s
    BY <2>1, <2>3 DEF Begins
  <2>5. clock \in Int /\ born[s] \in Int /\ flows[s].createdAt = born[s]
    BY <1>1, <2>3, <2>4, OAuthAssumption
       DEF IInv, TypeOK, IsMap, Drawn, BirthKept, Begins
  <2>6. ~(clock - born[s] > TTL)
    BY <2>2, <2>4, <2>5 DEF CallbackExchanges, Acceptable, Stale
  <2> QED BY <2>5, <2>6, OAuthAssumption
<1> QED BY <1>1, Invariance, PTL DEF Spec, StaleAttemptsRefused

-----------------------------------------------------------------------------
(***************************************************************************)
(* The refinement: steps that touch no attempt are stutters, /start and    *)
(* the three ends of /callback are the abstract moves, and whatever drops  *)
(* attempts without an answer closes them.                                 *)
(***************************************************************************)

\* Steps that leave every attempt where it is.
LEMMA StuttersWhenUntouched ==
  ASSUME UNCHANGED <<flows, calls, born, sessions>>
  PROVE  UNCHANGED Attempt!attempt
  BY DEF Attempt!attempt, Status, Exchanging

\* Steps that only drop pending flows close those attempts.
LEMMA DroppingCloses ==
  ASSUME IInv, NEW S \in SUBSET States, S \subseteq DOMAIN flows,
         flows' = Without(flows, S), UNCHANGED <<calls, born, sessions>>
  PROVE  Attempt!Close(S)
<1>1. DOMAIN flows' = DOMAIN flows \ S
  BY DEF Without, Restrict
<1>2. \A s \in S : s \in DOMAIN born /\ ~Exchanging(s)
  BY DEF IInv, SingleUse, Drawn, Exchanging
<1>3. \A s \in S : Status[s] = "pending"
  BY <1>2 DEF Status
<1>4. \A s \in States : Exchanging(s)' <=> Exchanging(s)
  BY DEF Exchanging
<1>5. Status' = [s \in States |-> IF s \in S THEN "over" ELSE Status[s]]
  BY <1>1, <1>2, <1>4 DEF Status
<1> QED BY <1>3, <1>5 DEF Attempt!Close

LEMMA StartingStarts ==
  ASSUME IInv, NEW client, NEW s \in States, StartRedirects(client, s)
  PROVE  Attempt!Start(s)
<1>1. /\ s \notin DOMAIN born
      /\ DOMAIN flows' = DOMAIN flows \cup {s}
      /\ DOMAIN born' = DOMAIN born \cup {s}
      /\ calls' = calls /\ sessions' = sessions
  BY DEF StartRedirects, FreshState, Put
<1>2. ~Exchanging(s)
  BY <1>1 DEF IInv, Drawn, Exchanging
<1>3. \A x \in States : Exchanging(x)' <=> Exchanging(x)
  BY <1>1 DEF Exchanging
<1>4. Status[s] = "unstarted"
  BY <1>1 DEF Status
<1>5. Status' = [Status EXCEPT ![s] = "pending"]
  BY <1>1, <1>2, <1>3 DEF Status
<1> QED BY <1>1, <1>4, <1>5 DEF Attempt!Start, Attempt!Move

LEMMA BeginningExchanges ==
  ASSUME IInv, NEW c, NEW s \in States, Begins(c, s)
  PROVE  Attempt!Exchange(s)
<1>1. s \in DOMAIN born /\ ~Exchanging(s)
  BY DEF IInv, SingleUse, Drawn, Begins, Exchanging
<1>2. \A x \in States : Exchanging(x)' <=> (Exchanging(x) \/ x = s)
  BY DEF Begins, Exchanging
<1>3. Status[s] = "pending"
  BY <1>1 DEF Status, Begins
<1>4. Status' = [Status EXCEPT ![s] = "exchanging"]
  BY <1>1, <1>2 DEF Status, Begins
<1> QED BY <1>3, <1>4 DEF Attempt!Exchange, Attempt!Move, Begins

\* An exchange that ends leaves its attempt over, and no other one.
LEMMA EndingIsOver ==
  ASSUME IInv, NEW c, Ends(c)
  PROVE  /\ calls[c].state \in States
         /\ Status[calls[c].state] = "exchanging"
         /\ Status' = [Status EXCEPT ![calls[c].state] = "over"]
<1> DEFINE s == calls[c].state
<1>1. s \in States /\ s \in DOMAIN born /\ Exchanging(s)
  BY DEF IInv, TypeOK, IsMap, Call, Drawn, Ends, Exchanging
<1>2. \A x \in States : Exchanging(x)' <=> (Exchanging(x) /\ x # s)
  BY DEF IInv, SingleUse, Ends, Exchanging
<1>3. s \notin DOMAIN flows
  BY DEF IInv, SingleUse, Ends
<1>4. Status[s] = "exchanging"
  BY <1>1 DEF Status
<1>5. Status' = [Status EXCEPT ![s] = "over"]
  BY <1>1, <1>2, <1>3 DEF Status, Ends
<1> QED BY <1>1, <1>4, <1>5

LEMMA RestartingCloses ==
  ASSUME IInv, Restart
  PROVE  Attempt!Close({s \in States : Status[s] \in {"pending", "exchanging"}})
<1>1. DOMAIN flows' = {} /\ DOMAIN calls' = {}
  BY EmptyMapType DEF Restart
<1>2. \A x \in States : ~Exchanging(x)'
  BY <1>1 DEF Exchanging
<1>3. born' = born /\ sessions' = sessions
  BY DEF Restart
<1>4. Status' = [x \in States |->
                   IF x \in {s \in States : Status[s] \in {"pending", "exchanging"}}
                     THEN "over" ELSE Status[x]]
  BY <1>1, <1>2, <1>3 DEF Status
<1> QED BY <1>3, <1>4 DEF Attempt!Close

LEMMA StepRefines ==
  ASSUME IInv, [Next]_vars PROVE [Attempt!Next]_(Attempt!attempt)
<1>1. ASSUME UNCHANGED <<flows, calls, born, sessions>>
      PROVE  [Attempt!Next]_(Attempt!attempt)
  BY <1>1, StuttersWhenUntouched
<1>2. ASSUME NEW client, NEW s \in States, StartRedirects(client, s)
      PROVE  Attempt!Next
  BY <1>2, StartingStarts DEF Attempt!Next
<1>3. ASSUME NEW S \in SUBSET States, Attempt!Close(S) PROVE Attempt!Next
  BY <1>3 DEF Attempt!Next
<1>4. ASSUME NEW s \in States, NEW p \in Providers,
             CallbackRefused(s, p) \/ CallbackDenied(s, p)
      PROVE  Attempt!Next
  <2>1. /\ {s} \in SUBSET States /\ {s} \subseteq DOMAIN flows
        /\ flows' = Without(flows, {s})
        /\ UNCHANGED <<calls, born, sessions>>
    BY <1>4 DEF CallbackRefused, CallbackDenied
  <2> QED BY <1>3, <2>1, DroppingCloses
<1>5. ASSUME NEW s \in States, NEW p \in Providers, NEW c \in Callbacks,
             CallbackExchanges(c, s, p)
      PROVE  Attempt!Next
  BY <1>5, BeginFacts, BeginningExchanges DEF Attempt!Next
<1>6. ASSUME NEW c \in DOMAIN calls, ExchangeSucceeds(c) PROVE Attempt!Next
  <2>1. Attempt!Grant(calls[c].state)
    BY <1>6, EndFacts, EndingIsOver
       DEF ExchangeSucceeds, Attempt!Grant, Attempt!Move
  <2> QED BY <1>6, <2>1, EndFacts, EndingIsOver DEF Attempt!Next
<1>7. ASSUME NEW c \in DOMAIN calls, ExchangeFails(c) PROVE Attempt!Next
  <2> DEFINE s == calls[c].state
  <2>1. /\ s \in States /\ Status[s] = "exchanging"
        /\ Status' = [Status EXCEPT ![s] = "over"]
    BY <1>7, EndFacts, EndingIsOver
  <2>2. Status' = [x \in States |-> IF x \in {s} THEN "over" ELSE Status[x]]
    BY <2>1 DEF Status
  <2>3. Attempt!Close({s})
    BY <1>7, <2>1, <2>2 DEF ExchangeFails, Attempt!Close
  <2> QED BY <1>3, <2>1, <2>3
<1>8. CASE Sweep
  <2>1. /\ Swept \in SUBSET States /\ Swept \subseteq DOMAIN flows
        /\ flows' = Without(flows, Swept)
        /\ UNCHANGED <<calls, born, sessions>>
    BY <1>8 DEF Sweep, Swept, IInv, TypeOK, IsMap
  <2> QED BY <1>3, <2>1, DroppingCloses
<1>9. CASE Restart
  BY <1>3, <1>9, RestartingCloses
<1> QED
  BY <1>1, <1>2, <1>4, <1>5, <1>6, <1>7, <1>8, <1>9
     DEF Next, vars, StartArrives, Tick, EditProviders

\* ImplementsAttempt: the two routes implement a login that is redeemed once
\* and yields at most one session.
THEOREM ImplementsLoginAttempt == Spec => ImplementsAttempt
<1>1. Init => Attempt!Init
  BY EmptyMapType DEF Init, Attempt!Init, Status
<1>2. IInv /\ [Next]_vars => [Attempt!Next]_(Attempt!attempt)
  BY StepRefines
<1> QED
  BY <1>1, <1>2, Invariance, PTL DEF Spec, ImplementsAttempt, Attempt!Spec

-----------------------------------------------------------------------------
(***************************************************************************)
(* What is over stays over.                                                *)
(***************************************************************************)

\* An attempt that was redeemed, refused, denied, swept or lost in a restart
\* is over: its state finds no flow and begins no exchange again, and if it
\* has yielded no session it never will, whoever replays its callback
\* ("a replayed callback request ...
\* can't complete the exchange a second time", oauthPendingFlowStore.ts:46-48).
OverForGood ==
  [][\A s \in States : Status[s] = "over" =>
       /\ Status'[s] = "over"
       /\ s \in sessions' => s \in sessions]_vars

LEMMA OverStep ==
  ASSUME IInv, [Next]_vars, NEW s \in States, Status[s] = "over"
  PROVE  Status'[s] = "over" /\ (s \in sessions' => s \in sessions)
<1> DEFINE Stays == Status'[s] = "over" /\ (s \in sessions' => s \in sessions)
<1>1. [Attempt!Next]_(Attempt!attempt)
  BY StepRefines
<1>2. ASSUME UNCHANGED Attempt!attempt PROVE Stays
  BY <1>2 DEF Attempt!attempt
<1>3. ASSUME NEW x \in States,
             Attempt!Start(x) \/ Attempt!Exchange(x) \/ Attempt!Grant(x)
      PROVE  Stays
  BY <1>3
     DEF Attempt!Start, Attempt!Exchange, Attempt!Grant, Attempt!Move, Status
<1>4. ASSUME NEW S \in SUBSET States, Attempt!Close(S) PROVE Stays
  BY <1>4 DEF Attempt!Close
<1> QED BY <1>1, <1>2, <1>3, <1>4 DEF Attempt!Next

\* OverForGood: no state can be used a second time, nor after it was refused.
THEOREM UsedUpForGood == Spec => OverForGood
<1>1. IInv /\ [Next]_vars =>
        [\A s \in States : Status[s] = "over" =>
           /\ Status'[s] = "over"
           /\ s \in sessions' => s \in sessions]_vars
  BY OverStep
<1> QED BY <1>1, Invariance, PTL DEF Spec, OverForGood
=============================================================================
