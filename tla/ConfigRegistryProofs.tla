------------------------ MODULE ConfigRegistryProofs ------------------------
(***************************************************************************)
(* The registries for every number of names, folders and variables and any *)
(* number of faults.  IInv adds to the properties that what a registry     *)
(* holds in memory was written for the folder it writes to, unless a       *)
(* switch stopped at it, and that a process that is down holds nothing and *)
(* will start where deployment.yaml says.                                  *)
(***************************************************************************)
EXTENDS ConfigRegistry, TLAPS

\* A new Map holds nothing, of whatever type.
LEMMA EmptyMapType ==
  ASSUME NEW K, NEW V
  PROVE  IsMap(EmptyMap, K, V) /\ DOMAIN EmptyMap = {}
  BY DEF IsMap, EmptyMap

\* set keeps the type of a Map.
LEMMA PutType ==
  ASSUME NEW K, NEW V, NEW m, NEW k \in K, NEW v \in V, IsMap(m, K, V)
  PROVE  IsMap(Put(m, k, v), K, V)
  BY DEF IsMap, Put

HomeIs(entries, f) == \A n \in DOMAIN entries : entries[n].home = f

MemoryHome == \A k \in Kinds \ stopped : HomeIs(raw[k], filePath[k])

DownInv ==
  ~up => /\ \A k \in Kinds : raw[k] = EmptyMap /\ filePath[k] = deployed
         /\ configDir = deployed
         /\ refused = {} /\ diverged = {}

HomeInv == EntriesStayHome /\ MemoryHome

IInv ==
  TypeOK /\ LiveIsStored /\ ResolvesUnlessRefused /\ HomeInv /\ OneFolder /\ DownInv

-----------------------------------------------------------------------------
(* Sets of entries *)

LEMMA EntriesFacts ==
  ASSUME NEW e \in Entries
  PROVE  /\ DOMAIN e \subseteq Names
         /\ \A n \in DOMAIN e : e[n] \in Entry
         /\ IsMap(e, Names, Entry)
<1>1. PICK N \in SUBSET Names : e \in [N -> Entry]
  BY DEF Entries
<1> QED BY <1>1 DEF IsMap

LEMMA MapIsEntries ==
  ASSUME NEW e, IsMap(e, Names, Entry)
  PROVE  e \in Entries
  BY DEF IsMap, Entries

LEMMA RestrictFacts ==
  ASSUME NEW e \in Entries, NEW N \in SUBSET DOMAIN e
  PROVE  /\ Restrict(e, N) \in Entries
         /\ DOMAIN Restrict(e, N) = N
         /\ \A n \in N : Restrict(e, N)[n] = e[n]
<1>1. IsMap(Restrict(e, N), Names, Entry)
  BY EntriesFacts DEF IsMap, Restrict
<1> QED BY <1>1, MapIsEntries DEF Restrict

LEMMA WithoutFacts ==
  ASSUME NEW e \in Entries, NEW S
  PROVE  /\ Without(e, S) \in Entries
         /\ DOMAIN Without(e, S) \subseteq DOMAIN e
         /\ \A n \in DOMAIN Without(e, S) : Without(e, S)[n] = e[n]
<1>1. DOMAIN e \ S \in SUBSET DOMAIN e
  OBVIOUS
<1> QED BY <1>1, RestrictFacts DEF Without

LEMMA PutFacts ==
  ASSUME NEW e \in Entries, NEW n \in Names, NEW v \in Entry
  PROVE  /\ Put(e, n, v) \in Entries
         /\ \A x \in DOMAIN Put(e, n, v) :
              Put(e, n, v)[x] = v \/ (x \in DOMAIN e /\ Put(e, n, v)[x] = e[x])
<1>1. IsMap(Put(e, n, v), Names, Entry)
  BY EntriesFacts, PutType
<1> QED BY <1>1, MapIsEntries DEF Put

LEMMA EmptyEntries == EmptyMap \in Entries /\ DOMAIN EmptyMap = {}
  BY EmptyMapType, MapIsEntries

LEMMA AuthoredFacts ==
  ASSUME NEW f, NEW k, NEW e \in Authored(f, k)
  PROVE  e \in Entries /\ HomeIs(e, f)
  BY DEF Authored, HomeIs

-----------------------------------------------------------------------------
(* What the handlers change *)

\* A write touches one file and leaves it with the entries, some of them, or
\* unreadable; only a write that went through leaves it vouched for.
LEMMA PersistFacts ==
  ASSUME TypeOK, NEW k \in Kinds, NEW e \in Entries, Persist(k, e)
  PROVE  /\ files' \in [Folders -> [Kinds -> Entries \cup {Unreadable}]]
         /\ faults' \in 0..MaxFaults
         /\ diverged' \subseteq Kinds
         /\ diverged' \ {k} = diverged \ {k}
         /\ k \notin diverged' => files'[filePath[k]][k] = e
         /\ \A f \in Folders, j \in Kinds :
              f # filePath[k] \/ j # k => files'[f][j] = files[f][j]
         /\ \/ files'[filePath[k]][k] = files[filePath[k]][k]
            \/ files'[filePath[k]][k] = Unreadable
            \/ \E N \in SUBSET DOMAIN e : files'[filePath[k]][k] = Restrict(e, N)
            \/ files'[filePath[k]][k] = e
<1> DEFINE p == filePath[k]
<1>1. p \in Folders /\ files[p][k] \in Entries \cup {Unreadable}
  BY DEF TypeOK
<1>2. faults' \in 0..MaxFaults
  BY ConfigRegistryAssumption DEF Persist, Fault, TypeOK
<1>3. \A c \in Entries \cup {Unreadable} :
        LET new == [files EXCEPT ![p][k] = c] IN
        /\ new \in [Folders -> [Kinds -> Entries \cup {Unreadable}]]
        /\ new[p][k] = c
        /\ \A f \in Folders, j \in Kinds : f # p \/ j # k => new[f][j] = files[f][j]
  BY <1>1 DEF TypeOK
<1>4. CASE Stored(k, e) /\ diverged' = diverged \ {k}
  <2>1. files' = [files EXCEPT ![p][k] = e]
    BY <1>4 DEF Stored
  <2> QED BY <1>2, <1>3, <1>4, <2>1 DEF TypeOK
<1>5. CASE NotStored(k, e) /\ diverged' = diverged \cup {k}
  <2>1. PICK c \in {files[p][k], Unreadable} \cup
                   {Restrict(e, N) : N \in (SUBSET DOMAIN e) \ {{}}} :
          files' = [files EXCEPT ![p][k] = c]
    BY <1>5 DEF NotStored
  <2>2. c \in Entries \cup {Unreadable}
    BY <1>1, <2>1, RestrictFacts
  <2>3. \/ c = files[p][k] \/ c = Unreadable
        \/ \E N \in SUBSET DOMAIN e : c = Restrict(e, N)
    BY <2>1
  <2>4. files'[p][k] = c
    BY <1>3, <2>1, <2>2
  <2> QED BY <1>2, <1>3, <1>5, <2>1, <2>2, <2>3, <2>4 DEF TypeOK
<1> QED BY <1>4, <1>5 DEF Persist

\* A switch or reload: each registry either takes what its file holds or keeps
\* what it had.
LEMMA LoadFacts ==
  ASSUME TypeOK, NEW t \in [Kinds -> Folders], Load(t)
  PROVE  /\ raw' \in [Kinds -> Entries]
         /\ \A k \in Loads(t) : raw'[k] = files[t[k]][k]
                                 /\ files[t[k]][k] # Unreadable
                                 /\ k \notin diverged' /\ k \notin refused'
                                 /\ (k \in clean' => Resolves(raw'[k], env))
         /\ \A k \in Kinds \ Loads(t) : raw'[k] = raw[k]
                                 /\ (k \in clean' => k \in clean)
                                 /\ (k \in refused => k \in refused')
                                 /\ (k \in diverged => k \in diverged')
         /\ \A k \in Reached(t) \ Loads(t) : t[k] # filePath[k] => k \in diverged'
         /\ Loads(t) \subseteq Reached(t) /\ Reached(t) \subseteq Kinds
         /\ clean' \subseteq Kinds /\ refused' \subseteq Kinds /\ diverged' \subseteq Kinds
         /\ up' = up /\ env' = env /\ files' = files /\ faults' = faults
<1>1. Loads(t) \subseteq Reached(t) /\ Reached(t) \subseteq Kinds
  BY DEF Loads, Reached, Kinds
<1>2. \A k \in Loads(t) : files[t[k]][k] # Unreadable /\ files[t[k]][k] \in Entries
  BY <1>1 DEF Loads, Parses, TypeOK
<1>3. raw' = [k \in Kinds |-> IF k \in Loads(t) THEN files[t[k]][k] ELSE raw[k]]
  BY DEF Load
<1>4. /\ raw' \in [Kinds -> Entries]
      /\ \A k \in Loads(t) : raw'[k] = files[t[k]][k]
      /\ \A k \in Kinds \ Loads(t) : raw'[k] = raw[k]
  BY <1>1, <1>2, <1>3 DEF TypeOK
<1>5. /\ clean' = (clean \ Loads(t)) \cup (Resolved(raw', env) \cap Loads(t))
      /\ refused' = refused \ Loads(t)
      /\ diverged' = (diverged \cup {k \in Reached(t) : t[k] # filePath[k]}) \ Loads(t)
      /\ up' = up /\ env' = env /\ files' = files /\ faults' = faults
  BY DEF Load
<1>6. \A k \in Loads(t) : k \in clean' => Resolves(raw'[k], env)
  BY <1>5 DEF Resolved
<1>7. clean' \subseteq Kinds /\ refused' \subseteq Kinds /\ diverged' \subseteq Kinds
  BY <1>1, <1>5 DEF TypeOK
<1> QED BY <1>1, <1>2, <1>4, <1>5, <1>6, <1>7

\* A save or a delete, through memory, the file and the history.  kept says
\* that what memory had of the home folder it still has of it.
LEMMA SaveFacts ==
  ASSUME TypeOK, NEW k \in Kinds, NEW input \in Inputs[k],
         Save(k, input[1], input[2])
  PROVE  \E e \in Entries :
           /\ raw' = [raw EXCEPT ![k] = e]
           /\ HomeIs(raw[k], filePath[k]) => HomeIs(e, filePath[k])
           /\ \/ /\ Resolves(e, env) /\ Persist(k, e)
                 /\ clean' = clean \cup {k} /\ refused' = refused \ {k}
              \/ /\ refused' = refused \cup {k} /\ diverged' = diverged \cup {k}
                 /\ UNCHANGED <<files, faults, clean>>
           /\ UNCHANGED <<up, env, filePath, configDir, deployed, stopped>>
           /\ up
<1> DEFINE v == [setting |-> input[2], home |-> filePath[k]]
           e == Put(raw[k], input[1], v)
<1>1. input[1] \in Names /\ input[2] \in Setting /\ filePath[k] \in Folders
      /\ raw[k] \in Entries
  BY ConfigRegistryAssumption DEF TypeOK
<1>2. v \in Entry /\ v.home = filePath[k]
  BY <1>1 DEF Entry
<1>3. /\ raw' = [raw EXCEPT ![k] = e]
      /\ \/ /\ Resolves(e, env) /\ Persist(k, e)
            /\ clean' = clean \cup {k} /\ refused' = refused \ {k}
         \/ /\ refused' = refused \cup {k} /\ diverged' = diverged \cup {k}
            /\ UNCHANGED <<files, faults, clean>>
      /\ UNCHANGED <<up, env, filePath, configDir, deployed, stopped>>
      /\ up
  BY DEF Save, Accepts
<1> HIDE DEF v
<1>4. e \in Entries
  BY <1>1, <1>2, PutFacts
<1>5. HomeIs(raw[k], filePath[k]) => HomeIs(e, filePath[k])
  BY <1>1, <1>2, PutFacts DEF HomeIs
<1> HIDE DEF e
<1> QED BY <1>3, <1>4, <1>5

LEMMA DeleteFacts ==
  ASSUME TypeOK, NEW k \in Kinds, NEW n \in Names, Delete(k, n)
  PROVE  \E e \in Entries :
           /\ raw' = [raw EXCEPT ![k] = e]
           /\ HomeIs(raw[k], filePath[k]) => HomeIs(e, filePath[k])
           /\ Resolves(raw[k], env) => Resolves(e, env)
           /\ Persist(k, e)
           /\ UNCHANGED <<up, env, filePath, configDir, deployed, clean, refused, stopped>>
           /\ up
<1> DEFINE e == Without(raw[k], {n})
<1>1. raw[k] \in Entries
  BY DEF TypeOK
<1>2. /\ e \in Entries
      /\ HomeIs(raw[k], filePath[k]) => HomeIs(e, filePath[k])
      /\ Resolves(raw[k], env) => Resolves(e, env)
  BY <1>1, WithoutFacts DEF HomeIs, Resolves
<1>3. /\ raw' = [raw EXCEPT ![k] = e]
      /\ Persist(k, e)
      /\ UNCHANGED <<up, env, filePath, configDir, deployed, clean, refused, stopped>>
      /\ up
  BY DEF Delete
<1> HIDE DEF e
<1> QED BY <1>2, <1>3

-----------------------------------------------------------------------------
(* Each step keeps IInv *)

\* What a write does to the parts of IInv, whoever made it.
LEMMA WriteKeeps ==
  ASSUME IInv, NEW k \in Kinds, NEW e \in Entries, Persist(k, e),
         raw' = [raw EXCEPT ![k] = e],
         HomeIs(raw[k], filePath[k]) => HomeIs(e, filePath[k]),
         UNCHANGED <<up, env, filePath, configDir, deployed, stopped>>, up
  PROVE  LiveIsStored' /\ HomeInv'
<1>1. raw'[k] = e /\ \A j \in Kinds \ {k} : raw'[j] = raw[j]
  BY DEF IInv, TypeOK
<1>2. LiveIsStored'
  <2>1. ASSUME NEW j \in Kinds \ diverged'
        PROVE  files'[filePath[j]][j] = raw'[j]
    <3>1. CASE j = k
      BY <1>1, <2>1, <3>1, PersistFacts DEF IInv
    <3>2. CASE j # k
      <4>1. j \notin diverged /\ filePath[j] \in Folders
        BY <2>1, <3>2, PersistFacts DEF IInv, TypeOK
      <4>2. files'[filePath[j]][j] = files[filePath[j]][j]
        BY <3>2, <4>1, PersistFacts DEF IInv
      <4> QED BY <1>1, <3>2, <4>1, <4>2 DEF IInv, LiveIsStored
    <3> QED BY <3>1, <3>2
  <2> QED BY <2>1 DEF LiveIsStored
<1>3. MemoryHome'
  BY <1>1 DEF IInv, HomeInv, MemoryHome
<1>4. EntriesStayHome'
  <2> SUFFICES ASSUME NEW f \in Folders, NEW j \in Kinds \ stopped,
                      files'[f][j] # Unreadable, NEW n \in DOMAIN files'[f][j]
               PROVE  files'[f][j][n].home = f
    BY DEF EntriesStayHome
  <2>1. CASE files'[f][j] = files[f][j]
    BY <2>1 DEF IInv, HomeInv, EntriesStayHome
  <2>2. CASE f = filePath[k] /\ j = k /\ files'[f][j] # files[f][j]
    <3>1. HomeIs(e, f)
      BY <2>2 DEF IInv, HomeInv, MemoryHome
    <3>2. \/ \E N \in SUBSET DOMAIN e : files'[f][j] = Restrict(e, N)
          \/ files'[f][j] = e
      BY <2>2, PersistFacts DEF IInv
    <3> QED BY <3>1, <3>2, RestrictFacts DEF HomeIs
  <2> QED BY <2>1, <2>2, PersistFacts DEF IInv
<1> QED BY <1>2, <1>3, <1>4 DEF HomeInv

LEMMA SaveKeeps ==
  ASSUME IInv, NEW k \in Kinds, NEW input \in Inputs[k], Save(k, input[1], input[2])
  PROVE  IInv'
<1>1. PICK e \in Entries :
        /\ raw' = [raw EXCEPT ![k] = e]
        /\ HomeIs(raw[k], filePath[k]) => HomeIs(e, filePath[k])
        /\ \/ /\ Resolves(e, env) /\ Persist(k, e)
              /\ clean' = clean \cup {k} /\ refused' = refused \ {k}
           \/ /\ refused' = refused \cup {k} /\ diverged' = diverged \cup {k}
              /\ UNCHANGED <<files, faults, clean>>
        /\ UNCHANGED <<up, env, filePath, configDir, deployed, stopped>>
        /\ up
  BY SaveFacts DEF IInv
<1>2. raw'[k] = e /\ \A j \in Kinds \ {k} : raw'[j] = raw[j]
  BY <1>1 DEF IInv, TypeOK
<1>3. CASE /\ Resolves(e, env) /\ Persist(k, e)
           /\ clean' = clean \cup {k} /\ refused' = refused \ {k}
  <2>1. TypeOK'
    BY <1>1, <1>3, PersistFacts DEF IInv, TypeOK
  <2>2. LiveIsStored' /\ HomeInv'
    BY <1>1, <1>3, WriteKeeps
  <2>3. ResolvesUnlessRefused'
    BY <1>1, <1>2, <1>3 DEF IInv, ResolvesUnlessRefused
  <2>4. OneFolder' /\ DownInv'
    BY <1>1 DEF IInv, OneFolder, DownInv
  <2> QED BY <2>1, <2>2, <2>3, <2>4 DEF IInv
<1>4. CASE /\ refused' = refused \cup {k} /\ diverged' = diverged \cup {k}
           /\ UNCHANGED <<files, faults, clean>>
  <2>1. TypeOK'
    BY <1>1, <1>4 DEF IInv, TypeOK
  <2>2. LiveIsStored' /\ ResolvesUnlessRefused'
    BY <1>1, <1>2, <1>4 DEF IInv, LiveIsStored, ResolvesUnlessRefused
  <2>3. HomeInv'
    BY <1>1, <1>2, <1>4 DEF IInv, HomeInv, MemoryHome, EntriesStayHome
  <2>4. OneFolder' /\ DownInv'
    BY <1>1 DEF IInv, OneFolder, DownInv
  <2> QED BY <2>1, <2>2, <2>3, <2>4 DEF IInv
<1> QED BY <1>1, <1>3, <1>4

LEMMA DeleteKeeps ==
  ASSUME IInv, NEW k \in Kinds, NEW n \in Names, Delete(k, n)
  PROVE  IInv'
<1>1. PICK e \in Entries :
        /\ raw' = [raw EXCEPT ![k] = e]
        /\ HomeIs(raw[k], filePath[k]) => HomeIs(e, filePath[k])
        /\ Resolves(raw[k], env) => Resolves(e, env)
        /\ Persist(k, e)
        /\ UNCHANGED <<up, env, filePath, configDir, deployed, clean, refused, stopped>>
        /\ up
  BY DeleteFacts DEF IInv
<1>2. raw'[k] = e /\ \A j \in Kinds \ {k} : raw'[j] = raw[j]
  BY <1>1 DEF IInv, TypeOK
<1>3. TypeOK'
  BY <1>1, PersistFacts DEF IInv, TypeOK
<1>4. LiveIsStored' /\ HomeInv'
  BY <1>1, WriteKeeps
<1>5. ResolvesUnlessRefused'
  BY <1>1, <1>2 DEF IInv, ResolvesUnlessRefused
<1>6. OneFolder' /\ DownInv'
  BY <1>1 DEF IInv, OneFolder, DownInv
<1> QED BY <1>3, <1>4, <1>5, <1>6 DEF IInv

\* A registry that is loaded has what its file has; one that the handler did
\* not come to is as it was; one in between is noted as stopped.
LEMMA LoadKeeps ==
  ASSUME IInv, up, NEW t \in [Kinds -> Folders], Load(t),
         filePath' = Repointed(t),
         stopped' \subseteq Kinds, stopped \subseteq stopped',
         \A k \in Reached(t) \ Loads(t) : t[k] # filePath[k] => k \in stopped'
  PROVE  LiveIsStored' /\ ResolvesUnlessRefused' /\ HomeInv'
         /\ filePath' \in [Kinds -> Folders]
         /\ \A k \in Kinds : k \in Loads(t) => filePath'[k] = t[k]
<1>0. /\ Loads(t) \subseteq Reached(t) /\ Reached(t) \subseteq Kinds
      /\ up' = up /\ env' = env /\ files' = files
  BY LoadFacts DEF IInv
<1>1. /\ filePath' \in [Kinds -> Folders]
      /\ \A k \in Reached(t) : filePath'[k] = t[k]
      /\ \A k \in Kinds \ Reached(t) : filePath'[k] = filePath[k]
  BY LoadFacts DEF Repointed, IInv, TypeOK
<1>2. LiveIsStored'
  <2>1. ASSUME NEW k \in Kinds, k \notin diverged'
        PROVE  files'[filePath'[k]][k] = raw'[k]
    <3>1. CASE k \in Loads(t)
      <4>1. raw'[k] = files[t[k]][k]
        BY <3>1, LoadFacts DEF IInv
      <4> QED BY <1>0, <1>1, <3>1, <4>1
    <3>2. CASE k \notin Loads(t)
      <4>1. raw'[k] = raw[k] /\ k \notin diverged
        BY <2>1, <3>2, LoadFacts DEF IInv
      <4>2. filePath'[k] = filePath[k]
        BY <1>1, <2>1, <3>2, LoadFacts DEF IInv
      <4> QED BY <4>1, <4>2, LoadFacts DEF IInv, LiveIsStored
    <3> QED BY <3>1, <3>2
  <2> QED BY <2>1 DEF LiveIsStored
<1>3. ResolvesUnlessRefused'
  <2>1. ASSUME NEW k \in Kinds, k \in clean', k \notin refused'
        PROVE  Resolves(raw'[k], env)
    <3>1. CASE k \in Loads(t)
      BY <2>1, <3>1, LoadFacts DEF IInv
    <3>2. CASE k \notin Loads(t)
      <4>1. raw'[k] = raw[k] /\ k \in clean /\ k \notin refused
        BY <2>1, <3>2, LoadFacts DEF IInv
      <4> QED BY <4>1 DEF IInv, ResolvesUnlessRefused
    <3> QED BY <3>1, <3>2
  <2> QED BY <2>1, LoadFacts DEF IInv, ResolvesUnlessRefused
<1>4. MemoryHome'
  <2>1. ASSUME NEW k \in Kinds, k \notin stopped'
        PROVE  HomeIs(raw'[k], filePath'[k])
    <3>1. CASE k \in Loads(t)
      <4>1. raw'[k] = files[t[k]][k] /\ files[t[k]][k] # Unreadable /\ filePath'[k] = t[k]
        BY <1>1, <3>1, LoadFacts DEF IInv
      <4>2. k \in Kinds \ stopped /\ t[k] \in Folders
        BY <2>1
      <4> QED BY <4>1, <4>2 DEF IInv, HomeInv, EntriesStayHome, HomeIs
    <3>2. CASE k \notin Loads(t)
      <4>1. raw'[k] = raw[k] /\ filePath'[k] = filePath[k]
        BY <1>1, <2>1, <3>2, LoadFacts DEF IInv
      <4> QED BY <2>1, <4>1 DEF IInv, HomeInv, MemoryHome
    <3> QED BY <3>1, <3>2
  <2> QED BY <2>1 DEF MemoryHome
<1>5. EntriesStayHome'
  BY <1>0 DEF IInv, HomeInv, EntriesStayHome
<1> QED BY <1>1, <1>2, <1>3, <1>4, <1>5, LoadFacts DEF HomeInv, IInv

LEMMA ReloadKeeps ==
  ASSUME IInv, Reload
  PROVE  IInv'
<1>1. up /\ Load(filePath) /\ UNCHANGED <<filePath, configDir, deployed, stopped>>
  BY DEF Reload
<1>2. filePath \in [Kinds -> Folders] /\ filePath' = Repointed(filePath)
  BY <1>1 DEF IInv, TypeOK, Repointed
<1>3. stopped' \subseteq Kinds /\ stopped \subseteq stopped'
  BY <1>1 DEF IInv, TypeOK
<1>4. LiveIsStored' /\ ResolvesUnlessRefused' /\ HomeInv'
  BY <1>1, <1>2, <1>3, LoadKeeps
<1>5. TypeOK'
  BY <1>1, <1>2, LoadFacts DEF IInv, TypeOK
<1>6. OneFolder' /\ DownInv'
  BY <1>1, <1>2, LoadFacts DEF IInv, OneFolder, DownInv
<1> QED BY <1>4, <1>5, <1>6 DEF IInv

LEMMA SwitchKeeps ==
  ASSUME IInv, NEW f \in Folders, Switch(f)
  PROVE  IInv'
<1> DEFINE t == [k \in Kinds |-> f]
<1>1. /\ up /\ Load(t)
      /\ filePath' = Repointed(t) /\ configDir' = Reported(t)
      /\ deployed' \in {configDir', deployed}
      /\ stopped' = stopped \cup (Reached(t) \ Loads(t))
  BY DEF Switch
<1>2. t \in [Kinds -> Folders] /\ \A k \in Kinds : t[k] = f
  OBVIOUS
<1> HIDE DEF t
<1>3. stopped' \subseteq Kinds /\ stopped \subseteq stopped'
      /\ \A k \in Reached(t) \ Loads(t) : k \in stopped'
  BY <1>1, <1>2, LoadFacts DEF IInv, TypeOK
<1>4. LiveIsStored' /\ ResolvesUnlessRefused' /\ HomeInv'
      /\ filePath' \in [Kinds -> Folders]
      /\ \A k \in Kinds : k \in Loads(t) => filePath'[k] = t[k]
  BY <1>1, <1>2, <1>3, LoadKeeps
<1>5. configDir' \in Folders /\ deployed' \in Folders
  BY <1>1, <1>2 DEF Reported, IInv, TypeOK, Kinds
<1>6. TypeOK'
  <2>1. /\ raw' \in [Kinds -> Entries]
        /\ clean' \subseteq Kinds /\ refused' \subseteq Kinds /\ diverged' \subseteq Kinds
        /\ up' = up /\ env' = env /\ files' = files /\ faults' = faults
    BY <1>1, <1>2, LoadFacts DEF IInv
  <2> QED BY <1>3, <1>4, <1>5, <2>1 DEF IInv, TypeOK
<1>7. OneFolder'
  <2> SUFFICES ASSUME stopped' = {}, NEW k \in Kinds
               PROVE  filePath'[k] = configDir'
    BY DEF OneFolder
  <2>1. Loads(t) = Reached(t)
    BY <1>1, <1>2, LoadFacts DEF IInv
  <2>2. Loads(t) = Kinds
    BY <2>1 DEF Reached, Loads, Kinds
  <2>3. "gateways" \in Kinds
    BY DEF Kinds
  <2> QED BY <1>1, <1>2, <1>4, <2>2, <2>3 DEF Reported
<1>8. DownInv'
  BY <1>1, <1>2, LoadFacts DEF IInv, DownInv
<1> QED BY <1>4, <1>6, <1>7, <1>8 DEF IInv

LEMMA EditKeeps ==
  ASSUME IInv, NEW f \in Folders, NEW k \in Kinds,
         NEW content \in Authored(f, k) \cup {Unreadable}, EditFile(f, k, content)
  PROVE  IInv'
<1>1. /\ files' = [files EXCEPT ![f][k] = content]
      /\ faults' = faults + 1 /\ faults < MaxFaults
      /\ diverged' = diverged \cup {r \in {k} : up /\ filePath[k] = f}
      /\ UNCHANGED <<up, env, raw, filePath, configDir, deployed, clean, refused, stopped>>
  BY DEF EditFile, Fault
<1>2. content \in Entries \cup {Unreadable}
      /\ (content # Unreadable => HomeIs(content, f))
  BY AuthoredFacts
<1>3. TypeOK'
  BY <1>1, <1>2, ConfigRegistryAssumption DEF IInv, TypeOK
<1>4. /\ files'[f][k] = content
      /\ \A g \in Folders, j \in Kinds : g # f \/ j # k => files'[g][j] = files[g][j]
  BY <1>1 DEF IInv, TypeOK
<1>5. LiveIsStored'
  <2>1. ASSUME NEW j \in Kinds, j \notin diverged', up
        PROVE  files[filePath[j]][j] = files'[filePath[j]][j]
               /\ files[filePath[j]][j] = raw[j]
    BY <1>1, <1>4, <2>1 DEF IInv, TypeOK, LiveIsStored
  <2> QED BY <1>1, <2>1 DEF LiveIsStored
<1>6. EntriesStayHome'
  <2> SUFFICES ASSUME NEW g \in Folders, NEW j \in Kinds \ stopped,
                      files'[g][j] # Unreadable, NEW n \in DOMAIN files'[g][j]
               PROVE  files'[g][j][n].home = g
    BY <1>1 DEF EntriesStayHome
  <2>1. CASE g = f /\ j = k
    BY <1>2, <1>4, <2>1 DEF HomeIs
  <2>2. CASE g # f \/ j # k
    BY <1>4, <2>2 DEF IInv, HomeInv, EntriesStayHome
  <2> QED BY <2>1, <2>2
<1>7. MemoryHome' /\ ResolvesUnlessRefused' /\ OneFolder'
  BY <1>1 DEF IInv, HomeInv, MemoryHome, ResolvesUnlessRefused, OneFolder
\* An edit of a process that is down diverges from nothing it serves.
<1>8. DownInv'
  BY <1>1 DEF IInv, DownInv
<1> QED BY <1>3, <1>5, <1>6, <1>7, <1>8 DEF IInv, HomeInv

LEMMA CrashKeeps ==
  ASSUME IInv, Crash
  PROVE  IInv'
<1>1. /\ up' = FALSE /\ env' = {}
      /\ raw' = [k \in Kinds |-> EmptyMap]
      /\ filePath' = [k \in Kinds |-> deployed]
      /\ configDir' = deployed
      /\ clean' = {} /\ refused' = {} /\ diverged' = {}
      /\ UNCHANGED <<deployed, files, faults, stopped>>
  BY DEF Crash
<1>2. TypeOK' /\ DownInv'
  BY <1>1, EmptyEntries DEF IInv, TypeOK, DownInv
<1>3. LiveIsStored' /\ ResolvesUnlessRefused' /\ OneFolder'
  BY <1>1 DEF LiveIsStored, ResolvesUnlessRefused, OneFolder
<1>4. HomeInv'
  BY <1>1, EmptyEntries DEF IInv, HomeInv, MemoryHome, EntriesStayHome, HomeIs
<1> QED BY <1>2, <1>3, <1>4 DEF IInv

LEMMA StartKeeps ==
  ASSUME IInv, NEW set \in SUBSET Vars, Start(set)
  PROVE  IInv'
<1>1. /\ ~up /\ up' = TRUE /\ env' = set
      /\ \A k \in Kinds : files[deployed][k] # Unreadable
      /\ raw' = files[deployed]
      /\ clean' = Resolved(raw', set)
      /\ UNCHANGED <<filePath, configDir, deployed, files, faults, refused, diverged, stopped>>
  BY DEF Start
<1>2. /\ \A k \in Kinds : filePath[k] = deployed
      /\ configDir = deployed /\ deployed \in Folders
  BY <1>1 DEF IInv, DownInv, TypeOK
<1>3. raw' \in [Kinds -> Entries]
  BY <1>1, <1>2 DEF IInv, TypeOK
<1>4. TypeOK'
  BY <1>1, <1>3 DEF IInv, TypeOK, Resolved
<1>5. LiveIsStored' /\ OneFolder' /\ DownInv'
  BY <1>1, <1>2 DEF LiveIsStored, OneFolder, DownInv
<1>6. ResolvesUnlessRefused'
  BY <1>1 DEF ResolvesUnlessRefused, Resolved
<1>7. HomeInv'
  BY <1>1, <1>2 DEF IInv, HomeInv, MemoryHome, EntriesStayHome, HomeIs
<1> QED BY <1>4, <1>5, <1>6, <1>7 DEF IInv

LEMMA InitHolds == Init => IInv
<1> SUFFICES ASSUME Init PROVE IInv
  OBVIOUS
<1>1. \A f \in Folders, k \in Kinds : files[f][k] \in Authored(f, k)
  BY DEF Init, AuthoredFolders
<1>2. \A f \in Folders, k \in Kinds :
        files[f][k] \in Entries /\ HomeIs(files[f][k], f)
  BY <1>1, AuthoredFacts
<1>3. files \in [Folders -> [Kinds -> Entries]]
  <2>1. files \in [Folders -> UNION {AuthoredFolders(f) : f \in Folders}]
        /\ \A f \in Folders : files[f] \in AuthoredFolders(f)
    BY DEF Init
  <2>2. \A f \in Folders : files[f] \in [Kinds -> Entries]
    BY <1>2, <2>1 DEF AuthoredFolders
  <2> QED BY <2>1, <2>2
<1>4. deployed \in Folders /\ raw = files[deployed]
      /\ filePath = [k \in Kinds |-> deployed] /\ configDir = deployed
      /\ up = TRUE /\ env \in SUBSET Vars /\ faults = 0
      /\ clean = Resolved(raw, env)
      /\ refused = {} /\ diverged = {} /\ stopped = {}
  BY DEF Init
<1>5. TypeOK
  BY <1>3, <1>4, ConfigRegistryAssumption DEF TypeOK, Resolved
<1>6. LiveIsStored /\ OneFolder /\ DownInv
  BY <1>4 DEF LiveIsStored, OneFolder, DownInv
<1>7. ResolvesUnlessRefused
  BY <1>4 DEF ResolvesUnlessRefused, Resolved
<1>8. HomeInv
  BY <1>2, <1>4 DEF HomeInv, EntriesStayHome, MemoryHome, HomeIs
<1> QED BY <1>5, <1>6, <1>7, <1>8 DEF IInv

-----------------------------------------------------------------------------

LEMMA Invariance == Spec => []IInv
<1>1. IInv /\ [Next]_vars => IInv'
  <2> SUFFICES ASSUME IInv, [Next]_vars PROVE IInv'
    OBVIOUS
  <2>1. CASE UNCHANGED vars
    BY <2>1 DEF vars, history, IInv, TypeOK, LiveIsStored, ResolvesUnlessRefused,
                HomeInv, EntriesStayHome, MemoryHome, OneFolder, DownInv
  <2>2. CASE Next
    BY <2>2, SaveKeeps, DeleteKeeps, ReloadKeeps, SwitchKeeps, EditKeeps,
       CrashKeeps, StartKeeps DEF Next
  <2> QED BY <2>1, <2>2
<1> QED BY <1>1, InitHolds, PTL DEF Spec

\* TypeOK: every state of the registries is well typed.
THEOREM TypeCorrect == Spec => []TypeOK
  BY Invariance, PTL DEF IInv

\* LiveIsStored: what is served is what a restart brings back, unless the
\* console was told of an error or somebody else wrote the file.
THEOREM RestartChangesNothing == Spec => []LiveIsStored
  BY Invariance, PTL DEF IInv

\* ResolvesUnlessRefused: a registry that resolved when it was loaded resolves,
\* unless it holds a save that was refused.
THEOREM SavesAreChecked == Spec => []ResolvesUnlessRefused
  BY Invariance, PTL DEF IInv

\* EntriesStayHome: only a registry that a failed switch left half repointed
\* ever writes one folder's entries into another folder's file.
THEOREM NoForeignEntries == Spec => []EntriesStayHome
  BY Invariance, PTL DEF IInv, HomeInv

\* OneFolder: unless a switch failed half way, both registries work on the
\* folder the console reports.
THEOREM FoldersAgree == Spec => []OneFolder
  BY Invariance, PTL DEF IInv

-----------------------------------------------------------------------------
(***************************************************************************)
(* What a step may not do to the entries it is not about.                  *)
(***************************************************************************)

\* A load from the file a registry is on brings back what it serves.
LEMMA LoadBringsBack ==
  ASSUME IInv, up, NEW t \in [Kinds -> Folders], Load(t),
         NEW k \in Kinds \ diverged, k \in Loads(t) => t[k] = filePath[k]
  PROVE  raw'[k] = raw[k]
<1>1. raw' = [x \in Kinds |-> IF x \in Loads(t) THEN files[t[x]][x] ELSE raw[x]]
  BY DEF Load
<1>2. files[filePath[k]][k] = raw[k]
  BY DEF IInv, LiveIsStored
<1> QED BY <1>1, <1>2

LEMMA UntouchedStep ==
  ASSUME IInv, [Next]_vars, NEW k \in Kinds \ diverged, NEW n \in DOMAIN raw[k],
         up, up', filePath'[k] = filePath[k]
  PROVE  StaysServed(k, n) \/ Writes(k, n)
<1>1. ASSUME raw'[k] = raw[k] PROVE StaysServed(k, n)
  BY <1>1 DEF StaysServed
<1>2. /\ raw \in [Kinds -> Entries] /\ filePath \in [Kinds -> Folders]
      /\ Inputs \in [Kinds -> SUBSET (Names \X Setting)]
  BY ConfigRegistryAssumption DEF IInv, TypeOK
<1>3. ASSUME NEW j \in Kinds, NEW input \in Inputs[j], Save(j, input[1], input[2])
      PROVE  StaysServed(k, n) \/ Writes(k, n)
  <2> DEFINE entry == [setting |-> input[2], home |-> filePath[j]]
  <2>1. input[2] \in Setting
    BY <1>2, <1>3
  <2>2. raw' = [raw EXCEPT ![j] = Put(raw[j], input[1], entry)]
    BY <1>3 DEF Save
  <2>3. CASE j # k
    BY <1>1, <1>2, <2>2, <2>3
  <2>4. CASE j = k /\ input[1] = n
    BY <1>3, <2>1, <2>4 DEF Writes
  <2>5. CASE j = k /\ input[1] # n
    <3>1. raw'[k] = Put(raw[k], input[1], entry)
      BY <1>2, <2>2, <2>5
    <3> HIDE DEF entry
    <3> QED BY <2>5, <3>1 DEF StaysServed, Put
  <2> QED BY <2>3, <2>4, <2>5
<1>4. ASSUME NEW j \in Kinds, NEW m \in Names, Delete(j, m)
      PROVE  StaysServed(k, n) \/ Writes(k, n)
  <2>1. raw' = [raw EXCEPT ![j] = Without(raw[j], {m})]
    BY <1>4 DEF Delete
  <2>2. CASE j # k
    BY <1>1, <1>2, <2>1, <2>2
  <2>3. CASE j = k /\ m = n
    BY <1>4, <2>3 DEF Writes
  <2>4. CASE j = k /\ m # n
    <3>1. raw'[k] = Without(raw[k], {m})
      BY <1>2, <2>1, <2>4
    <3> QED BY <2>4, <3>1 DEF StaysServed, Without, Restrict
  <2> QED BY <2>2, <2>3, <2>4
<1>5. CASE Reload
  <2>1. raw'[k] = raw[k]
    BY <1>2, <1>5, LoadBringsBack DEF Reload
  <2> QED BY <1>1, <2>1
<1>6. ASSUME NEW f \in Folders, Switch(f) PROVE StaysServed(k, n)
  <2> DEFINE t == [j \in Kinds |-> f]
  <2>1. t \in [Kinds -> Folders] /\ Load(t) /\ filePath' = Repointed(t)
    BY <1>6 DEF Switch
  <2>2. k \in Loads(t) => t[k] = filePath[k]
    BY <2>1 DEF Repointed, Loads
  <2> HIDE DEF t
  <2>3. raw'[k] = raw[k]
    BY <2>1, <2>2, LoadBringsBack
  <2> QED BY <1>1, <2>3
<1>7. ASSUME Crash \/ \E set \in SUBSET Vars : Start(set) PROVE FALSE
  BY <1>7 DEF Crash, Start
<1>8. ASSUME NEW f, NEW j, NEW content, EditFile(f, j, content)
      PROVE  StaysServed(k, n)
  BY <1>1, <1>8 DEF EditFile
<1>9. CASE UNCHANGED vars
  BY <1>1, <1>9 DEF vars
<1> QED BY <1>3, <1>4, <1>5, <1>6, <1>7, <1>8, <1>9 DEF Next

\* OthersUntouched: entries change by their own saves and deletes only.
THEOREM EntriesKeptApart == Spec => OthersUntouched
<1>1. IInv /\ [Next]_vars =>
        [\A k \in Kinds \ diverged : \A n \in DOMAIN raw[k] :
           (up /\ up' /\ filePath'[k] = filePath[k]) =>
             StaysServed(k, n) \/ Writes(k, n)]_vars
  BY UntouchedStep
<1> QED BY <1>1, Invariance, PTL DEF Spec, OthersUntouched
=============================================================================
