-------------------------- MODULE WorkspaceProofs --------------------------
(***************************************************************************)
(* The workspace for any number of functions, integrations, apps, folders  *)
(* and faults.  The references are sound together: FunctionsThere speaks   *)
(* of functions and integrations, RoutesResolve of integrations and apps,  *)
(* and every change of one registry has to be looked at from both sides.   *)
(* Together with the types they are inductive, also for loads that stop    *)
(* half way: stale says from which registry on nothing is promised.        *)
(* LiveIsStored is proved beside IInv from InStep, which compares memory   *)
(* and disk file by file: what a load would compute from the whole folder  *)
(* no single change can be shown to keep.                                  *)
(***************************************************************************)
EXTENDS Workspace, TLAPS

\* set keeps the type of a Map.
LEMMA PutType ==
  ASSUME NEW K, NEW V, NEW m, NEW k \in K, NEW v \in V, IsMap(m, K, V)
  PROVE  IsMap(Put(m, k, v), K, V)
  BY DEF IsMap, Put

\* delete keeps the type of a Map.
LEMMA WithoutType ==
  ASSUME NEW K, NEW V, NEW m, NEW S, IsMap(m, K, V)
  PROVE  IsMap(Without(m, S), K, V)
  BY DEF IsMap, Without, Restrict

IInv == TypeOK /\ FunctionsThere /\ RoutesResolve

-----------------------------------------------------------------------------
(* Loading *)

LEMMA ConfigType ==
  /\ Config["integrations"] = Integration
  /\ Config["apps"] = SUBSET Route
  BY DEF Config

\* Resolving references to variables leaves the names that are referred to.
LEMMA SubstitutedFacts ==
  ASSUME NEW k \in Kinds, NEW c \in Config[k]
  PROVE  /\ Substituted(k, c) \in Config[k]
         /\ Needs(k, Substituted(k, c)) = Needs(k, c)
         /\ k = "apps" => Substituted(k, c) = c
<1>1. CASE k = "integrations"
  <2>1. c \in Integration
    BY <1>1, ConfigType
  <2> QED BY <1>1, <2>1, ConfigType DEF Substituted, Needs, Integration
<1>2. CASE k = "apps"
  BY <1>2 DEF Substituted
<1> QED BY <1>1, <1>2 DEF Kinds

\* What is loaded is well typed and names nothing that is not there.
LEMMA LoadedFacts ==
  ASSUME NEW k \in Kinds, NEW dir, IsMap(dir, Files, Stored(k)), NEW names
  PROVE  /\ IsMap(Loaded(k, dir, names), Ids, Entry(k))
         /\ \A id \in DOMAIN Loaded(k, dir, names) :
              Needs(k, Loaded(k, dir, names)[id].config) \subseteq names
<1> DEFINE kept == Kept(k, dir, names)
           ids  == {dir[f].id : f \in kept}
           at(id) == CHOOSE g \in kept : dir[g].id = id
<1>1. \A f \in kept : /\ f \in DOMAIN dir /\ f \in Files /\ dir[f] # Malformed
                      /\ dir[f] \in [id: Ids, config: Config[k]]
                      /\ Needs(k, dir[f].config) \subseteq names
  BY DEF Kept, FirstWithId, Parsed, IsMap, Stored
<1>2. \A id \in ids : at(id) \in kept /\ dir[at(id)].id = id
  OBVIOUS
<1>3. Loaded(k, dir, names) =
        [id \in ids |-> [config |-> Substituted(k, dir[at(id)].config), file |-> at(id)]]
  BY DEF Loaded
<1> HIDE DEF kept, at, ids
<1>4. ASSUME NEW id \in ids
      PROVE  LET e == [config |-> Substituted(k, dir[at(id)].config), file |-> at(id)] IN
             /\ id \in Ids
             /\ e \in Entry(k)
             /\ Needs(k, e.config) \subseteq names
  <2>1. at(id) \in kept /\ dir[at(id)].id = id
    BY <1>2
  <2>2. /\ at(id) \in DOMAIN dir /\ at(id) \in Files /\ dir[at(id)] # Malformed
        /\ dir[at(id)] \in [id: Ids, config: Config[k]]
        /\ Needs(k, dir[at(id)].config) \subseteq names
    BY <1>1, <2>1
  <2>3. id \in Ids /\ dir[at(id)].config \in Config[k]
    BY <2>1, <2>2
  <2> QED BY <2>2, <2>3, SubstitutedFacts DEF Entry
<1>5. IsMap(Loaded(k, dir, names), Ids, Entry(k))
  BY <1>3, <1>4 DEF IsMap
<1>6. ASSUME NEW id \in DOMAIN Loaded(k, dir, names)
      PROVE  Needs(k, Loaded(k, dir, names)[id].config) \subseteq names
  <2>1. id \in ids
    BY <1>3
  <2>2. Loaded(k, dir, names)[id] =
          [config |-> Substituted(k, dir[at(id)].config), file |-> at(id)]
    BY <1>3, <2>1
  <2> QED BY <1>4, <2>1, <2>2
<1> QED BY <1>5, <1>6

\* A folder that is loaded gives a sound memory.
LEMMA LoadedFromFacts ==
  ASSUME NEW folder, IsFolder(folder),
         NEW fns, fns = LoadedFrom(folder).functions,
         NEW entries, entries = LoadedFrom(folder).live
  PROVE  /\ IsMap(fns, Fns, Works)
         /\ DOMAIN entries = Kinds
         /\ \A k \in Kinds : IsMap(entries[k], Ids, Entry(k))
         /\ \A i \in DOMAIN entries["integrations"] :
              Needs("integrations", entries["integrations"][i].config) \subseteq DOMAIN fns
         /\ \A a \in DOMAIN entries["apps"] :
              Needs("apps", entries["apps"][a].config) \subseteq DOMAIN entries["integrations"]
<1> DEFINE di == folder.disk["integrations"]
           da == folder.disk["apps"]
           ints == Loaded("integrations", di, DOMAIN fns)
           apps == Loaded("apps", da, DOMAIN ints)
<1>1. /\ fns = LoadedFunctions(folder.transforms)
      /\ entries = [k \in Kinds |-> IF k = "integrations" THEN ints ELSE apps]
  BY DEF LoadedFrom
<1>2. DOMAIN entries = Kinds /\ entries["integrations"] = ints /\ entries["apps"] = apps
  BY <1>1 DEF Kinds
<1>3. IsMap(fns, Fns, Works)
  BY <1>1 DEF LoadedFunctions, Restrict, IsMap, IsFolder
<1>4. IsMap(di, Files, Stored("integrations")) /\ IsMap(da, Files, Stored("apps"))
  BY DEF IsFolder, Kinds
<1> HIDE DEF di, da
<1>5. /\ IsMap(ints, Ids, Entry("integrations"))
      /\ \A i \in DOMAIN ints : Needs("integrations", ints[i].config) \subseteq DOMAIN fns
  BY <1>4, LoadedFacts DEF Kinds
<1>6. /\ IsMap(apps, Ids, Entry("apps"))
      /\ \A a \in DOMAIN apps : Needs("apps", apps[a].config) \subseteq DOMAIN ints
  BY <1>4, LoadedFacts DEF Kinds
<1> HIDE DEF ints, apps
<1>7. \A k \in Kinds : IsMap(entries[k], Ids, Entry(k))
  BY <1>2, <1>5, <1>6 DEF Kinds
<1> QED BY <1>2, <1>3, <1>5, <1>6, <1>7

\* What a load may stop at, and which registries it has loaded by then.
LEMMA DoneFacts ==
  ASSUME NEW stop \in Stops
  PROVE  /\ Done(stop) \subseteq Kinds
         /\ stop # "integrations" => "integrations" \in Done(stop)
         /\ stop = "integrations" => Done(stop) = {}
         /\ stop = "apps" => "apps" \notin Done(stop)
         /\ stop \notin Kinds => Done(stop) = Kinds
BY DEF Stops, Done, Kinds

\* What is left of a registry that has not loaded: its entries, whose files may
\* now be elsewhere.
LEMMA StaysBehind ==
  ASSUME NEW K, NEW k, NEW entries, IsMap(entries, K, Entry(k))
  PROVE  /\ IsMap(LeftBehind(entries), K, Entry(k))
         /\ DOMAIN LeftBehind(entries) = DOMAIN entries
         /\ \A i \in DOMAIN entries : LeftBehind(entries)[i].config = entries[i].config
BY DEF IsMap, LeftBehind, Entry

\* Registries that load are sound again, and one that is not loaded is left with
\* what it had over whatever the others now hold.
LEMMA LoadKeeps ==
  ASSUME IInv, NEW folder, IsFolder(folder), NEW stop \in Stops, NEW moved,
         Load(folder, stop, moved)
  PROVE  /\ IsMap(functions', Fns, Works)
         /\ DOMAIN live' = Kinds
         /\ \A k \in Kinds : IsMap(live'[k], Ids, Entry(k))
         /\ faults' \in 0..MaxFaults /\ diverged' \in BOOLEAN /\ stale' \subseteq Kinds
         /\ FunctionsThere' /\ RoutesResolve'
<1>1. PICK read \in {folder, Unlisted(folder)} :
        /\ IF stop = "nowhere" /\ read = folder THEN UNCHANGED faults ELSE Fault
        /\ functions' = LoadedFrom(read).functions
        /\ live' = [k \in Kinds |-> IF k \in Done(stop) THEN LoadedFrom(read).live[k]
                                    ELSE IF k \in moved THEN LeftBehind(live[k])
                                    ELSE live[k]]
        /\ diverged' = (stop # "nowhere" \/ read # folder
                         \/ ~AllLoaded(folder, LoadedFrom(read).live))
        /\ stale' = (stale \ Done(stop)) \cup (Kinds \cap {stop})
  BY DEF Load
<1>2. IsFolder(read)
  <2>1. IsMap(EmptyMap, Fns, Codes)
    BY DEF IsMap, EmptyMap
  <2> QED BY <2>1 DEF Unlisted, IsFolder
<1> DEFINE entries == LoadedFrom(read).live
<1>3. /\ IsMap(functions', Fns, Works)
      /\ \A k \in Kinds : IsMap(entries[k], Ids, Entry(k))
      /\ \A i \in DOMAIN entries["integrations"] :
           Needs("integrations", entries["integrations"][i].config) \subseteq DOMAIN functions'
      /\ \A a \in DOMAIN entries["apps"] :
           Needs("apps", entries["apps"][a].config) \subseteq DOMAIN entries["integrations"]
  BY <1>1, <1>2, LoadedFromFacts
<1> HIDE DEF entries
<1>4. \A k \in Kinds : IsMap(live[k], Ids, Entry(k))
  BY DEF IInv, TypeOK
<1>5. DOMAIN live' = Kinds
      /\ \A k \in Kinds : live'[k] = IF k \in Done(stop) THEN entries[k]
                                     ELSE IF k \in moved THEN LeftBehind(live[k])
                                     ELSE live[k]
  BY <1>1 DEF entries
<1>6. \A k \in Kinds : IsMap(live'[k], Ids, Entry(k))
  BY <1>3, <1>4, <1>5, StaysBehind
<1>7. \A k \in Kinds \ Done(stop) :
        /\ DOMAIN live'[k] = DOMAIN live[k]
        /\ \A i \in DOMAIN live[k] : live'[k][i].config = live[k][i].config
  <2> SUFFICES ASSUME NEW k \in Kinds \ Done(stop)
               PROVE  /\ DOMAIN live'[k] = DOMAIN live[k]
                      /\ \A i \in DOMAIN live[k] : live'[k][i].config = live[k][i].config
    OBVIOUS
  <2>1. live'[k] = LeftBehind(live[k]) \/ live'[k] = live[k]
    BY <1>5
  <2>2. /\ DOMAIN LeftBehind(live[k]) = DOMAIN live[k]
        /\ \A i \in DOMAIN live[k] : LeftBehind(live[k])[i].config = live[k][i].config
    BY DEF LeftBehind
  <2>3. CASE live'[k] = LeftBehind(live[k])
    BY <2>2, <2>3
  <2>4. CASE live'[k] = live[k]
    BY <2>4
  <2> QED BY <2>1, <2>3, <2>4
<1>8. faults' \in 0..MaxFaults
  BY <1>1, WorkspaceAssumption DEF Fault, IInv, TypeOK
<1>9. diverged' \in BOOLEAN /\ stale' \subseteq Kinds
  BY <1>1 DEF IInv, TypeOK
<1>10. "integrations" \in Kinds /\ "apps" \in Kinds
  BY DEF Kinds
<1>11. FunctionsThere'
  <2> SUFFICES ASSUME "integrations" \notin stale'
               PROVE  \A i \in DOMAIN live'["integrations"] :
                        live'["integrations"][i].config.functions \subseteq DOMAIN functions'
    BY DEF FunctionsThere
  <2>1. live'["integrations"] = entries["integrations"]
    BY <1>1, <1>5, <1>10, DoneFacts
  <2> QED BY <1>3, <2>1 DEF Needs
<1>12. RoutesResolve'
  <2> SUFFICES ASSUME "apps" \notin stale'
               PROVE  \A a \in DOMAIN live'["apps"] :
                        Needs("apps", live'["apps"][a].config) \subseteq DOMAIN live'["integrations"]
    BY DEF RoutesResolve, Unresolved, RoutesOf
  <2>1. stop # "apps"
    BY <1>1, <1>10
  <2>2. CASE stop = "integrations"
    <3>1. "apps" \notin stale /\ Done(stop) = {}
      BY <1>1, <2>2, DoneFacts
    <3>2. \A a \in DOMAIN live["apps"] :
            Needs("apps", live["apps"][a].config) \subseteq DOMAIN live["integrations"]
      BY <3>1 DEF IInv, RoutesResolve, Unresolved, RoutesOf
    <3> QED BY <1>7, <1>10, <3>1, <3>2
  <2>3. CASE stop # "integrations"
    <3>1. Done(stop) = Kinds
      BY <2>1, <2>3, DoneFacts DEF Kinds
    <3> QED BY <1>3, <1>5, <1>10, <3>1
  <2> QED BY <2>2, <2>3
<1> QED BY <1>3, <1>5, <1>6, <1>8, <1>9, <1>11, <1>12

-----------------------------------------------------------------------------
(* Saving *)

\* How memory while a save writes, and after it, goes back to the entries that
\* were there and the config that is saved.
SavedOver(k, old, id, config, left, new) ==
  /\ IsMap(left, Ids, Entry(k)) /\ IsMap(new, Ids, Entry(k))
  /\ DOMAIN left = DOMAIN live[k] \ ({old} \ {id})
  /\ DOMAIN new = DOMAIN left \cup {id}
  /\ \A i \in DOMAIN left : i \in DOMAIN live[k] /\ left[i] = live[k][i]
  /\ \A i \in DOMAIN new :
       new[i].config = config \/ (i \in DOMAIN live[k] /\ new[i] = live[k][i])

\* What a save leaves in memory while it writes, and what it puts there.
LEMMA EntriesAfter ==
  ASSUME TypeOK, NEW k \in Kinds, NEW old \in Ids, NEW id \in Ids,
         NEW config \in Config[k]
  PROVE  SavedOver(k, old, id, config, Left(k, old, id), NewEntries(k, old, id, config))
<1> DEFINE left == Left(k, old, id)
           entry == [config |-> config, file |-> FileOf[id]]
           new == NewEntries(k, old, id, config)
<1>1. IsMap(live[k], Ids, Entry(k))
  BY DEF TypeOK
<1>2. entry \in Entry(k) /\ entry.config = config
  BY WorkspaceAssumption DEF Entry, Files
<1>3. left = Without(live[k], {old} \ {id}) /\ new = Put(left, id, entry)
  BY DEF Left, NewEntries
<1> HIDE DEF left, new, entry
<1>4. IsMap(left, Ids, Entry(k))
  BY <1>1, <1>3, WithoutType
<1>5. /\ DOMAIN left = DOMAIN live[k] \ ({old} \ {id})
      /\ \A i \in DOMAIN left : left[i] = live[k][i]
  BY <1>3 DEF Without, Restrict
<1>6. IsMap(new, Ids, Entry(k))
  BY <1>2, <1>3, <1>4, PutType
<1>7. /\ DOMAIN new = DOMAIN left \cup {id}
      /\ \A i \in DOMAIN new : new[i] = IF i = id THEN entry ELSE left[i]
  BY <1>3 DEF Put
<1>8. \A i \in DOMAIN new :
        new[i].config = config \/ (i \in DOMAIN live[k] /\ new[i] = live[k][i])
  BY <1>2, <1>5, <1>7
<1>9. SavedOver(k, old, id, config, left, new)
  BY <1>4, <1>5, <1>6, <1>7, <1>8 DEF SavedOver
<1> QED BY <1>9 DEF left, new

\* A file that was cut short holds a config all the same, or none.
LEMMA CutShortType ==
  ASSUME NEW k \in Kinds, NEW config \in Config[k]
  PROVE  CutShort(k, config) \subseteq Config[k]
<1>1. CASE k = "integrations"
  <2>1. config \in Integration
    BY <1>1, ConfigType
  <2>2. [functions: SUBSET config.functions, text: {"plain", config.text}] \subseteq Integration
    BY <2>1 DEF Integration
  <2> QED BY <1>1, <2>2, ConfigType DEF CutShort
<1>2. CASE k = "apps"
  BY <1>2, ConfigType DEF CutShort
<1> QED BY <1>1, <1>2 DEF Kinds

\* What a save leaves on disk, whether its file operations succeed or not.
LEMMA FilesAfter ==
  ASSUME TypeOK, NEW k \in Kinds, NEW old \in Ids, NEW id \in Ids,
         NEW config \in Config[k],
         NEW dir \in FilesAfterFailure(k, old, id, config) \cup {NewFiles(k, old, id, config)}
  PROVE  IsMap(dir, Files, Stored(k))
<1> DEFINE freed == Freed(k, old, id)
           torn == {Malformed} \cup [id: {id}, config: CutShort(k, config)]
           record == [id |-> id, config |-> config]
<1>1. IsMap(disk[k], Files, Stored(k))
  BY DEF TypeOK, IsFolder
<1>2. IsMap(freed, Files, Stored(k))
  BY <1>1, WithoutType DEF Freed
<1>3. record \in Stored(k) /\ FileOf[id] \in Files
  BY WorkspaceAssumption DEF Stored
<1>4. torn \subseteq Stored(k)
  BY CutShortType DEF Stored
<1>5. dir \in {disk[k], freed} \cup {Put(freed, FileOf[id], c) : c \in torn \cup {record}}
  BY DEF FilesAfterFailure, NewFiles
<1> HIDE DEF freed, torn, record
<1>6. \A c \in torn \cup {record} : IsMap(Put(freed, FileOf[id], c), Files, Stored(k))
  BY <1>2, <1>3, <1>4, PutType
<1> QED BY <1>1, <1>2, <1>5, <1>6

\* A changed registry keeps the references sound when what is new in it does.
LEMMA ChangeKeeps ==
  ASSUME IInv, NEW k \in Kinds, NEW e, NEW d, UNCHANGED functions,
         live' = [live EXCEPT ![k] = e], disk' = [disk EXCEPT ![k] = d],
         UNCHANGED transforms,
         IsMap(e, Ids, Entry(k)), IsMap(d, Files, Stored(k)),
         stale \subseteq stale',
         k = "integrations" =>
           /\ "integrations" \notin stale =>
                \A i \in DOMAIN e : e[i].config.functions \subseteq DOMAIN functions
           /\ "apps" \notin stale' =>
                \A a \in DOMAIN live["apps"] : Needs("apps", RoutesOf(a)) \subseteq DOMAIN e,
         k = "apps" /\ "apps" \notin stale =>
           \A a \in DOMAIN e : Needs("apps", e[a].config) \subseteq DOMAIN live["integrations"]
  PROVE  /\ DOMAIN live' = Kinds
         /\ \A j \in Kinds : IsMap(live'[j], Ids, Entry(j))
         /\ IsFolder([transforms |-> transforms', disk |-> disk'])
         /\ FunctionsThere' /\ RoutesResolve'
<1>1. DOMAIN live = Kinds /\ DOMAIN disk = Kinds
  BY DEF IInv, TypeOK, IsFolder
<1>2. /\ DOMAIN live' = Kinds /\ DOMAIN disk' = Kinds
      /\ live'[k] = e /\ disk'[k] = d
      /\ \A j \in Kinds \ {k} : live'[j] = live[j] /\ disk'[j] = disk[j]
  BY <1>1
<1>3. \A j \in Kinds : IsMap(live'[j], Ids, Entry(j))
  BY <1>2 DEF IInv, TypeOK
<1>4. IsFolder([transforms |-> transforms', disk |-> disk'])
  BY <1>2 DEF IInv, TypeOK, IsFolder
<1>5. "integrations" \in Kinds /\ "apps" \in Kinds /\ "apps" # "integrations"
  BY DEF Kinds
<1>6. CASE k = "integrations"
  <2>1. live'["integrations"] = e /\ live'["apps"] = live["apps"]
    BY <1>2, <1>5, <1>6
  <2>2. FunctionsThere'
    BY <1>6, <2>1 DEF FunctionsThere
  <2>3. RoutesResolve'
    BY <1>6, <2>1 DEF RoutesResolve, Unresolved, RoutesOf
  <2> QED BY <1>2, <1>3, <1>4, <2>2, <2>3
<1>7. CASE k = "apps"
  <2>1. live'["apps"] = e /\ live'["integrations"] = live["integrations"]
    BY <1>2, <1>5, <1>7
  <2>2. FunctionsThere'
    BY <2>1 DEF FunctionsThere, IInv
  <2>3. RoutesResolve'
    BY <1>7, <2>1 DEF RoutesResolve, Unresolved, RoutesOf
  <2> QED BY <1>2, <1>3, <1>4, <2>2, <2>3
<1> QED BY <1>6, <1>7 DEF Kinds

\* A save that is accepted leaves, written or not, entries that refer to what
\* is there; it strands the routes of a renamed integration and no others.
LEMMA UpsertKeeps ==
  ASSUME IInv, NEW k \in Kinds, NEW own, NEW old \in Ids, NEW id \in Ids,
         NEW config \in Config[k], Upsert(k, own, old, id, config),
         UNCHANGED <<functions, transforms, astray, waiting, generating>>
  PROVE  IInv'
<1>1. CASE ~Accepted(k, own, id, config, Available(k))
  BY <1>1 DEF Upsert, history, IInv, TypeOK, FunctionsThere, RoutesResolve,
       Unresolved, RoutesOf
<1>2. CASE Accepted(k, own, id, config, Available(k))
  <2> DEFINE left == Left(k, old, id)
             new == NewEntries(k, old, id, config)
             strands == Strands(k, old, id)
  <2>1. Needs(k, config) \subseteq Available(k)
    BY <1>2 DEF Accepted
  <2>2. stale' = IF strands THEN stale \cup {"apps"} ELSE stale
    BY <1>2 DEF Upsert
  <2>3. \/ live' = [live EXCEPT ![k] = new] /\ faults' = faults
           /\ disk' = [disk EXCEPT ![k] = NewFiles(k, old, id, config)]
           /\ diverged' = (diverged \/ Diverges(k, old, id, config))
        \/ live' = [live EXCEPT ![k] = left] /\ Fault /\ diverged' = TRUE
           /\ \E d \in FilesAfterFailure(k, old, id, config) : disk' = [disk EXCEPT ![k] = d]
    BY <1>2 DEF Upsert
  <2>4. PICK e \in {left, new}, d \in FilesAfterFailure(k, old, id, config) \cup
                                     {NewFiles(k, old, id, config)} :
          live' = [live EXCEPT ![k] = e] /\ disk' = [disk EXCEPT ![k] = d]
    BY <2>3
  <2>5. /\ diverged' \in BOOLEAN /\ faults' \in 0..MaxFaults
        /\ stale' \subseteq Kinds
    <3>1. faults' = faults \/ Fault
      BY <2>3
    <3>2. faults \in 0..MaxFaults /\ MaxFaults \in Nat
      BY WorkspaceAssumption DEF IInv, TypeOK
    <3>3. faults' \in 0..MaxFaults
      BY <3>1, <3>2 DEF Fault
    <3>4. diverged' \in BOOLEAN
      BY <2>3
    <3>5. stale' \subseteq Kinds
      BY <2>2 DEF IInv, TypeOK, Kinds
    <3> QED BY <3>3, <3>4, <3>5
  <2>6. SavedOver(k, old, id, config, left, new)
    <3>1. TypeOK
      BY DEF IInv
    <3> QED BY <3>1, EntriesAfter
  <2> HIDE DEF left, new
  <2>7. /\ IsMap(e, Ids, Entry(k))
        /\ DOMAIN left \subseteq DOMAIN e
        /\ \A i \in DOMAIN e :
             e[i].config = config \/ (i \in DOMAIN live[k] /\ e[i] = live[k][i])
    BY <2>4, <2>6 DEF SavedOver
  <2>8. IsMap(d, Files, Stored(k))
    BY <2>4, FilesAfter DEF IInv
  <2>9. ASSUME k = "integrations"
        PROVE  /\ "integrations" \notin stale =>
                    \A i \in DOMAIN e : e[i].config.functions \subseteq DOMAIN functions
               /\ "apps" \notin stale' =>
                    \A a \in DOMAIN live["apps"] : Needs("apps", RoutesOf(a)) \subseteq DOMAIN e
    <3>1. config.functions \subseteq DOMAIN functions
      BY <2>1, <2>9 DEF Needs, Available
    <3>2. ASSUME "integrations" \notin stale
          PROVE  \A i \in DOMAIN e : e[i].config.functions \subseteq DOMAIN functions
      BY <3>1, <3>2, <2>7, <2>9 DEF IInv, FunctionsThere
    <3>3. ASSUME "apps" \notin stale', NEW a \in DOMAIN live["apps"]
          PROVE  Needs("apps", RoutesOf(a)) \subseteq DOMAIN e
      <4>1. Needs("apps", RoutesOf(a)) \subseteq DOMAIN live["integrations"]
        BY <2>2, <3>3 DEF IInv, RoutesResolve, Unresolved
      <4>2. old # id => old \notin Needs("apps", RoutesOf(a))
        BY <2>2, <2>9, <3>3 DEF Strands, RoutesOf
      <4> QED BY <4>1, <4>2, <2>6, <2>7, <2>9 DEF SavedOver
    <3> QED BY <3>2, <3>3
  <2>10. ASSUME k = "apps", "apps" \notin stale
         PROVE  \A a \in DOMAIN e :
                  Needs("apps", e[a].config) \subseteq DOMAIN live["integrations"]
    <3>1. Needs("apps", config) \subseteq DOMAIN live["integrations"]
      BY <2>1, <2>10 DEF Available
    <3>2. \A a \in DOMAIN live["apps"] :
            Needs("apps", live["apps"][a].config) \subseteq DOMAIN live["integrations"]
      BY <2>10 DEF IInv, RoutesResolve, Unresolved, RoutesOf
    <3> QED BY <3>1, <3>2, <2>7, <2>10
  <2>11. stale \subseteq stale'
    BY <2>2
  <2>12. /\ DOMAIN live' = Kinds
         /\ \A j \in Kinds : IsMap(live'[j], Ids, Entry(j))
         /\ IsFolder([transforms |-> transforms', disk |-> disk'])
         /\ FunctionsThere' /\ RoutesResolve'
    BY <2>4, <2>7, <2>8, <2>9, <2>10, <2>11, ChangeKeeps
  <2> QED BY <2>5, <2>12 DEF IInv, TypeOK
<1> QED BY <1>1, <1>2

-----------------------------------------------------------------------------
(* The steps *)

LEMMA SaveFunctionKeeps ==
  ASSUME IInv, NEW n \in Fns, NEW code \in Codes, SaveFunction(n, code)
  PROVE  IInv'
<1>1. IsMap(transforms, Fns, Codes) /\ IsMap(functions, Fns, Works) /\ DOMAIN disk = Kinds
      /\ \A k \in Kinds : IsMap(disk[k], Files, Stored(k))
  BY DEF IInv, TypeOK, IsFolder
<1>2. IsMap(transforms', Fns, Codes)
  <2>1. \A c \in Codes : IsMap(Put(transforms, n, c), Fns, Codes)
    BY <1>1, PutType
  <2> QED BY <1>1, <2>1 DEF SaveFunction
<1>3. /\ IsMap(functions', Fns, Works)
      /\ DOMAIN functions \subseteq DOMAIN functions'
  <2>1. code \in Works => IsMap(Put(functions, n, code), Fns, Works)
    BY <1>1, PutType
  <2> QED BY <1>1, <2>1 DEF SaveFunction, Put
<1>4. faults' \in 0..MaxFaults /\ diverged' \in BOOLEAN
  <2>1. faults \in 0..MaxFaults /\ MaxFaults \in Nat
    BY WorkspaceAssumption DEF IInv, TypeOK
  <2>2. faults' \in 0..MaxFaults
    BY <2>1 DEF SaveFunction, Fault
  <2>3. diverged' \in BOOLEAN
    BY DEF SaveFunction
  <2> QED BY <2>2, <2>3
<1>5. UNCHANGED <<live, disk, astray, waiting, generating, stale>>
  BY DEF SaveFunction
<1>6. IsFolder([transforms |-> transforms', disk |-> disk'])
  BY <1>1, <1>2, <1>5 DEF IsFolder
<1>7. TypeOK'
  BY <1>3, <1>4, <1>5, <1>6 DEF TypeOK, IInv
<1>8. FunctionsThere'
  BY <1>3, <1>5 DEF FunctionsThere, IInv
<1> QED BY <1>5, <1>7, <1>8 DEF IInv, RoutesResolve, Unresolved, RoutesOf

\* No live integration loses the function.
LEMMA DeleteFunctionKeeps ==
  ASSUME IInv, NEW n \in Fns, DeleteFunction(n)
  PROVE  IInv'
<1>1. IsMap(transforms, Fns, Codes) /\ IsMap(functions, Fns, Works) /\ DOMAIN disk = Kinds
      /\ \A k \in Kinds : IsMap(disk[k], Files, Stored(k))
  BY DEF IInv, TypeOK, IsFolder
<1>2. UNCHANGED <<live, disk, astray, waiting, generating, faults, diverged, stale>>
  BY DEF DeleteFunction, history
<1>3. IsMap(transforms', Fns, Codes) /\ IsMap(functions', Fns, Works)
  BY <1>1, WithoutType DEF DeleteFunction
<1>4. IsFolder([transforms |-> transforms', disk |-> disk'])
  BY <1>1, <1>2, <1>3 DEF IsFolder
<1>5. TypeOK'
  BY <1>2, <1>3, <1>4 DEF TypeOK, IInv
<1>6. DOMAIN functions' = DOMAIN functions \ {n}
  BY DEF DeleteFunction, Without, Restrict
<1>7. FunctionsThere'
  BY <1>2, <1>6 DEF FunctionsThere, IInv, DeleteFunction, UsersOf
<1> QED BY <1>2, <1>5, <1>7 DEF IInv, RoutesResolve, Unresolved, RoutesOf

LEMMA RemoveKeeps ==
  ASSUME IInv, NEW k \in Kinds, NEW id \in Ids, Remove(k, id)
  PROVE  IInv'
<1> DEFINE e == Without(live[k], {id})
           d == Without(disk[k], {live[k][id].file})
<1>1. /\ live' = [live EXCEPT ![k] = e] /\ disk' = [disk EXCEPT ![k] = d]
      /\ UNCHANGED <<functions, transforms, astray, waiting, generating, faults, diverged, stale>>
  BY DEF Remove, history
<1>2. IsMap(live[k], Ids, Entry(k)) /\ IsMap(disk[k], Files, Stored(k))
  BY DEF IInv, TypeOK, IsFolder
<1>3. IsMap(e, Ids, Entry(k)) /\ IsMap(d, Files, Stored(k))
  BY <1>2, WithoutType
<1>4. /\ DOMAIN e = DOMAIN live[k] \ {id}
      /\ \A i \in DOMAIN e : e[i] = live[k][i]
  BY DEF Without, Restrict
<1> HIDE DEF e, d
<1>5. ASSUME k = "integrations"
      PROVE  /\ "integrations" \notin stale =>
                  \A i \in DOMAIN e : e[i].config.functions \subseteq DOMAIN functions
             /\ "apps" \notin stale' =>
                  \A a \in DOMAIN live["apps"] : Needs("apps", RoutesOf(a)) \subseteq DOMAIN e
  <2>1. "integrations" \notin stale =>
          \A i \in DOMAIN e : e[i].config.functions \subseteq DOMAIN functions
    BY <1>4, <1>5 DEF IInv, FunctionsThere
  <2>2. \A a \in DOMAIN live["apps"] : id \notin Needs("apps", RoutesOf(a))
    BY <1>5 DEF Remove, Dependents, RoutesOf
  <2>3. "apps" \notin stale => \A a \in DOMAIN live["apps"] :
                       Needs("apps", RoutesOf(a)) \subseteq DOMAIN live["integrations"]
    BY DEF IInv, RoutesResolve, Unresolved
  <2> QED BY <1>1, <1>4, <1>5, <2>1, <2>2, <2>3
<1>6. ASSUME k = "apps", "apps" \notin stale
      PROVE  \A a \in DOMAIN e : Needs("apps", e[a].config) \subseteq DOMAIN live["integrations"]
  BY <1>4, <1>6 DEF IInv, RoutesResolve, Unresolved, RoutesOf
<1>7. /\ DOMAIN live' = Kinds
      /\ \A j \in Kinds : IsMap(live'[j], Ids, Entry(j))
      /\ IsFolder([transforms |-> transforms', disk |-> disk'])
      /\ FunctionsThere' /\ RoutesResolve'
  BY <1>1, <1>3, <1>5, <1>6, ChangeKeeps
<1> QED BY <1>1, <1>7 DEF IInv, TypeOK

\* Nothing is referred to but memory: files of integrations may change at will.
LEMMA SameMemoryKeeps ==
  ASSUME IInv, UNCHANGED <<functions, transforms, astray, stale>>,
         DOMAIN live' = Kinds, \A k \in Kinds : live'[k] = live[k],
         DOMAIN disk' = Kinds, disk'["apps"] = disk["apps"],
         IsMap(disk'["integrations"], Files, Stored("integrations")),
         waiting' \subseteq Ids, generating' \subseteq Ids \X Generated,
         faults' \in 0..MaxFaults, diverged' \in BOOLEAN
  PROVE  IInv'
<1>1. live'["integrations"] = live["integrations"] /\ live'["apps"] = live["apps"]
  BY DEF Kinds
<1>2. \A k \in Kinds : IsMap(live'[k], Ids, Entry(k))
  BY DEF IInv, TypeOK
<1>3. IsFolder([transforms |-> transforms', disk |-> disk'])
  <2>1. /\ IsMap(transforms, Fns, Codes)
        /\ IsMap(disk["apps"], Files, Stored("apps"))
    BY DEF IInv, TypeOK, IsFolder, Kinds
  <2>2. \A k \in Kinds : IsMap(disk'[k], Files, Stored(k))
    BY <2>1 DEF Kinds
  <2> QED BY <2>1, <2>2 DEF IsFolder
<1>4. TypeOK'
  BY <1>2, <1>3 DEF IInv, TypeOK
<1>5. FunctionsThere'
  BY <1>1 DEF IInv, FunctionsThere
<1>6. RoutesResolve'
  BY <1>1 DEF IInv, RoutesResolve, Unresolved, RoutesOf
<1> QED BY <1>4, <1>5, <1>6 DEF IInv

\* The app is refused because it is there, and the integration goes again or, if
\* it cannot be removed, stays: it needs no function, and no route needs it.
LEMMA GenerateKeeps ==
  ASSUME IInv, NEW a \in Ids, NEW route \in Generated, Generate(a, route)
  PROVE  IInv'
<1> DEFINE id == route.id
           new == NewEntries("integrations", id, id, GeneratedIntegration)
           files == NewFiles("integrations", id, id, GeneratedIntegration)
           torn == FilesAfterFailure("integrations", id, id, GeneratedIntegration)
<1>1. id \in Ids /\ GeneratedIntegration \in Config["integrations"]
  BY WorkspaceAssumption, ConfigType DEF Route, GeneratedIntegration, Integration
<1>2. ~RouteAdded(a, route)
  BY DEF RouteAdded, Accepted
<1>3. TypeOK /\ "integrations" \in Kinds /\ "integrations" # "apps"
  BY DEF IInv, Kinds
<1>4. UNCHANGED <<functions, transforms, astray, waiting, stale>>
  BY DEF Generate
<1>5. waiting' \subseteq Ids /\ generating' \subseteq Ids \X Generated
  BY <1>3, <1>4 DEF Generate, TypeOK
<1>6. DOMAIN live = Kinds /\ DOMAIN disk = Kinds
      /\ IsMap(disk["integrations"], Files, Stored("integrations"))
  BY <1>3 DEF TypeOK, IsFolder
<1>7. faults' \in 0..MaxFaults
  <2>1. faults \in 0..MaxFaults /\ MaxFaults \in Nat
    BY <1>3, WorkspaceAssumption DEF TypeOK
  <2>2. faults' = faults \/ Fault
    BY DEF Generate
  <2> QED BY <2>1, <2>2 DEF Fault
<1>8. diverged' \in BOOLEAN
  BY <1>3 DEF Generate, TypeOK
<1>9. \A dir \in torn \cup {files} : IsMap(dir, Files, Stored("integrations"))
  BY <1>1, <1>3, FilesAfter
<1>10. SavedOver("integrations", id, id, GeneratedIntegration,
                 Left("integrations", id, id), new)
  BY <1>1, <1>3, EntriesAfter
<1>11. \/ UNCHANGED <<live, disk>>
       \/ UNCHANGED live /\ \E d \in torn \cup {Without(files, {FileOf[id]})} :
            disk' = [disk EXCEPT !["integrations"] = d]
       \/ live' = [live EXCEPT !["integrations"] = new]
          /\ disk' = [disk EXCEPT !["integrations"] = files]
  BY <1>2 DEF Generate
<1> HIDE DEF new, files, torn, id
<1>12. CASE UNCHANGED <<live, disk>>
  BY <1>4, <1>5, <1>6, <1>7, <1>8, <1>12, SameMemoryKeeps
<1>13. ASSUME UNCHANGED live, NEW d \in torn \cup {Without(files, {FileOf[id]})},
              disk' = [disk EXCEPT !["integrations"] = d]
       PROVE  IInv'
  <2>1. DOMAIN disk' = Kinds /\ disk'["integrations"] = d /\ disk'["apps"] = disk["apps"]
    BY <1>3, <1>6, <1>13
  <2>2. IsMap(disk'["integrations"], Files, Stored("integrations"))
    BY <1>9, <1>13, <2>1, WithoutType
  <2> QED BY <1>4, <1>5, <1>6, <1>7, <1>8, <1>13, <2>1, <2>2, SameMemoryKeeps
<1>14. CASE live' = [live EXCEPT !["integrations"] = new]
            /\ disk' = [disk EXCEPT !["integrations"] = files]
  <2>1. /\ IsMap(new, Ids, Entry("integrations"))
        /\ DOMAIN live["integrations"] \subseteq DOMAIN new
        /\ \A i \in DOMAIN new :
             \/ new[i].config = GeneratedIntegration
             \/ i \in DOMAIN live["integrations"] /\ new[i] = live["integrations"][i]
    BY <1>10 DEF SavedOver
  <2>2. "integrations" \notin stale =>
          \A i \in DOMAIN new : new[i].config.functions \subseteq DOMAIN functions
    BY <2>1 DEF IInv, FunctionsThere, GeneratedIntegration
  <2>3. "apps" \notin stale' =>
          \A b \in DOMAIN live["apps"] : Needs("apps", RoutesOf(b)) \subseteq DOMAIN new
    BY <1>4, <2>1 DEF IInv, RoutesResolve, Unresolved
  <2>4. /\ DOMAIN live' = Kinds
        /\ \A j \in Kinds : IsMap(live'[j], Ids, Entry(j))
        /\ IsFolder([transforms |-> transforms', disk |-> disk'])
        /\ FunctionsThere' /\ RoutesResolve'
    BY <1>3, <1>4, <1>9, <1>14, <2>1, <2>2, <2>3, ChangeKeeps
  <2> QED BY <1>3, <1>4, <1>5, <1>7, <1>8, <2>4 DEF IInv, TypeOK
<1> QED BY <1>11, <1>12, <1>13, <1>14

\* What the registries read after a load; waiting and generating may be
\* forgotten.
LEMMA LoadStepKeeps ==
  ASSUME IInv, NEW folder, IsFolder(folder), NEW stop \in Stops, NEW moved,
         Load(folder, stop, moved),
         IsFolder([transforms |-> transforms', disk |-> disk']),
         astray' \subseteq {"functions"} \cup Kinds,
         waiting' \subseteq waiting, generating' \subseteq generating
  PROVE  IInv'
<1>1. /\ IsMap(functions', Fns, Works)
      /\ DOMAIN live' = Kinds
      /\ \A k \in Kinds : IsMap(live'[k], Ids, Entry(k))
      /\ faults' \in 0..MaxFaults /\ diverged' \in BOOLEAN /\ stale' \subseteq Kinds
      /\ FunctionsThere' /\ RoutesResolve'
  BY LoadKeeps
<1>2. waiting' \subseteq Ids /\ generating' \subseteq Ids \X Generated
  BY DEF IInv, TypeOK
<1> QED BY <1>1, <1>2 DEF IInv, TypeOK

\* A folder whose registries come each from one of two is one.
LEMMA MixedFolder ==
  ASSUME NEW f, NEW g, IsFolder(f), IsFolder(g), NEW K, NEW t \in {f.transforms, g.transforms},
         NEW d, d = [k \in Kinds |-> IF k \in K THEN f.disk[k] ELSE g.disk[k]]
  PROVE  IsFolder([transforms |-> t, disk |-> d])
BY DEF IsFolder

LEMMA OnDiskFacts ==
  ASSUME IInv
  PROVE  IsFolder(OnDisk) /\ OnDisk.transforms = transforms /\ OnDisk.disk = disk
  BY DEF IInv, TypeOK, OnDisk

LEMMA ReloadKeeps ==
  ASSUME IInv, NEW stop \in Stops, Reload(stop)
  PROVE  IInv'
<1>1. Load(OnDisk, stop, {}) /\ UNCHANGED <<transforms, disk, astray, waiting, generating>>
  BY DEF Reload
<1>2. IsFolder([transforms |-> transforms', disk |-> disk'])
  BY <1>1, OnDiskFacts DEF OnDisk
<1>3. astray' \subseteq {"functions"} \cup Kinds
  BY <1>1 DEF IInv, TypeOK
<1> QED BY <1>1, <1>2, <1>3, OnDiskFacts, LoadStepKeeps

LEMMA SwitchKeeps ==
  ASSUME IInv, NEW folder \in Folders, NEW stop \in Stops, Switch(folder, stop)
  PROVE  IInv'
<1>1. IsFolder(folder)
  BY WorkspaceAssumption
<1>2. /\ Load(folder, stop, Reached(stop)) /\ UNCHANGED <<waiting, generating>>
      /\ transforms' = folder.transforms
      /\ disk' = [k \in Kinds |-> IF k \in Reached(stop) THEN folder.disk[k] ELSE disk[k]]
      /\ astray' = IF stop = "nowhere" THEN {} ELSE astray \cup Reached(stop)
  BY DEF Switch
<1>3. IsFolder([transforms |-> transforms', disk |-> disk'])
  BY <1>1, <1>2, OnDiskFacts, MixedFolder
<1>4. astray' \subseteq {"functions"} \cup Kinds
  BY <1>2, DoneFacts DEF Reached, IInv, TypeOK
<1> QED BY <1>1, <1>2, <1>3, <1>4, LoadStepKeeps

LEMMA ReportedFacts ==
  ASSUME IInv, NEW reported \in {Reported(folder) : folder \in Folders}
  PROVE  IsFolder(reported)
         /\ reported = [transforms |-> reported.transforms, disk |-> reported.disk]
<1>1. PICK folder \in Folders : reported = Reported(folder)
  OBVIOUS
<1>2. IsFolder(folder)
  BY WorkspaceAssumption
<1> DEFINE t == IF "functions" \in astray THEN folder.transforms ELSE transforms
           d == [k \in Kinds |-> IF k \in astray THEN folder.disk[k] ELSE disk[k]]
<1>3. reported = [transforms |-> t, disk |-> d]
  BY <1>1 DEF Reported
<1>4. t \in {folder.transforms, OnDisk.transforms}
      /\ d = [k \in Kinds |-> IF k \in astray THEN folder.disk[k] ELSE OnDisk.disk[k]]
  BY OnDiskFacts
<1> HIDE DEF t, d
<1>5. IsFolder([transforms |-> t, disk |-> d])
  BY <1>2, <1>4, OnDiskFacts, MixedFolder
<1> QED BY <1>3, <1>5

LEMMA RestartKeeps ==
  ASSUME IInv, NEW reported \in {Reported(folder) : folder \in Folders}, Restart(reported)
  PROVE  IInv'
<1>1. /\ Load(reported, "nowhere", {}) /\ "nowhere" \in Stops
      /\ transforms' = reported.transforms /\ disk' = reported.disk
      /\ astray' = {} /\ waiting' = {} /\ generating' = {}
  BY DEF Restart, Stops
<1>2. IsFolder(reported) /\ IsFolder([transforms |-> transforms', disk |-> disk'])
  BY <1>1, ReportedFacts
<1> QED BY <1>1, <1>2, LoadStepKeeps

LEMMA CheckOutKeeps ==
  ASSUME IInv, NEW folder \in Folders, CheckOut(folder)
  PROVE  IInv'
<1>1. IsFolder(folder) /\ MaxFaults \in Nat
  BY WorkspaceAssumption
<1>2. IsFolder([transforms |-> transforms', disk |-> disk'])
  BY <1>1 DEF CheckOut, IsFolder
<1>3. faults' \in 0..MaxFaults
  BY <1>1 DEF CheckOut, Fault, IInv, TypeOK
<1>4. UNCHANGED <<functions, live, astray, waiting, generating, stale>> /\ diverged' = TRUE
  BY DEF CheckOut
<1> QED BY <1>2, <1>3, <1>4 DEF IInv, TypeOK, FunctionsThere, RoutesResolve, Unresolved,
            RoutesOf

-----------------------------------------------------------------------------
(* The theorems *)

LEMMA InitIInv == ASSUME Init PROVE IInv
<1>1. PICK folder \in Folders :
        /\ transforms = folder.transforms /\ disk = folder.disk
        /\ functions = LoadedFrom(folder).functions /\ live = LoadedFrom(folder).live
        /\ diverged = ~AllLoaded(folder, LoadedFrom(folder).live)
  BY DEF Init
<1>2. IsFolder(folder) /\ MaxFaults \in Nat
  BY WorkspaceAssumption
<1>3. /\ IsMap(functions, Fns, Works)
      /\ DOMAIN live = Kinds
      /\ \A k \in Kinds : IsMap(live[k], Ids, Entry(k))
  BY <1>1, <1>2, LoadedFromFacts
<1>4. FunctionsThere
  BY <1>1, <1>2, LoadedFromFacts DEF FunctionsThere, Needs
<1>5. RoutesResolve
  BY <1>1, <1>2, LoadedFromFacts DEF RoutesResolve, Unresolved, RoutesOf
<1>6. IsFolder([transforms |-> transforms, disk |-> disk])
  BY <1>1, <1>2 DEF IsFolder
<1>7. waiting \subseteq Ids /\ generating \subseteq Ids \X Generated
      /\ astray \subseteq {"functions"} \cup Kinds
  BY DEF Init
<1>8. diverged \in BOOLEAN /\ stale \subseteq Kinds
  BY <1>1 DEF Init
<1>9. faults \in 0..MaxFaults
  BY <1>2, SMT DEF Init
<1>10. TypeOK
  BY <1>3, <1>6, <1>7, <1>8, <1>9 DEF TypeOK
<1> QED BY <1>4, <1>5, <1>10 DEF IInv

LEMMA StepIInv == ASSUME IInv, [Next]_vars PROVE IInv'
<1>1. CASE \E n \in Fns, code \in Codes : SaveFunction(n, code)
  BY <1>1, SaveFunctionKeeps
<1>2. CASE \E n \in Fns : DeleteFunction(n)
  BY <1>2, DeleteFunctionKeeps
<1>3. CASE \E k \in Kinds : \E input \in Inputs[k] : Create(k, input[1], input[2])
  <2>1. PICK k \in Kinds : \E input \in Inputs[k] : Create(k, input[1], input[2])
    BY <1>3
  <2>2. PICK input \in Inputs[k] : Create(k, input[1], input[2])
    BY <2>1
  <2>3. input[1] \in Ids /\ input[2] \in Config[k]
    BY WorkspaceAssumption
  <2> QED BY <2>2, <2>3, UpsertKeeps DEF Create
<1>4. CASE \E k \in Kinds, old \in Ids : \E input \in Inputs[k] :
             Update(k, old, input[1], input[2])
  <2>1. PICK k \in Kinds, old \in Ids :
          \E input \in Inputs[k] : Update(k, old, input[1], input[2])
    BY <1>4
  <2>2. PICK input \in Inputs[k] : Update(k, old, input[1], input[2])
    BY <2>1
  <2>3. input[1] \in Ids /\ input[2] \in Config[k]
    BY WorkspaceAssumption
  <2> QED BY <2>2, <2>3, UpsertKeeps DEF Update
<1>5. CASE \E k \in Kinds, id \in Ids : Remove(k, id)
  BY <1>5, RemoveKeeps
<1>6. ASSUME NEW a \in Ids, a \in DOMAIN live["apps"]
      PROVE  /\ \A route \in Bodies : RoutesOf(a) \cup {route} \in Config["apps"]
             /\ \A rid, route \in Bodies :
                  OtherRoutes(a, rid) \cup {route} \in Config["apps"]
             /\ \A rid : OtherRoutes(a, rid) \in Config["apps"]
  <2>1. RoutesOf(a) \in SUBSET Route
    BY <1>6, ConfigType DEF IInv, TypeOK, Kinds, IsMap, Entry, RoutesOf
  <2> QED BY <2>1, ConfigType, WorkspaceAssumption DEF OtherRoutes
<1>7. CASE \E a \in Ids, route \in Bodies : AddRoute(a, route)
  <2>1. PICK a \in Ids, route \in Bodies : AddRoute(a, route)
    BY <1>7
  <2>2. RoutesOf(a) \cup {route} \in Config["apps"] /\ "apps" \in Kinds
    BY <1>6, <2>1 DEF AddRoute, Kinds
  <2> QED BY <2>1, <2>2, UpsertKeeps DEF AddRoute
<1>8. CASE \E a, rid \in Ids, route \in Bodies : ReplaceRoute(a, rid, route)
  <2>1. PICK a \in Ids, rid \in Ids, route \in Bodies : ReplaceRoute(a, rid, route)
    BY <1>8
  <2>2. a \in DOMAIN live["apps"]
        /\ Upsert("apps", {a}, a, a, OtherRoutes(a, rid) \cup {route})
        /\ UNCHANGED <<functions, transforms, astray, waiting, generating>>
    BY <2>1 DEF ReplaceRoute
  <2>3. OtherRoutes(a, rid) \cup {route} \in Config["apps"] /\ "apps" \in Kinds
    <3>1. RoutesOf(a) \in SUBSET Route
      BY <2>2, ConfigType DEF IInv, TypeOK, Kinds, IsMap, Entry, RoutesOf
    <3> QED BY <3>1, ConfigType, WorkspaceAssumption DEF OtherRoutes, Kinds
  <2> QED BY <2>2, <2>3, UpsertKeeps
<1>9. CASE \E a, rid \in Ids : RemoveRoute(a, rid)
  <2>1. PICK a \in Ids, rid \in Ids : RemoveRoute(a, rid)
    BY <1>9
  <2>2. OtherRoutes(a, rid) \in Config["apps"] /\ "apps" \in Kinds
    BY <1>6, <2>1 DEF RemoveRoute, Kinds
  <2> QED BY <2>1, <2>2, UpsertKeeps DEF RemoveRoute
<1>10. CASE \/ \E a \in Ids : StartGeneration(a)
            \/ \E a \in Ids, routes \in SUBSET Generated : Introspected(a, routes)
            \/ UNCHANGED vars
  <2>1. UNCHANGED <<functions, live, transforms, disk, astray, faults, diverged, stale>>
    BY <1>10 DEF StartGeneration, Introspected, vars, history
  <2>2. waiting' \subseteq Ids /\ generating' \subseteq Ids \X Generated
    BY <1>10 DEF StartGeneration, Introspected, vars, IInv, TypeOK
  <2> QED BY <2>1, <2>2 DEF IInv, TypeOK, FunctionsThere, RoutesResolve, Unresolved,
              RoutesOf
<1>11. CASE \E a \in Ids, route \in Generated : Generate(a, route)
  BY <1>11, GenerateKeeps
<1>12. CASE \/ \E stop \in Stops : Reload(stop)
            \/ \E folder \in Folders, stop \in Stops : Switch(folder, stop)
  BY <1>12, ReloadKeeps, SwitchKeeps
<1>13. CASE \E reported \in {Reported(folder) : folder \in Folders} : Restart(reported)
  BY <1>13, RestartKeeps
<1>14. CASE \E folder \in Folders : CheckOut(folder)
  BY <1>14, CheckOutKeeps
<1> QED BY <1>1, <1>2, <1>3, <1>4, <1>5, <1>7, <1>8, <1>9, <1>10, <1>11, <1>12, <1>13, <1>14
        DEF Next

LEMMA Inductive == Spec => []IInv
  BY InitIInv, StepIInv, PTL DEF Spec

\* Every state of the three registries and their files is well typed.
THEOREM TypeCorrect == Spec => []TypeOK
<1>1. IInv => TypeOK
  BY DEF IInv
<1> QED BY <1>1, Inductive, PTL

\* A live integration never names a function that is not live, so that no
\* request fails half way through its mapping, unless a load has stopped at the
\* integrations and none has loaded them since.
THEOREM NoFunctionMissing == Spec => []FunctionsThere
<1>1. IInv => FunctionsThere
  BY DEF IInv
<1> QED BY <1>1, Inductive, PTL

\* A live route never names an integration that is not live, unless one was
\* renamed under it, or a load stopped at the apps, and none has loaded the apps
\* since.
THEOREM NoRouteStranded == Spec => []RoutesResolve
<1>1. IInv => RoutesResolve
  BY DEF IInv
<1> QED BY <1>1, Inductive, PTL

-----------------------------------------------------------------------------
(* Memory and disk *)

\* The files are those of the entries, and each file holds its entry.
Mirrors(k, dir, entries) ==
  /\ DOMAIN dir = {entries[i].file : i \in DOMAIN entries}
  /\ \A i \in DOMAIN entries :
       /\ dir[entries[i].file] # Malformed
       /\ dir[entries[i].file].id = i
       /\ entries[i].config = Substituted(k, dir[entries[i].file].config)

\* LiveIsStored as every change keeps it: file by file.
InStep ==
  ~diverged =>
    /\ stale = {}
    /\ functions = LoadedFunctions(transforms)
    /\ \A k \in Kinds : Mirrors(k, disk[k], live[k])

\* Memory is a function of the registries and nothing besides.
LiveIsFunction == live = [k \in Kinds |-> live[k]]

\* Files that mirror entries whose names are there load as these entries.
LEMMA MirrorLoads ==
  ASSUME NEW k \in Kinds, NEW dir, IsMap(dir, Files, Stored(k)),
         NEW entries, IsMap(entries, Ids, Entry(k)), Mirrors(k, dir, entries),
         NEW names, \A i \in DOMAIN entries : Needs(k, entries[i].config) \subseteq names
  PROVE  Loaded(k, dir, names) = entries
<1> DEFINE kept == Kept(k, dir, names)
           at(id) == CHOOSE g \in kept : dir[g].id = id
<1>1. \A f \in DOMAIN dir :
        \E i \in DOMAIN entries :
          f = entries[i].file /\ dir[f] # Malformed /\ dir[f].id = i
          /\ entries[i].config = Substituted(k, dir[f].config)
  BY DEF Mirrors
<1>2. \A f \in DOMAIN dir : dir[f].config \in Config[k]
  BY <1>1 DEF IsMap, Stored
<1>3. Parsed(dir) = DOMAIN dir
  BY <1>1 DEF Parsed
<1>4. FirstWithId(dir) = DOMAIN dir
  <2>1. \A f, g \in DOMAIN dir : dir[g].id = dir[f].id => f = g
    BY <1>1
  <2>2. \A f \in DOMAIN dir : f \in Nat
    BY DEF IsMap, Files
  <2> QED BY <1>3, <2>1, <2>2 DEF FirstWithId
<1>5. \A f \in DOMAIN dir : Needs(k, dir[f].config) \subseteq names
  BY <1>1, <1>2, SubstitutedFacts
<1>6. kept = DOMAIN dir
  BY <1>4, <1>5 DEF Kept
<1> HIDE DEF kept
<1>7. {dir[f].id : f \in kept} = DOMAIN entries
  <2>1. \A f \in DOMAIN dir : dir[f].id \in DOMAIN entries
    BY <1>1
  <2>2. \A i \in DOMAIN entries : entries[i].file \in DOMAIN dir /\ dir[entries[i].file].id = i
    BY DEF Mirrors
  <2> QED BY <1>6, <2>1, <2>2
<1>8. \A i \in DOMAIN entries : at(i) = entries[i].file
  <2> SUFFICES ASSUME NEW i \in DOMAIN entries PROVE at(i) = entries[i].file
    OBVIOUS
  <2>1. entries[i].file \in kept /\ dir[entries[i].file].id = i
    BY <1>6 DEF Mirrors
  <2>2. \A g \in kept : dir[g].id = i => g = entries[i].file
    BY <1>1, <1>6
  <2> QED BY <2>1, <2>2
<1>9. \A i \in DOMAIN entries :
        [config |-> Substituted(k, dir[at(i)].config), file |-> at(i)] = entries[i]
  <2> SUFFICES ASSUME NEW i \in DOMAIN entries
               PROVE  [config |-> Substituted(k, dir[at(i)].config), file |-> at(i)] = entries[i]
    OBVIOUS
  <2>1. entries[i] \in Entry(k)
    BY DEF IsMap
  <2>2. entries[i] = [config |-> entries[i].config, file |-> entries[i].file]
    BY <2>1 DEF Entry
  <2>3. entries[i].config = Substituted(k, dir[entries[i].file].config)
    BY DEF Mirrors
  <2> QED BY <1>8, <2>2, <2>3
<1>10. Loaded(k, dir, names) =
         [id \in {dir[f].id : f \in kept} |->
            [config |-> Substituted(k, dir[at(id)].config), file |-> at(id)]]
  BY DEF Loaded, kept
<1> HIDE DEF at
<1>11. Loaded(k, dir, names) = [i \in DOMAIN entries |-> entries[i]]
  BY <1>7, <1>9, <1>10
<1>12. entries = [i \in DOMAIN entries |-> entries[i]]
  BY DEF IsMap
<1> QED BY <1>11, <1>12

\* When every file gave an entry, the files mirror what is loaded.
LEMMA LoadedMirrors ==
  ASSUME NEW k \in Kinds, NEW dir, NEW names, NEW entries,
         entries = Loaded(k, dir, names),
         DOMAIN dir = {entries[i].file : i \in DOMAIN entries}
  PROVE  Mirrors(k, dir, entries)
<1> DEFINE kept == Kept(k, dir, names)
           at(id) == CHOOSE g \in kept : dir[g].id = id
<1>1. \A f \in kept : dir[f] # Malformed
  BY DEF Kept, FirstWithId, Parsed
<1>2. entries = [id \in {dir[f].id : f \in kept} |->
                   [config |-> Substituted(k, dir[at(id)].config), file |-> at(id)]]
  BY DEF Loaded
<1>3. \A id \in {dir[f].id : f \in kept} : at(id) \in kept /\ dir[at(id)].id = id
  OBVIOUS
<1> HIDE DEF kept, at
<1>4. \A i \in DOMAIN entries :
        /\ at(i) \in kept /\ dir[at(i)].id = i
        /\ entries[i].file = at(i)
        /\ entries[i].config = Substituted(k, dir[at(i)].config)
  <2> SUFFICES ASSUME NEW i \in DOMAIN entries
               PROVE  /\ at(i) \in kept /\ dir[at(i)].id = i
                      /\ entries[i].file = at(i)
                      /\ entries[i].config = Substituted(k, dir[at(i)].config)
    OBVIOUS
  <2>1. i \in {dir[f].id : f \in kept}
    BY <1>2
  <2>2. at(i) \in kept /\ dir[at(i)].id = i
    BY <1>3, <2>1
  <2>3. entries[i] = [config |-> Substituted(k, dir[at(i)].config), file |-> at(i)]
    BY <1>2, <2>1
  <2> QED BY <2>2, <2>3
<1> QED BY <1>1, <1>4 DEF Mirrors

\* A save that overwrites no other entry's file and resolves nothing keeps the
\* two in step: the file of the entry it replaces is freed or written again.
LEMMA SaveMirrors ==
  ASSUME NEW k \in Kinds, NEW old \in Ids, NEW id \in Ids, NEW config \in Config[k],
         Mirrors(k, disk[k], live[k]), id \notin DOMAIN live[k] \ {old},
         ~Overwrites(k, old, id), Substituted(k, config) = config,
         NEW dir, dir = NewFiles(k, old, id, config),
         NEW entries, entries = NewEntries(k, old, id, config)
  PROVE  Mirrors(k, dir, entries)
<1> DEFINE F == FileOf[id]
           gone == {live[k][i].file : i \in {old} \cap DOMAIN live[k]} \ {F}
           rest == DOMAIN live[k] \ ({old} \cup {id})
           record == [id |-> id, config |-> config]
           entry == [config |-> config, file |-> F]
<1>1. /\ DOMAIN entries = rest \cup {id}
      /\ entries[id] = entry
      /\ \A i \in rest : entries[i] = live[k][i]
  BY DEF NewEntries, Left, Put, Without, Restrict
<1>2. /\ DOMAIN dir = (DOMAIN disk[k] \ gone) \cup {F}
      /\ dir[F] = record
      /\ \A f \in DOMAIN disk[k] \ gone : f # F => dir[f] = disk[k][f]
  BY DEF NewFiles, Freed, Put, Without, Restrict
<1>3. record # Malformed
  BY WorkspaceAssumption
<1>4. \A i \in DOMAIN live[k] :
        /\ live[k][i].file \in DOMAIN disk[k]
        /\ disk[k][live[k][i].file] # Malformed
        /\ disk[k][live[k][i].file].id = i
        /\ live[k][i].config = Substituted(k, disk[k][live[k][i].file].config)
  BY DEF Mirrors
<1>5. \A i \in rest : live[k][i].file # F
  <2> SUFFICES ASSUME NEW i \in rest, live[k][i].file = F PROVE FALSE
    OBVIOUS
  <2>1. F \in DOMAIN disk[k] /\ disk[k][F].id = i
    BY <1>4
  <2>2. \E j \in {old} \cap DOMAIN live[k] : live[k][j].file = F
    BY <2>1 DEF Overwrites
  <2>3. disk[k][F].id = old
    BY <1>4, <2>2
  <2> QED BY <2>1, <2>3
<1>6. \A i \in rest : live[k][i].file \notin gone
  BY <1>4
<1>7. \A f \in DOMAIN disk[k] \ gone : f # F => \E i \in rest : f = live[k][i].file
  <2> SUFFICES ASSUME NEW f \in DOMAIN disk[k] \ gone, f # F
               PROVE  \E i \in rest : f = live[k][i].file
    OBVIOUS
  <2>1. PICK i \in DOMAIN live[k] : f = live[k][i].file
    BY DEF Mirrors
  <2>2. i # old
    BY <2>1
  <2> QED BY <2>1, <2>2
<1> HIDE DEF rest, gone
<1>8. \A i \in rest : i # id /\ i \in DOMAIN live[k]
  BY DEF rest
<1>9. DOMAIN dir = {entries[i].file : i \in DOMAIN entries}
  <2>1. \A i \in rest : entries[i].file \in DOMAIN disk[k] \ gone
    BY <1>1, <1>4, <1>6, <1>8
  <2>2. \A f \in DOMAIN disk[k] \ gone : f # F => \E i \in rest : f = entries[i].file
    BY <1>1, <1>7
  <2>3. entries[id].file = F
    BY <1>1
  <2> QED BY <1>1, <1>2, <2>1, <2>2, <2>3
<1>10. ASSUME NEW i \in DOMAIN entries
      PROVE  /\ dir[entries[i].file] # Malformed
             /\ dir[entries[i].file].id = i
             /\ entries[i].config = Substituted(k, dir[entries[i].file].config)
  <2>1. CASE i = id
    BY <1>1, <1>2, <1>3, <2>1
  <2>2. CASE i \in rest
    <3>1. live[k][i].file \in DOMAIN disk[k] \ gone /\ live[k][i].file # F
      BY <1>4, <1>5, <1>6, <1>8, <2>2
    <3>2. entries[i] = live[k][i] /\ dir[live[k][i].file] = disk[k][live[k][i].file]
      BY <1>1, <1>2, <2>2, <3>1
    <3> QED BY <1>4, <1>8, <2>2, <3>2
  <2> QED BY <1>1, <2>1, <2>2
<1> QED BY <1>9, <1>10 DEF Mirrors

LEMMA UpsertInStep ==
  ASSUME IInv, InStep, NEW k \in Kinds, NEW own, NEW old \in Ids, NEW id \in Ids,
         NEW config \in Config[k], Upsert(k, own, old, id, config),
         own \subseteq {old}, UNCHANGED <<functions, transforms>>
  PROVE  InStep'
<1> SUFFICES ASSUME ~diverged' PROVE stale' = {} /\ \A j \in Kinds : Mirrors(j, disk'[j], live'[j])
                                    /\ functions' = LoadedFunctions(transforms')
  BY DEF InStep
<1>1. DOMAIN live = Kinds /\ DOMAIN disk = Kinds
  BY DEF IInv, TypeOK, IsFolder
<1>2. CASE UNCHANGED <<live, disk, history>>
  BY <1>2 DEF InStep, history
<1>3. CASE /\ Accepted(k, own, id, config, Available(k))
           /\ live' = [live EXCEPT ![k] = NewEntries(k, old, id, config)]
           /\ disk' = [disk EXCEPT ![k] = NewFiles(k, old, id, config)]
           /\ diverged' = (diverged \/ Diverges(k, old, id, config))
           /\ stale' = IF Strands(k, old, id) THEN stale \cup {"apps"} ELSE stale
  <2>1. /\ ~diverged /\ ~Overwrites(k, old, id) /\ ~Strands(k, old, id)
        /\ Substituted(k, config) = config
    BY <1>3 DEF Diverges
  <2>2. /\ stale = {} /\ functions = LoadedFunctions(transforms)
        /\ \A j \in Kinds : Mirrors(j, disk[j], live[j])
    BY <2>1 DEF InStep
  <2>3. id \notin DOMAIN live[k] \ {old}
    BY <1>3 DEF Accepted
  <2>4. Mirrors(k, NewFiles(k, old, id, config), NewEntries(k, old, id, config))
    BY <2>1, <2>2, <2>3, SaveMirrors
  <2>5. /\ live'[k] = NewEntries(k, old, id, config)
        /\ disk'[k] = NewFiles(k, old, id, config)
        /\ \A j \in Kinds \ {k} : live'[j] = live[j] /\ disk'[j] = disk[j]
    BY <1>1, <1>3
  <2>6. \A j \in Kinds : Mirrors(j, disk'[j], live'[j])
    BY <2>2, <2>4, <2>5
  <2>7. stale' = {}
    BY <1>3, <2>1, <2>2
  <2> QED BY <2>2, <2>6, <2>7
<1> QED BY <1>2, <1>3 DEF Upsert

\* A removed entry takes its own file along and no other.
LEMMA RemoveInStep ==
  ASSUME IInv, InStep, NEW k \in Kinds, NEW id \in Ids, Remove(k, id)
  PROVE  InStep'
<1> DEFINE e == Without(live[k], {id})
           d == Without(disk[k], {live[k][id].file})
<1>1. /\ live' = [live EXCEPT ![k] = e] /\ disk' = [disk EXCEPT ![k] = d]
      /\ UNCHANGED <<functions, transforms, diverged, stale>>
      /\ id \in DOMAIN live[k]
  BY DEF Remove, history
<1>2. DOMAIN live = Kinds /\ DOMAIN disk = Kinds
  BY DEF IInv, TypeOK, IsFolder
<1>3. /\ DOMAIN e = DOMAIN live[k] \ {id}
      /\ \A i \in DOMAIN e : e[i] = live[k][i]
      /\ DOMAIN d = DOMAIN disk[k] \ {live[k][id].file}
      /\ \A f \in DOMAIN d : d[f] = disk[k][f]
  BY DEF Without, Restrict
<1> HIDE DEF e, d
<1>4. ASSUME Mirrors(k, disk[k], live[k]) PROVE Mirrors(k, d, e)
  <2>1. \A i \in DOMAIN live[k] :
          /\ live[k][i].file \in DOMAIN disk[k]
          /\ disk[k][live[k][i].file] # Malformed
          /\ disk[k][live[k][i].file].id = i
          /\ live[k][i].config = Substituted(k, disk[k][live[k][i].file].config)
    BY <1>4 DEF Mirrors
  <2>2. \A i \in DOMAIN e : live[k][i].file # live[k][id].file
    BY <1>1, <1>3, <2>1
  <2>3. \A f \in DOMAIN d : \E i \in DOMAIN e : f = e[i].file
    BY <1>3, <1>4 DEF Mirrors
  <2>4. \A i \in DOMAIN e :
          /\ e[i].file \in DOMAIN d /\ d[e[i].file] = disk[k][live[k][i].file]
          /\ e[i] = live[k][i]
    BY <1>3, <2>1, <2>2
  <2>5. DOMAIN d = {e[i].file : i \in DOMAIN e}
    BY <2>3, <2>4
  <2> QED BY <1>3, <2>1, <2>4, <2>5 DEF Mirrors
<1>5. /\ live'[k] = e /\ disk'[k] = d
      /\ \A j \in Kinds \ {k} : live'[j] = live[j] /\ disk'[j] = disk[j]
  BY <1>1, <1>2
<1> QED BY <1>1, <1>4, <1>5 DEF InStep

\* A function that loads is live as it is stored; one that does not must not
\* replace one that did.
LEMMA FunctionsInStep ==
  ASSUME IInv, InStep, NEW n \in Fns, NEW code,
         SaveFunction(n, code) \/ DeleteFunction(n)
  PROVE  InStep'
<1>1. UNCHANGED <<live, disk, stale>>
  BY DEF SaveFunction, DeleteFunction, history
<1>2. ASSUME ~diverged', InStep, ~diverged
      PROVE  functions' = LoadedFunctions(transforms')
  <2>1. functions = Restrict(transforms, {m \in DOMAIN transforms : transforms[m] \in Works})
    BY <1>2 DEF InStep, LoadedFunctions
  <2>2. CASE SaveFunction(n, code)
    <3>1. /\ transforms' = Put(transforms, n, code)
          /\ functions' = IF code \in Works THEN Put(functions, n, code) ELSE functions
          /\ code \in Works \/ n \notin DOMAIN functions
      BY <1>2, <2>2 DEF SaveFunction
    <3> QED BY <2>1, <3>1 DEF LoadedFunctions, Put, Restrict
  <2>3. CASE DeleteFunction(n)
    <3>1. transforms' = Without(transforms, {n}) /\ functions' = Without(functions, {n})
      BY <2>3 DEF DeleteFunction
    <3> QED BY <2>1, <3>1 DEF LoadedFunctions, Without, Restrict
  <2> QED BY <2>2, <2>3
<1>3. ~diverged' => ~diverged
  BY DEF SaveFunction, DeleteFunction, history
<1> QED BY <1>1, <1>2, <1>3 DEF InStep

\* What a load leaves out makes memory and disk differ; what it takes does not.
LEMMA LoadInStep ==
  ASSUME IInv, NEW folder, NEW stop, NEW moved, Load(folder, stop, moved),
         stop = "nowhere" => /\ transforms' = folder.transforms
                             /\ \A k \in Kinds : disk'[k] = folder.disk[k]
  PROVE  InStep'
<1> SUFFICES ASSUME ~diverged'
             PROVE  stale' = {} /\ functions' = LoadedFunctions(transforms')
                    /\ \A k \in Kinds : Mirrors(k, disk'[k], live'[k])
  BY DEF InStep
<1>1. stop = "nowhere"
  BY DEF Load
<1>2. Done(stop) = Kinds
  BY <1>1, DoneFacts DEF Stops, Kinds
<1>3. /\ functions' = LoadedFrom(folder).functions
      /\ \A k \in Kinds : live'[k] = LoadedFrom(folder).live[k]
      /\ AllLoaded(folder, LoadedFrom(folder).live)
      /\ stale' = (stale \ Kinds) \cup (Kinds \cap {"nowhere"})
  BY <1>1, <1>2 DEF Load
<1>4. stale' = {}
  BY <1>3 DEF Kinds, IInv, TypeOK
<1>5. functions' = LoadedFunctions(transforms')
  BY <1>1, <1>3 DEF LoadedFrom
<1>6. \A k \in Kinds : \E names : live'[k] = Loaded(k, folder.disk[k], names)
  BY <1>3 DEF LoadedFrom, Kinds
<1>7. \A k \in Kinds : DOMAIN folder.disk[k] = {live'[k][id].file : id \in DOMAIN live'[k]}
  BY <1>3 DEF AllLoaded
<1>8. \A k \in Kinds : Mirrors(k, disk'[k], live'[k])
  BY <1>1, <1>6, <1>7, LoadedMirrors
<1> QED BY <1>4, <1>5, <1>8

\* Files that hold the same mirror the same entries.
LEMMA SameFilesMirror ==
  ASSUME NEW k \in Kinds, NEW d, NEW same, NEW e, Mirrors(k, d, e),
         DOMAIN same = DOMAIN d, \A f \in DOMAIN d : same[f] = d[f]
  PROVE  Mirrors(k, same, e)
<1>1. \A i \in DOMAIN e : e[i].file \in DOMAIN d
  BY DEF Mirrors
<1>2. \A i \in DOMAIN e : same[e[i].file] = d[e[i].file]
  BY <1>1
<1> QED BY <1>2 DEF Mirrors

\* An endpoint that is rolled back took a file nobody had, and gave it back; one
\* that cannot be stays with its file.
LEMMA GenerateInStep ==
  ASSUME IInv, InStep, NEW a \in Ids, NEW route \in Generated, Generate(a, route)
  PROVE  InStep'
<1> DEFINE id == route.id
           new == NewFiles("integrations", id, id, GeneratedIntegration)
<1> SUFFICES ASSUME ~diverged'
             PROVE  stale' = {} /\ functions' = LoadedFunctions(transforms')
                    /\ \A k \in Kinds : Mirrors(k, disk'[k], live'[k])
  BY DEF InStep
<1>1. UNCHANGED <<functions, transforms, stale>>
  BY DEF Generate
<1>2. ~diverged
  BY DEF Generate
<1>3. /\ stale = {} /\ functions = LoadedFunctions(transforms)
      /\ \A k \in Kinds : Mirrors(k, disk[k], live[k])
  BY <1>2 DEF InStep
<1>4. ~RouteAdded(a, route)
  BY DEF RouteAdded, Accepted
<1>5. "integrations" \in Kinds /\ "apps" \in Kinds /\ "apps" # "integrations"
  BY DEF Kinds
<1>6. CASE UNCHANGED <<live, disk>>
  BY <1>1, <1>3, <1>6
<1>7. CASE /\ ~Skipped(a, route)
           /\ ~Diverges("integrations", id, id, GeneratedIntegration)
           /\ disk' = [disk EXCEPT !["integrations"] = Without(new, {FileOf[id]})]
           /\ UNCHANGED live
  <2>1. id \notin DOMAIN live["integrations"]
    BY <1>7 DEF Skipped
  <2>2. FileOf[id] \notin DOMAIN disk["integrations"]
    BY <1>7, <2>1 DEF Diverges, Overwrites
  <2>3. LET d == Without(new, {FileOf[id]}) IN
        /\ DOMAIN d = DOMAIN disk["integrations"]
        /\ \A f \in DOMAIN d : d[f] = disk["integrations"][f]
    BY <2>1, <2>2 DEF NewFiles, Freed, Put, Without, Restrict
  <2>4. /\ live'["integrations"] = live["integrations"] /\ live'["apps"] = live["apps"]
        /\ disk'["integrations"] = Without(new, {FileOf[id]}) /\ disk'["apps"] = disk["apps"]
    BY <1>5, <1>7 DEF IInv, TypeOK, IsFolder
  <2> HIDE DEF new
  <2>5. Mirrors("integrations", disk'["integrations"], live'["integrations"])
    <3>1. Mirrors("integrations", disk["integrations"], live["integrations"])
      BY <1>3, <1>5
    <3>2. /\ DOMAIN disk'["integrations"] = DOMAIN disk["integrations"]
          /\ \A f \in DOMAIN disk["integrations"] :
               disk'["integrations"][f] = disk["integrations"][f]
      BY <2>3, <2>4
    <3>3. Mirrors("integrations", disk'["integrations"], live["integrations"])
      BY ONLY <1>5, <3>1, <3>2, SameFilesMirror
    <3> QED BY <2>4, <3>3
  <2>6. Mirrors("apps", disk'["apps"], live'["apps"])
    BY <1>3, <1>5, <2>4
  <2> QED BY <1>1, <1>3, <2>5, <2>6 DEF Kinds
<1>8. CASE /\ ~Skipped(a, route)
           /\ ~Diverges("integrations", id, id, GeneratedIntegration)
           /\ live' = [live EXCEPT !["integrations"] =
                         NewEntries("integrations", id, id, GeneratedIntegration)]
           /\ disk' = [disk EXCEPT !["integrations"] = new]
  <2>1. /\ id \in Ids /\ id \notin DOMAIN live["integrations"]
        /\ GeneratedIntegration \in Config["integrations"]
    BY <1>8, WorkspaceAssumption, ConfigType
       DEF Skipped, Route, GeneratedIntegration, Integration
  <2>2. /\ ~Overwrites("integrations", id, id)
        /\ Substituted("integrations", GeneratedIntegration) = GeneratedIntegration
    BY <1>8 DEF Diverges
  <2>3. Mirrors("integrations", new, NewEntries("integrations", id, id, GeneratedIntegration))
    BY <1>3, <1>5, <2>1, <2>2, SaveMirrors
  <2>4. /\ live'["integrations"] = NewEntries("integrations", id, id, GeneratedIntegration)
        /\ disk'["integrations"] = new
        /\ live'["apps"] = live["apps"] /\ disk'["apps"] = disk["apps"]
    BY <1>5, <1>8 DEF IInv, TypeOK, IsFolder
  <2>5. \A k \in Kinds : Mirrors(k, disk'[k], live'[k])
    BY <1>3, <2>3, <2>4 DEF Kinds
  <2> QED BY <1>1, <1>3, <2>5
<1>9. \/ UNCHANGED <<live, disk>>
      \/ /\ ~Skipped(a, route)
         /\ ~Diverges("integrations", id, id, GeneratedIntegration)
         /\ \/ /\ disk' = [disk EXCEPT !["integrations"] = Without(new, {FileOf[id]})]
               /\ UNCHANGED live
            \/ /\ live' = [live EXCEPT !["integrations"] =
                             NewEntries("integrations", id, id, GeneratedIntegration)]
               /\ disk' = [disk EXCEPT !["integrations"] = new]
  BY <1>4 DEF Generate
<1> QED BY <1>6, <1>7, <1>8, <1>9

\* Every step replaces memory by a function.
LEMMA FunctionStep ==
  ASSUME IInv, LiveIsFunction, [Next]_vars PROVE LiveIsFunction'
<1> SUFFICES \/ UNCHANGED live
             \/ \E k \in Kinds : \E e : live' = [live EXCEPT ![k] = e]
             \/ live' = [k \in Kinds |-> live'[k]]
  BY DEF LiveIsFunction, IInv, TypeOK
<1>1. ASSUME NEW k \in Kinds, NEW own, NEW old, NEW id, NEW config,
             Upsert(k, own, old, id, config)
      PROVE  UNCHANGED live \/ \E e : live' = [live EXCEPT ![k] = e]
  BY <1>1 DEF Upsert
<1>2. ASSUME NEW folder, NEW stop, NEW moved, Load(folder, stop, moved)
      PROVE  live' = [k \in Kinds |-> live'[k]]
  <2>1. PICK read \in {folder, Unlisted(folder)} :
          live' = [k \in Kinds |-> IF k \in Done(stop) THEN LoadedFrom(read).live[k]
                                  ELSE IF k \in moved THEN LeftBehind(live[k])
                                  ELSE live[k]]
    BY <1>2 DEF Load
  <2> QED BY <2>1
<1>3. CASE \E k \in Kinds : \E input \in Inputs[k] : Create(k, input[1], input[2])
  BY <1>1, <1>3 DEF Create
<1>4. CASE \E k \in Kinds, old \in Ids : \E input \in Inputs[k] :
             Update(k, old, input[1], input[2])
  BY <1>1, <1>4 DEF Update
<1>5. CASE \E k \in Kinds, id \in Ids : Remove(k, id)
  BY <1>5 DEF Remove
<1>6. CASE \/ \E a \in Ids, route \in Bodies : AddRoute(a, route)
           \/ \E a, rid \in Ids, route \in Bodies : ReplaceRoute(a, rid, route)
           \/ \E a, rid \in Ids : RemoveRoute(a, rid)
  <2>1. PICK own, a, config : Upsert("apps", own, a, a, config)
    BY <1>6 DEF AddRoute, ReplaceRoute, RemoveRoute
  <2> QED BY <1>1, <2>1 DEF Kinds
<1>7. CASE \E a \in Ids, route \in Generated : Generate(a, route)
  <2>1. PICK a \in Ids, route \in Generated : Generate(a, route)
    BY <1>7
  <2>2. ~RouteAdded(a, route)
    BY DEF RouteAdded, Accepted
  <2>3. UNCHANGED live \/ \E e : live' = [live EXCEPT !["integrations"] = e]
    BY <2>1, <2>2 DEF Generate
  <2> QED BY <2>3 DEF Kinds
<1>8. CASE \/ \E stop \in Stops : Reload(stop)
           \/ \E folder \in Folders, stop \in Stops : Switch(folder, stop)
           \/ \E reported \in {Reported(folder) : folder \in Folders} : Restart(reported)
  BY <1>2, <1>8 DEF Reload, Restart, Switch
<1>9. CASE \/ \E n \in Fns, code \in Codes : SaveFunction(n, code)
           \/ \E n \in Fns : DeleteFunction(n)
           \/ \E a \in Ids : StartGeneration(a)
           \/ \E a \in Ids, routes \in SUBSET Generated : Introspected(a, routes)
           \/ \E folder \in Folders : CheckOut(folder)
           \/ UNCHANGED vars
  BY <1>9 DEF SaveFunction, DeleteFunction, StartGeneration, Introspected, CheckOut, vars
<1> QED BY <1>3, <1>4, <1>5, <1>6, <1>7, <1>8, <1>9 DEF Next

LEMMA StepInStep ==
  ASSUME IInv, InStep, [Next]_vars PROVE InStep'
<1>1. CASE \E n \in Fns, code \in Codes : SaveFunction(n, code)
  BY <1>1, FunctionsInStep
<1>2. CASE \E n \in Fns : DeleteFunction(n)
  BY <1>2, FunctionsInStep
<1>3. CASE \E k \in Kinds : \E input \in Inputs[k] : Create(k, input[1], input[2])
  <2>1. PICK k \in Kinds : \E input \in Inputs[k] : Create(k, input[1], input[2])
    BY <1>3
  <2>2. PICK input \in Inputs[k] : Create(k, input[1], input[2])
    BY <2>1
  <2>3. input[1] \in Ids /\ input[2] \in Config[k]
    BY WorkspaceAssumption
  <2>4. Upsert(k, {}, input[1], input[1], input[2]) /\ UNCHANGED <<functions, transforms>>
    BY <2>2 DEF Create
  <2> QED BY <2>3, <2>4, UpsertInStep
<1>4. CASE \E k \in Kinds, old \in Ids : \E input \in Inputs[k] :
             Update(k, old, input[1], input[2])
  <2>1. PICK k \in Kinds, old \in Ids :
          \E input \in Inputs[k] : Update(k, old, input[1], input[2])
    BY <1>4
  <2>2. PICK input \in Inputs[k] : Update(k, old, input[1], input[2])
    BY <2>1
  <2>3. input[1] \in Ids /\ input[2] \in Config[k]
    BY WorkspaceAssumption
  <2>4. Upsert(k, {old}, old, input[1], input[2]) /\ UNCHANGED <<functions, transforms>>
    BY <2>2 DEF Update
  <2> QED BY <2>3, <2>4, UpsertInStep
<1>5. CASE \E k \in Kinds, id \in Ids : Remove(k, id)
  BY <1>5, RemoveInStep
<1>6. CASE \/ \E a \in Ids, route \in Bodies : AddRoute(a, route)
           \/ \E a, rid \in Ids, route \in Bodies : ReplaceRoute(a, rid, route)
           \/ \E a, rid \in Ids : RemoveRoute(a, rid)
  <2>1. "apps" \in Kinds /\ \A a \in DOMAIN live["apps"] : RoutesOf(a) \in SUBSET Route
    BY ConfigType DEF IInv, TypeOK, Kinds, IsMap, Entry, RoutesOf
  <2>2. ASSUME NEW a \in Ids, NEW route \in Bodies, AddRoute(a, route)
        PROVE  InStep'
    <3>1. RoutesOf(a) \cup {route} \in Config["apps"]
      BY <2>1, <2>2, ConfigType, WorkspaceAssumption DEF AddRoute
    <3>2. Upsert("apps", {}, a, a, RoutesOf(a) \cup {route})
          /\ UNCHANGED <<functions, transforms>>
      BY <2>2 DEF AddRoute
    <3> QED BY <2>1, <3>1, <3>2, UpsertInStep
  <2>3. ASSUME NEW a \in Ids, NEW rid \in Ids, NEW route \in Bodies,
               ReplaceRoute(a, rid, route)
        PROVE  InStep'
    <3>1. OtherRoutes(a, rid) \cup {route} \in Config["apps"]
      BY <2>1, <2>3, ConfigType, WorkspaceAssumption DEF ReplaceRoute, OtherRoutes
    <3>2. Upsert("apps", {a}, a, a, OtherRoutes(a, rid) \cup {route})
          /\ UNCHANGED <<functions, transforms>>
      BY <2>3 DEF ReplaceRoute
    <3> QED BY <2>1, <3>1, <3>2, UpsertInStep
  <2>4. ASSUME NEW a \in Ids, NEW rid \in Ids, RemoveRoute(a, rid)
        PROVE  InStep'
    <3>1. OtherRoutes(a, rid) \in Config["apps"]
      BY <2>1, <2>4, ConfigType DEF RemoveRoute, OtherRoutes
    <3>2. Upsert("apps", {a}, a, a, OtherRoutes(a, rid))
          /\ UNCHANGED <<functions, transforms>>
      BY <2>4 DEF RemoveRoute
    <3> QED BY <2>1, <3>1, <3>2, UpsertInStep
  <2> QED BY <1>6, <2>2, <2>3, <2>4
<1>7. CASE \E a \in Ids, route \in Generated : Generate(a, route)
  BY <1>7, GenerateInStep
<1>8. CASE \/ \E stop \in Stops : Reload(stop)
           \/ \E folder \in Folders, stop \in Stops : Switch(folder, stop)
           \/ \E reported \in {Reported(folder) : folder \in Folders} : Restart(reported)
  <2>1. ASSUME NEW stop \in Stops, Reload(stop) PROVE InStep'
    BY <2>1, LoadInStep DEF Reload, OnDisk
  <2>2. ASSUME NEW folder \in Folders, NEW stop \in Stops, Switch(folder, stop)
        PROVE  InStep'
    <3>1. stop = "nowhere" => \A k \in Kinds : disk'[k] = folder.disk[k]
      BY <2>2 DEF Switch, Reached, Done
    <3> QED BY <2>2, <3>1, LoadInStep DEF Switch
  <2>3. ASSUME NEW reported, Restart(reported) PROVE InStep'
    BY <2>3, LoadInStep DEF Restart
  <2> QED BY <1>8, <2>1, <2>2, <2>3
<1>9. CASE \/ \E a \in Ids : StartGeneration(a)
           \/ \E a \in Ids, routes \in SUBSET Generated : Introspected(a, routes)
           \/ UNCHANGED vars
  BY <1>9 DEF StartGeneration, Introspected, vars, history, InStep
<1>10. CASE \E folder \in Folders : CheckOut(folder)
  BY <1>10 DEF CheckOut, InStep
<1> QED BY <1>1, <1>2, <1>3, <1>4, <1>5, <1>6, <1>7, <1>8, <1>9, <1>10 DEF Next

LEMMA InitInStep ==
  ASSUME Init PROVE InStep /\ LiveIsFunction
<1>1. PICK folder \in Folders :
        /\ transforms = folder.transforms /\ disk = folder.disk
        /\ functions = LoadedFrom(folder).functions /\ live = LoadedFrom(folder).live
        /\ diverged = ~AllLoaded(folder, live)
  BY DEF Init
<1>2. stale = {}
  BY DEF Init
<1>3. LiveIsFunction
  BY <1>1 DEF LoadedFrom, LiveIsFunction
<1>4. ASSUME ~diverged PROVE \A k \in Kinds : Mirrors(k, disk[k], live[k])
  <2>1. AllLoaded(folder, live)
    BY <1>1, <1>4
  <2>2. \A k \in Kinds : \E names : live[k] = Loaded(k, folder.disk[k], names)
    BY <1>1 DEF LoadedFrom, Kinds
  <2> QED BY <1>1, <2>1, <2>2, LoadedMirrors DEF AllLoaded
<1>5. functions = LoadedFunctions(transforms)
  BY <1>1 DEF LoadedFrom
<1> QED BY <1>2, <1>3, <1>4, <1>5 DEF InStep

\* Files in step with memory load as what is live.
LEMMA InStepIsStored ==
  ASSUME IInv, InStep, LiveIsFunction PROVE LiveIsStored
<1> SUFFICES ASSUME ~diverged
             PROVE  LoadedFrom(OnDisk) = [functions |-> functions, live |-> live]
  BY DEF LiveIsStored
<1>1. /\ stale = {} /\ functions = LoadedFunctions(transforms)
      /\ Mirrors("integrations", disk["integrations"], live["integrations"])
      /\ Mirrors("apps", disk["apps"], live["apps"])
  BY DEF InStep, Kinds
<1>2. /\ "integrations" \in Kinds /\ "apps" \in Kinds
      /\ IsMap(disk["integrations"], Files, Stored("integrations"))
      /\ IsMap(disk["apps"], Files, Stored("apps"))
      /\ IsMap(live["integrations"], Ids, Entry("integrations"))
      /\ IsMap(live["apps"], Ids, Entry("apps"))
  BY DEF IInv, TypeOK, IsFolder, Kinds
<1>3. Loaded("integrations", disk["integrations"], DOMAIN functions) = live["integrations"]
  <2>1. \A i \in DOMAIN live["integrations"] :
          Needs("integrations", live["integrations"][i].config) \subseteq DOMAIN functions
    BY <1>1 DEF IInv, FunctionsThere, Needs
  <2> QED BY <1>1, <1>2, <2>1, MirrorLoads
<1>4. Loaded("apps", disk["apps"], DOMAIN live["integrations"]) = live["apps"]
  <2>1. \A a \in DOMAIN live["apps"] :
          Needs("apps", live["apps"][a].config) \subseteq DOMAIN live["integrations"]
    BY <1>1 DEF IInv, RoutesResolve, Unresolved, RoutesOf
  <2> QED BY <1>1, <1>2, <2>1, MirrorLoads
<1>5. live = [k \in Kinds |-> IF k = "integrations" THEN live["integrations"] ELSE live["apps"]]
  BY DEF LiveIsFunction, Kinds
<1> QED BY <1>1, <1>3, <1>4, <1>5 DEF LoadedFrom, OnDisk

\* What is served survives a reload and a restart, and nothing comes back that
\* was deleted or renamed away, but for the exceptions that LiveIsStored names.
THEOREM ReloadChangesNothing == Spec => []LiveIsStored
<1>1. Init => InStep /\ LiveIsFunction
  BY InitInStep
<1>2. IInv /\ InStep /\ LiveIsFunction /\ [Next]_vars => InStep' /\ LiveIsFunction'
  BY StepInStep, FunctionStep
<1>3. IInv /\ InStep /\ LiveIsFunction => LiveIsStored
  BY InStepIsStored
<1> QED BY <1>1, <1>2, <1>3, Inductive, PTL DEF Spec

-----------------------------------------------------------------------------
(* Routes that are added one at a time *)

\* What adding a route and generating an endpoint change of the apps.
NothingAdded ==
  [][ \/ \E a \in Ids, route \in Bodies : AddRoute(a, route)
      \/ \E a \in Ids, route \in Generated : Generate(a, route)
      => live'["apps"] = live["apps"] ]_vars

\* The upsert of an app that is there finds the app's own id in use.
LEMMA OwnIdInUse ==
  ASSUME NEW a \in DOMAIN live["apps"], NEW config, NEW names
  PROVE  ~Accepted("apps", {}, a, config, names)
BY DEF Accepted

LEMMA AddRouteAddsNothing ==
  ASSUME NEW a, NEW route, AddRoute(a, route)
  PROVE  live'["apps"] = live["apps"]
BY OwnIdInUse DEF AddRoute, Upsert

LEMMA GenerateAddsNothing ==
  ASSUME IInv, NEW a, NEW route, Generate(a, route)
  PROVE  live'["apps"] = live["apps"]
<1>1. ~RouteAdded(a, route)
  BY OwnIdInUse DEF RouteAdded
<1>2. UNCHANGED live \/ \E e : live' = [live EXCEPT !["integrations"] = e]
  BY <1>1 DEF Generate
<1>3. DOMAIN live = Kinds /\ "apps" \in Kinds /\ "apps" # "integrations"
  BY DEF IInv, TypeOK, Kinds
<1> QED BY <1>2, <1>3

\* No route is ever added to an app by POST /apps/:appId/routes
\* (consoleApi.ts:367-376), and none by generation (crudGenerator.ts:134-142):
\* whatever the app, the route, the workspace and the faults, the apps stay what
\* they were.
THEOREM RoutesNeverAdded == Spec => NothingAdded
<1>1. IInv =>
        [ \/ \E a \in Ids, route \in Bodies : AddRoute(a, route)
          \/ \E a \in Ids, route \in Generated : Generate(a, route)
          => live'["apps"] = live["apps"] ]_vars
  BY AddRouteAddsNothing, GenerateAddsNothing
<1> QED BY <1>1, Inductive, PTL DEF Spec, NothingAdded
=============================================================================
