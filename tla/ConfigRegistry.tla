--------------------------- MODULE ConfigRegistry ---------------------------
(***************************************************************************)
(* The two registries that keep their entries in one file of the current   *)
(* folder each: gateways (gatewaysRegistry.ts) and auth providers          *)
(* (authProvidersRegistry.ts).  The second is written after the first, and *)
(* an action with a parameter k stands for the same method of both.        *)
(*                                                                         *)
(* The console saves and deletes entries, reloads, and switches folders;   *)
(* the files are also edited from outside; a write may fail or be cut      *)
(* short; the process may die and start again with another environment.    *)
(* Each handler runs in one turn of the event loop.                        *)
(*                                                                         *)
(* An entry is what upsert stores, after blank secrets were filled in from *)
(* the stored entry and its schema was checked.  A folder without a file   *)
(* counts as one whose file has no entries: loading it gives the same.     *)
(***************************************************************************)
EXTENDS Naturals, JsMaps

CONSTANTS
  Names,       \* names of entries
  Vars,        \* environment variables that entries refer to
  NoVar,       \* of an entry that refers to none
  NoProvider,  \* of a gateway without requiresAuth, and of any auth provider
  Inputs,      \* what can be submitted: registry -> set of <<name, setting>>
  Folders,     \* workspace folders
  Unreadable,  \* the content of a file that cannot be parsed
  MaxFaults    \* bound: failed writes and files changed from outside

Kinds == {"gateways", "authProviders"}

Setting == [env: Vars \cup {NoVar}, requiresAuth: Names \cup {NoProvider}]

\* home is history: the folder for which the entry was written.
Entry == [setting: Setting, home: Folders]

Entries == UNION {[N -> Entry] : N \in SUBSET Names}

ASSUME ConfigRegistryAssumption ==
  /\ NoVar \notin Vars
  /\ NoProvider \notin Names
  /\ Inputs \in [Kinds -> SUBSET (Names \X Setting)]
  /\ Unreadable \notin Entries
  /\ MaxFaults \in Nat

VARIABLES
  up,         \* the process is running
  env,        \* variables set in its environment
  raw,        \* registry -> entries in memory
  filePath,   \* registry -> folder whose file it reads and writes
  configDir,  \* workspace.configDir: the folder the console reports
  deployed,   \* configDir in deployment.yaml
  files,      \* folder -> registry -> entries on disk
  faults,     \* failed writes and outside changes so far, for the bound
  \* History:
  clean,      \* registries whose entries resolved when they were loaded
  refused,    \* registries that hold a refused entry
  diverged,   \* registries whose file an error or another program left behind
  stopped     \* registries a switch repointed but failed to load

history == <<clean, refused, diverged, stopped>>

vars == <<up, env, raw, filePath, configDir, deployed, files, faults, history>>

TypeOK ==
  /\ up \in BOOLEAN
  /\ env \subseteq Vars
  /\ raw \in [Kinds -> Entries]
  /\ filePath \in [Kinds -> Folders]
  /\ configDir \in Folders /\ deployed \in Folders
  /\ files \in [Folders -> [Kinds -> Entries \cup {Unreadable}]]
  /\ faults \in 0..MaxFaults
  /\ \A h \in {clean, refused, diverged, stopped} : h \subseteq Kinds

\* substituteEnv finds every variable that the entries refer to.
Resolves(entries, set) ==
  \A n \in DOMAIN entries : entries[n].setting.env \in set \cup {NoVar}

Resolved(loaded, set) == {k \in Kinds : Resolves(loaded[k], set)}

\* Files that somebody wrote for that folder.
Authored(f, k) ==
  {entries \in Entries : \A n \in DOMAIN entries :
     <<n, entries[n].setting>> \in Inputs[k] /\ entries[n].home = f}

AuthoredFolders(f) ==
  {folder \in [Kinds -> UNION {Authored(f, k) : k \in Kinds}] :
     \A k \in Kinds : folder[k] \in Authored(f, k)}

Init ==
  /\ up = TRUE
  /\ env \in SUBSET Vars
  /\ files \in [Folders -> UNION {AuthoredFolders(f) : f \in Folders}]
  /\ \A f \in Folders : files[f] \in AuthoredFolders(f)
  /\ deployed \in Folders
  /\ configDir = deployed
  /\ filePath = [k \in Kinds |-> deployed]
  /\ raw = files[deployed]
  /\ faults = 0
  /\ clean = Resolved(raw, env)
  /\ refused = {} /\ diverged = {} /\ stopped = {}

-----------------------------------------------------------------------------
(* Memory and file *)

Fault == faults < MaxFaults /\ faults' = faults + 1

\* The file keeps the entries that memory no longer has.
StoredOverOld(k, entries) ==
  LET old == files[filePath[k]][k] IN
  files' = [files EXCEPT ![filePath[k]][k] =
    IF old = Unreadable THEN entries
    ELSE [n \in DOMAIN old \cup DOMAIN entries |->
            IF n \in DOMAIN entries THEN entries[n] ELSE old[n]]]

\* The file is written before memory is assigned.
StoredBefore(k, entries) == files' = [files EXCEPT ![filePath[k]][k] = raw[k]]

\* persist writes the whole registry to its file.
Stored(k, entries) == files' = [files EXCEPT ![filePath[k]][k] = entries]

\* persist fails: nothing was written, or the file is cut short, between two
\* entries or inside one.
NotStored(k, entries) ==
  \E content \in {files[filePath[k]][k], Unreadable} \cup
                 {Restrict(entries, N) : N \in (SUBSET DOMAIN entries) \ {{}}} :
    files' = [files EXCEPT ![filePath[k]][k] = content]

Persist(k, entries) ==
  \/ Stored(k, entries) /\ diverged' = diverged \ {k} /\ UNCHANGED faults
  \/ NotStored(k, entries) /\ diverged' = diverged \cup {k} /\ Fault

\* What is checked is what was there before the save.
AcceptsBefore(k, entries) == Resolves(raw[k], env)

\* All entries of the registry, and not only the one that is saved, have to
\* resolve for upsert to go on.
Accepts(k, entries) == Resolves(entries, env)

\* POST and PUT, and the registry's upsert: memory is assigned before the
\* entries are resolved, and stays assigned when they do not.
Save(k, n, setting) ==
  LET entries == Put(raw[k], n, [setting |-> setting, home |-> filePath[k]]) IN
  /\ up
  /\ raw' = [raw EXCEPT ![k] = entries]
  /\ \/ /\ Accepts(k, entries)
        /\ Persist(k, entries)
        /\ clean' = clean \cup {k} /\ refused' = refused \ {k}
     \/ /\ ~Accepts(k, entries)
        /\ refused' = refused \cup {k} /\ diverged' = diverged \cup {k}
        /\ UNCHANGED <<files, faults, clean>>
  /\ UNCHANGED <<up, env, filePath, configDir, deployed, stopped>>

\* Gateways in memory that name the provider.
Dependents(n) ==
  {g \in DOMAIN raw["gateways"] : raw["gateways"][g].setting.requiresAuth = n}

\* DELETE, and the registry's remove, which resolves nothing.  Whether an
\* integration uses a gateway is the workspace's business and left open.
Delete(k, n) ==
  LET entries == Without(raw[k], {n}) IN
  /\ up
  /\ n \in DOMAIN raw[k]
  /\ k = "authProviders" => Dependents(n) = {}
  /\ raw' = [raw EXCEPT ![k] = entries]
  /\ Persist(k, entries)
  /\ UNCHANGED <<up, env, filePath, configDir, deployed, clean, refused, stopped>>

-----------------------------------------------------------------------------
(* Reload and switch *)

Parses(k, target) == files[target[k]][k] # Unreadable

\* The registries that get their turn: a file that cannot be parsed throws,
\* and the handler never comes to the second.
Reached(target) ==
  {"gateways"} \cup {k \in {"authProviders"} : Parses("gateways", target)}

Loads(target) == {k \in Reached(target) : Parses(k, target)}

Load(target) ==
  LET loaded == Loads(target) IN
  /\ raw' = [k \in Kinds |-> IF k \in loaded THEN files[target[k]][k] ELSE raw[k]]
  /\ clean' = (clean \ loaded) \cup (Resolved(raw', env) \cap loaded)
  /\ refused' = refused \ loaded
  /\ diverged' = (diverged \cup {k \in Reached(target) : target[k] # filePath[k]}) \ loaded
  /\ UNCHANGED <<up, env, files, faults>>

\* POST /reload
Reload ==
  /\ up
  /\ Load(filePath)
  /\ UNCHANGED <<filePath, configDir, deployed, stopped>>

\* Both registries are repointed before either of them reads its file.
RepointedFirst(target) == target

\* setFilePath repoints a registry before it loads it.
Repointed(target) ==
  [k \in Kinds |-> IF k \in Reached(target) THEN target[k] ELSE filePath[k]]

\* The folder is not noted once the switch is made.
NotReported(target) == configDir

\* The paths of the folder are noted in place of the folder.
PathsReported(target) == target

\* workspace.configDir is assigned once everything is loaded.
Reported(target) == IF Loads(target) = Kinds THEN target["gateways"] ELSE configDir

\* PUT /settings, after the pools are closed.  deployment.yaml comes last and
\* keeps the old folder when it cannot be written.
Switch(f) ==
  LET target == [k \in Kinds |-> f] IN
  /\ up
  /\ Load(target)
  /\ filePath' = Repointed(target)
  /\ configDir' = Reported(target)
  /\ deployed' \in {configDir', deployed}
  /\ Loads(target) # Kinds => deployed' = deployed
  /\ stopped' = stopped \cup (Reached(target) \ Loads(target))

-----------------------------------------------------------------------------
(* The world around *)

\* A checkout, an editor or another instance writes the file.
EditFile(f, k, content) ==
  /\ Fault
  /\ files' = [files EXCEPT ![f][k] = content]
  /\ diverged' = diverged \cup {r \in {k} : up /\ filePath[k] = f}
  /\ UNCHANGED <<up, env, raw, filePath, configDir, deployed, clean, refused, stopped>>

\* The process dies, and its memory with it.
Crash ==
  /\ up
  /\ up' = FALSE
  /\ env' = {}
  /\ raw' = [k \in Kinds |-> EmptyMap]
  /\ filePath' = [k \in Kinds |-> deployed]
  /\ configDir' = deployed
  /\ clean' = {} /\ refused' = {} /\ diverged' = {}
  /\ UNCHANGED <<deployed, files, faults, stopped>>

\* It is started, maybe with another environment, on the folder in
\* deployment.yaml; a file that cannot be parsed stops it.
Start(set) ==
  /\ ~up
  /\ \A k \in Kinds : files[deployed][k] # Unreadable
  /\ up' = TRUE
  /\ env' = set
  /\ raw' = files[deployed]
  /\ clean' = Resolved(raw', set)
  /\ UNCHANGED <<filePath, configDir, deployed, files, faults, refused, diverged, stopped>>

Next ==
  \/ \E k \in Kinds : \E input \in Inputs[k] : Save(k, input[1], input[2])
  \/ \E k \in Kinds, n \in Names : Delete(k, n)
  \/ Reload
  \/ \E f \in Folders : Switch(f)
  \/ \E f \in Folders, k \in Kinds : \E content \in Authored(f, k) \cup {Unreadable} :
       EditFile(f, k, content)
  \/ Crash
  \/ \E set \in SUBSET Vars : Start(set)

Spec == Init /\ [][Next]_vars

-----------------------------------------------------------------------------
(* Properties *)

\* A restart brings back what is being served, unless the console was told of
\* an error or somebody else wrote the file: the two are kept in step by every
\* save, delete, reload and switch that succeeds.
LiveIsStored ==
  up => \A k \in Kinds \ diverged : files[filePath[k]][k] = raw[k]

\* A registry that resolved when it was loaded goes on resolving, so that no
\* request fails on it, unless a save of it was refused.
ResolvesUnlessRefused ==
  up => \A k \in clean \ refused : Resolves(raw[k], env)

\* No folder's file receives entries that were written for another folder,
\* except by a registry that a failed switch repointed and did not load: its
\* next save writes the old folder's entries over the new folder's file.
EntriesStayHome ==
  \A f \in Folders, k \in Kinds \ stopped :
    files[f][k] # Unreadable =>
      \A n \in DOMAIN files[f][k] : files[f][k][n].home = f

\* Unless a switch failed half way, both registries work on the folder the
\* console reports.
OneFolder ==
  up /\ stopped = {} => \A k \in Kinds : filePath[k] = configDir

\* The console saves or deletes entry n of registry k.
Writes(k, n) == (\E setting \in Setting : Save(k, n, setting)) \/ Delete(k, n)

\* Entry n of registry k is served after the step as it was before it.
StaysServed(k, n) == n \in DOMAIN raw'[k] /\ raw'[k][n] = raw[k][n]

\* As long as the registry stays on its folder and no error or outside change
\* has left its file behind, an entry is changed by a save or delete of that
\* very entry only: neither those of its neighbours, whatever becomes of their
\* write, nor a reload (gatewaysRegistry.ts:75-77), nor a switch to the folder
\* it is on, complete or not, lose or alter it.
OthersUntouched ==
  [][\A k \in Kinds \ diverged : \A n \in DOMAIN raw[k] :
       (up /\ up' /\ filePath'[k] = filePath[k]) =>
         StaysServed(k, n) \/ Writes(k, n)]_vars
=============================================================================
