----------------------------- MODULE SessionHook -----------------------------
(***************************************************************************)
(* The session the user interface works with (useAgentSession.ts): it is   *)
(* initialized in steps that may outlive the component, another            *)
(* initialization, or the process that is asked to shut down; and the map  *)
(* of the repository it is given is cached between the screens.            *)
(***************************************************************************)
EXTENDS Naturals, FiniteSets

CONSTANTS
    Targets,     \* directories that may be audited
    Inits,       \* initializations, numbered; each builds one session at most
    MaxMounts,   \* bound: times the component is mounted
    MaxMaps,     \* bound: maps of a repository that are generated
    MaxEdits     \* bound: edits of the sources of a target

HookAssumption ==
    Inits \subseteq Nat \ {0} /\ MaxMounts \in Nat /\ MaxMaps \in Nat /\ MaxEdits \in Nat

VARIABLES
    mounts, owner,   \* lifecycleOwnerRef: the mount that owns the session, 0 for none
    generation,      \* initializationGenerationRef
    ref, active,     \* agentSessionRef (0 for null), activeSessions
    shutting,        \* isShuttingDown
    pc, target, myOwner, myGeneration, root, mine,   \* of each initialization
    life, map,       \* of its session, and the map it was given
    cache, maps,     \* repoMapPromiseCache (0 for null), and the promises it has held
    content          \* how often the sources of each target have been edited

hook == <<mounts, owner, generation, ref, active, shutting>>
inits == <<pc, target, myOwner, myGeneration, root, mine>>
caches == <<cache, maps>>
hookVars == <<hook, inits, life, map, caches, content>>

Pending == "pending"
MapIds == DOMAIN maps
\* The content of a target at a moment, and what a map or a root computed then stands for.
Version(t) == <<t, content[t]>>

TypeOK ==
    /\ owner \in 0..mounts /\ mounts \in 0..MaxMounts
    /\ ref \in Inits \cup {0} /\ active \subseteq Inits /\ shutting \in BOOLEAN
    /\ pc \in [Inits -> {"idle", "root", "cachedRoot", "map", "starting", "published", "done"}]
    /\ life \in [Inits -> {"none", "starting", "ready", "disposing", "gone"}]
    /\ cache \in MapIds \cup {0} /\ MapIds \subseteq 1..MaxMaps
    /\ content \in [Targets -> 0..MaxEdits]

Init ==
    /\ mounts = 0 /\ owner = 0 /\ generation = 0 /\ ref = 0 /\ active = {} /\ shutting = FALSE
    /\ pc = [i \in Inits |-> "idle"] /\ target \in [Inits -> Targets]
    /\ myOwner = [i \in Inits |-> 0] /\ myGeneration = [i \in Inits |-> 0]
    /\ root = [i \in Inits |-> Pending] /\ mine = [i \in Inits |-> 0]
    /\ life = [i \in Inits |-> "none"] /\ map = [i \in Inits |-> Pending]
    /\ cache = 0 /\ maps = <<>>
    /\ content = [t \in Targets |-> 0]

-----------------------------------------------------------------------------
Mount ==
    /\ owner = 0 /\ mounts < MaxMounts /\ ~shutting
    /\ mounts' = mounts + 1 /\ owner' = mounts + 1
    /\ UNCHANGED <<generation, ref, active, shutting, inits, life, map, caches, content>>

\* The component goes, and its session with it; a shutdown disposes of the session itself.
Unmount ==
    /\ owner # 0
    /\ owner' = 0 /\ generation' = generation + 1
    /\ IF shutting \/ ref = 0
       THEN UNCHANGED <<ref, active, life>>
       ELSE ref' = 0 /\ active' = active \ {ref} /\ life' = [life EXCEPT ![ref] = "disposing"]
    /\ UNCHANGED <<mounts, shutting, inits, map, caches, content>>

\* disposeActiveAgentSessions, when the user or a signal ends the program.
Shutdown ==
    /\ ~shutting /\ shutting' = TRUE
    /\ active' = {} /\ life' = [i \in Inits |-> IF i \in active THEN "disposing" ELSE life[i]]
    /\ UNCHANGED <<mounts, owner, generation, ref, inits, map, caches, content>>

ShutdownSettles ==
    /\ shutting /\ "disposing" \notin {life[i] : i \in Inits}
    /\ cache' = 0
    /\ UNCHANGED <<hook, inits, life, map, maps, content>>

SessionDisposed(i) ==
    /\ life[i] = "disposing" /\ life' = [life EXCEPT ![i] = "gone"]
    /\ UNCHANGED <<hook, inits, map, caches, content>>

Edit(t) ==
    /\ content[t] < MaxEdits /\ content' = [content EXCEPT ![t] = @ + 1]
    /\ UNCHANGED <<hook, inits, life, map, caches>>

-----------------------------------------------------------------------------
\* The cache of the map

NewMap(t, r) ==
    /\ Cardinality(MapIds) < MaxMaps
    /\ maps' = [m \in MapIds \cup {Cardinality(MapIds) + 1} |->
                   IF m \in MapIds THEN maps[m] ELSE [path |-> t, root |-> r, map |-> Pending]]
    /\ cache' = Cardinality(MapIds) + 1

\* startRepoMapGeneration, once a target is chosen: the root and the map are computed at once.
startRepoMapGeneration(t) ==
    /\ NewMap(t, Pending)
    /\ UNCHANGED <<hook, inits, life, map, content>>

RootSettles(m) ==
    /\ maps[m].root = Pending /\ maps' = [maps EXCEPT ![m].root = Version(maps[m].path)]
    /\ UNCHANGED <<hook, inits, life, map, cache, content>>

MapSettles(m) ==
    /\ maps[m].map = Pending /\ maps' = [maps EXCEPT ![m].map = Version(maps[m].path)]
    /\ UNCHANGED <<hook, inits, life, map, cache, content>>

-----------------------------------------------------------------------------
\* Faulty variant: only the component is asked whether it is still there.
StillWantedByOwner(i) == ~shutting /\ owner = myOwner[i]

StillWanted(i) == ~shutting /\ owner = myOwner[i] /\ generation = myGeneration[i]

Settles(i, next) == pc' = [pc EXCEPT ![i] = next]

\* initSession
initSession(i) ==
    /\ pc[i] = "idle" /\ \A j \in Inits : j < i => pc[j] # "idle"
    /\ generation' = generation + 1
    /\ myOwner' = [myOwner EXCEPT ![i] = owner] /\ myGeneration' = [myGeneration EXCEPT ![i] = generation + 1]
    /\ Settles(i, IF owner = 0 \/ shutting THEN "done" ELSE "root")
    /\ UNCHANGED <<mounts, owner, ref, active, shutting, target, root, mine, life, map, caches, content>>

\* loadRepoMap: the root of the sources now, and then the cached map if it has that root.
RootComputed(i) ==
    /\ pc[i] = "root"
    /\ root' = [root EXCEPT ![i] = Version(target[i])]
    /\ IF cache # 0 /\ maps[cache].path = target[i]
       THEN Settles(i, "cachedRoot") /\ mine' = [mine EXCEPT ![i] = cache] /\ UNCHANGED caches
       ELSE /\ Settles(i, "map") /\ NewMap(target[i], root'[i])
            /\ mine' = [mine EXCEPT ![i] = cache']
    /\ UNCHANGED <<hook, target, myOwner, myGeneration, life, map, content>>

\* The cache is read again after the wait, and may hold another map by then, or none.
CachedRootKnown(i) ==
    /\ pc[i] = "cachedRoot" /\ maps[mine[i]].root # Pending
    /\ IF maps[mine[i]].root = root[i]
       THEN /\ Settles(i, IF cache = 0 THEN "done" ELSE "map")
            /\ mine' = [mine EXCEPT ![i] = cache] /\ UNCHANGED caches
       ELSE /\ Settles(i, "map") /\ NewMap(target[i], root[i])
            /\ mine' = [mine EXCEPT ![i] = cache']
    /\ UNCHANGED <<hook, target, myOwner, myGeneration, root, life, map, content>>

\* With the map, and if it is still wanted, the session is built and starts.
MapKnown(i) ==
    /\ pc[i] = "map" /\ maps[mine[i]].map # Pending
    /\ IF StillWanted(i)
       THEN /\ Settles(i, "starting") /\ life' = [life EXCEPT ![i] = "starting"]
            /\ map' = [map EXCEPT ![i] = maps[mine[i]].map]
       ELSE Settles(i, "done") /\ UNCHANGED <<life, map>>
    /\ UNCHANGED <<hook, target, myOwner, myGeneration, root, mine, caches, content>>

\* waitForReady fails, or the target is no longer the directory that was approved.
SessionFails(i) ==
    /\ pc[i] = "starting"
    /\ Settles(i, "done") /\ life' = [life EXCEPT ![i] = "disposing"]
    /\ UNCHANGED <<hook, target, myOwner, myGeneration, root, mine, map, caches, content>>

\* The session is published, and the one before it disposed of; or it is not wanted any more.
SessionReady(i) ==
    /\ pc[i] = "starting" /\ Settles(i, IF StillWanted(i) THEN "published" ELSE "done")
    /\ IF StillWanted(i)
       THEN /\ ref' = i /\ active' = (active \cup {i}) \ {ref}
            /\ life' = [j \in Inits |-> IF j = i THEN "ready" ELSE IF j = ref THEN "disposing" ELSE life[j]]
       ELSE life' = [life EXCEPT ![i] = "disposing"] /\ UNCHANGED <<ref, active>>
    /\ UNCHANGED <<mounts, owner, generation, shutting, target, myOwner, myGeneration, root, mine, map, caches, content>>

Next ==
    \/ Mount \/ Unmount \/ Shutdown \/ ShutdownSettles
    \/ \E t \in Targets : Edit(t) \/ startRepoMapGeneration(t)
    \/ \E m \in MapIds : RootSettles(m) \/ MapSettles(m)
    \/ \E i \in Inits :
        \/ SessionDisposed(i) \/ initSession(i) \/ RootComputed(i) \/ CachedRootKnown(i)
        \/ MapKnown(i) \/ SessionFails(i) \/ SessionReady(i)

Spec == Init /\ [][Next]_hookVars

-----------------------------------------------------------------------------
\* No session leaks, and none is shown that a later initialization has replaced: a session
\* that runs is the one of the component that is mounted, which a shutdown would find, or the
\* initialization that holds it has still to give it up.
NoOrphans == \A i \in Inits :
    /\ life[i] = "ready" => ref = i /\ i \in active /\ owner = myOwner[i] /\ ~shutting
    /\ life[i] = "starting" => pc[i] = "starting"

NewestIsShown == \A i, j \in Inits : ref = i /\ j > i => pc[j] # "published"

SessionsDoNotLeak == NoOrphans /\ NewestIsShown

\* Not so for an edit while the map is made: useAgentSession.ts, at the cache: "The source root is recomputed before reuse, preventing
\* source edits from serving a stale architecture map."
MapIsOfTheTarget == \A i \in Inits :
    life[i] # "none" => map[i] \in {target[i]} \X (root[i][2]..MaxEdits)
=============================================================================
