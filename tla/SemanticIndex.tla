--------------------------- MODULE SemanticIndex ---------------------------
(***************************************************************************)
(* The semantic index of a target (semantic-index.ts, vector-store.ts,     *)
(* semantic-index-initializer.ts).  Sessions index the sources, which the  *)
(* user edits meanwhile, into directories they share: the vectors and the  *)
(* chunks they belong to are two files, written one after the other under  *)
(* a lock that holds across sessions.  The embedding provider may be       *)
(* unavailable or fail; every failure falls back to vectors without        *)
(* meaning.  A session may crash, or be aborted, between any two steps.    *)
(***************************************************************************)
EXTENDS Naturals, FiniteSets

CONSTANTS
    Files, Sessions,
    Contents,     \* of a file: sets of chunks <<line, block>>, of which one place has one (the last of its
                  \* declarations); nothing for a file that is absent
    MaxEdits, MaxRuns, MaxFailures   \* bounds: edits, indexings of a session, failures and crashes

IndexAssumption ==
    /\ {} \in Contents /\ "free" \notin Sessions
    /\ \A c \in Contents : IsFiniteSet(c) /\ (\A x \in c : x[1] \in Nat) /\ \A x, y \in c : x[1] = y[1] => x = y
    /\ MaxEdits \in Nat /\ MaxRuns \in Nat /\ MaxFailures \in Nat

VARIABLES
    source,                  \* the content of each file
    vectors, metadata,       \* of each directory: vector-index.json and chunk-metadata.json
    lock,                    \* of each directory: the session that holds it
    pc, attempt, provider,   \* of each session: its step, how often it started over, its provider
    store, chunks,           \* of each session: its vectors and chunks
    todo, dirty,             \* of each session: files to index, files edited since it listed them
    edits, runs, failures

diskVars == <<vectors, metadata, lock>>
sessionVars == <<pc, attempt, provider, store, chunks, todo>>
countVars == <<edits, runs, failures>>
indexVars == <<source, diskVars, sessionVars, dirty, countVars>>

Dirs == {"semantic", "lexical"}
Init ==
    /\ source \in [Files -> Contents \ {{}}]
    /\ vectors = [d \in Dirs |-> [provider |-> "none", generation |-> 0, entries |-> {}]]
    /\ metadata = [d \in Dirs |-> [generation |-> 0, chunks |-> {}]]
    /\ lock = [d \in Dirs |-> "free"]
    /\ pc = [s \in Sessions |-> "idle"] /\ attempt = [s \in Sessions |-> 0]
    /\ provider = [s \in Sessions |-> "model"]
    /\ store = [s \in Sessions |-> {}] /\ chunks = [s \in Sessions |-> {}]
    /\ todo = [s \in Sessions |-> {}] /\ dirty = [s \in Sessions |-> {}]
    /\ edits = 0 /\ runs = 0 /\ failures = 0

TypeOK ==
    /\ source \in [Files -> Contents] /\ lock \in [Dirs -> Sessions \cup {"free"}]
    /\ pc \in [Sessions -> {"idle", "locking", "vectors", "metadata", "collect", "index", "save", "commit", "done", "failed"}]
    /\ attempt \in [Sessions -> 0..2] /\ provider \in [Sessions -> {"model", "null"}]
    /\ \A s \in Sessions : \A e \in store[s] \cup chunks[s] : e.id[1] \in Files
    /\ todo \in [Sessions -> SUBSET Files] /\ dirty \in [Sessions -> SUBSET Files]

-----------------------------------------------------------------------------
\* The last attempt has a directory of its own.
dir(s) == IF attempt[s] = 2 THEN "lexical" ELSE "semantic"

\* A chunk is known by its place, and recognized by the hash of what is embedded of it.
ChunkSource(f) == {[id |-> <<f, b[1]>>, hash |-> b[2]] : b \in source[f]}
getChunksForFile(s, f) == {c \in chunks[s] : c.id[1] = f}
Hashes(cs) == {c.hash : c \in cs}
Ids(cs) == {c.id : c \in cs}

\* The sources change: a session that has listed the files may have read them before or after.
Edit(f) ==
    /\ edits < MaxEdits /\ edits' = edits + 1
    /\ \E c \in Contents \ {source[f]} : source' = [source EXCEPT ![f] = c]
    /\ dirty' = [s \in Sessions |-> dirty[s] \cup {f}]
    /\ UNCHANGED <<diskVars, sessionVars, runs, failures>>

\* initializeSemanticIndex, resolveEmbeddingProvider: a model that answers, or none.  What
\* initialize loads is loaded again, under the lock, before it is used.
Start(s) ==
    /\ pc[s] \in {"idle", "done", "failed"} /\ runs < MaxRuns /\ runs' = runs + 1
    /\ \E p \in {"model", "null"} : provider' = [provider EXCEPT ![s] = p]
    /\ attempt' = [attempt EXCEPT ![s] = 0] /\ pc' = [pc EXCEPT ![s] = "locking"]
    /\ UNCHANGED <<source, diskVars, store, chunks, todo, dirty, edits, failures>>

Step(s, from, to) == pc[s] = from /\ pc' = [pc EXCEPT ![s] = to]

\* withPathLock
TakeLock(s) ==
    /\ Step(s, "locking", "vectors") /\ lock[dir(s)] = "free"
    /\ lock' = [lock EXCEPT ![dir(s)] = s]
    /\ UNCHANGED <<source, vectors, metadata, attempt, provider, store, chunks, todo, dirty, countVars>>

\* VectorStore.create, reloadPersistedState: vectors of another provider are not taken.
LoadVectors(s) ==
    /\ pc[s] = "vectors"
    /\ LET compatible == vectors[dir(s)].provider = provider[s]
       IN  /\ store' = [store EXCEPT ![s] = IF compatible THEN vectors[dir(s)].entries ELSE {}]
           /\ pc' = [pc EXCEPT ![s] = IF compatible THEN "metadata" ELSE "collect"]
    /\ chunks' = [chunks EXCEPT ![s] = {}]
    /\ UNCHANGED <<source, diskVars, attempt, provider, todo, dirty, countVars>>

\* Faulty variant: chunks that have vectors, whichever run saved those.
AreBothThere(m, v) == Ids(m.chunks) \subseteq Ids(v.entries)

\* loadChunkMetadata: only the chunks that were saved with these vectors.
AreTogether(m, v) == m.generation = v.generation /\ Ids(m.chunks) \subseteq Ids(v.entries)

loadChunkMetadata(s) ==
    /\ Step(s, "metadata", "collect")
    /\ chunks' = [chunks EXCEPT ![s] =
          IF AreTogether(metadata[dir(s)], vectors[dir(s)]) THEN metadata[dir(s)].chunks ELSE {}]
    /\ UNCHANGED <<source, diskVars, attempt, provider, store, todo, dirty, countVars>>

Without(es, ids) == {e \in es : e.id \notin ids}

\* collectSourceFiles, and invalidateFile for what is indexed and gone.
collectSourceFiles(s) ==
    /\ Step(s, "collect", "index")
    /\ LET ids == {c.id : c \in {x \in chunks[s] : source[x.id[1]] = {}}}
       IN  /\ chunks' = [chunks EXCEPT ![s] = Without(@, ids)]
           /\ store' = [store EXCEPT ![s] = Without(@, ids)]
    /\ todo' = [todo EXCEPT ![s] = {f \in Files : source[f] # {}}]
    /\ dirty' = [dirty EXCEPT ![s] = {}]
    /\ UNCHANGED <<source, diskVars, attempt, provider, countVars>>

\* Files whose chunks all have the hash they had keep what is indexed, with its places.
IsIndexed(s, f) ==
    /\ Cardinality(getChunksForFile(s, f)) = Cardinality(ChunkSource(f))
    /\ \A c \in getChunksForFile(s, f), d \in ChunkSource(f) :
          Cardinality({x \in getChunksForFile(s, f) : x.id[2] < c.id[2]})
             = Cardinality({y \in ChunkSource(f) : y.id[2] < d.id[2]}) => c.hash = d.hash

\* createEmbeddings: what the vectors of the indexed chunks with the same hash embed.
Reusable(s, c) == {e.of : e \in {x \in store[s] :
    \E d \in getChunksForFile(s, c.id[1]) : d.hash = c.hash /\ d.id = x.id}}

\* indexFile: a file that cannot be read, or is empty, loses its chunks; otherwise all the
\* vectors are there before the index is changed.
indexFile(s, f) ==
    /\ pc[s] = "index" /\ f \in todo[s] /\ todo' = [todo EXCEPT ![s] = @ \ {f}]
    /\ IF source[f] # {} /\ IsIndexed(s, f) THEN UNCHANGED <<store, chunks>>
       ELSE LET old == Ids(getChunksForFile(s, f))
                entries == {[id |-> c.id, of |-> IF Reusable(s, c) = {} THEN c.hash ELSE CHOOSE h \in Reusable(s, c) : TRUE]
                               : c \in ChunkSource(f)}
            IN  /\ chunks' = [chunks EXCEPT ![s] = Without(@, old) \cup ChunkSource(f)]
                /\ store' = [store EXCEPT ![s] = Without(@, old \cup Ids(ChunkSource(f))) \cup entries]
    /\ UNCHANGED <<source, diskVars, pc, attempt, provider, dirty, countVars>>

\* What becomes of a failure: it is started over without a model in the same place, then with
\* lexical chunks in a place of their own, and then there is no index.
FallBack(s) ==
    /\ failures < MaxFailures /\ failures' = failures + 1
    /\ lock' = [lock EXCEPT ![dir(s)] = "free"]
    /\ IF attempt[s] < 2
       THEN pc' = [pc EXCEPT ![s] = "locking"] /\ attempt' = [attempt EXCEPT ![s] = @ + 1]
       ELSE pc' = [pc EXCEPT ![s] = "failed"] /\ UNCHANGED attempt
    /\ provider' = [provider EXCEPT ![s] = "null"]
    /\ UNCHANGED <<source, vectors, metadata, store, chunks, todo, dirty, edits, runs>>

\* The provider fails for chunks that have no vector yet.
EmbeddingFails(s) ==
    /\ pc[s] = "index" /\ provider[s] = "model"
    /\ \E f \in todo[s] : source[f] # {} /\ ~IsIndexed(s, f) /\ \E c \in ChunkSource(f) : Reusable(s, c) = {}
    /\ FallBack(s)

\* saveSnapshot: the vectors under a new generation, which an unused number stands for.
SaveVectors(s) ==
    /\ Step(s, "index", "save") /\ todo[s] = {}
    /\ vectors' = [vectors EXCEPT ![dir(s)] =
          [provider |-> provider[s], entries |-> store[s],
           generation |-> CHOOSE n \in 1..5 :
               \A d \in Dirs : n \notin {vectors[d].generation, metadata[d].generation}]]
    /\ UNCHANGED <<source, metadata, lock, attempt, provider, store, chunks, todo, dirty, countVars>>

SaveFails(s) == pc[s] \in {"index", "save"} /\ todo[s] = {} /\ FallBack(s)

\* saveChunkMetadata, and the lock is released.
saveChunkMetadata(s) ==
    /\ Step(s, "save", "done")
    /\ metadata' = [metadata EXCEPT ![dir(s)] =
          [generation |-> vectors[dir(s)].generation, chunks |-> chunks[s]]]
    /\ lock' = [lock EXCEPT ![dir(s)] = "free"]
    /\ UNCHANGED <<source, vectors, attempt, provider, store, chunks, todo, dirty, countVars>>

\* A crash, or an abort; the lock of a dead process is taken away from it.
Stop(s) ==
    /\ pc[s] \notin {"idle", "done", "failed"} /\ failures < MaxFailures /\ failures' = failures + 1
    /\ pc' = [pc EXCEPT ![s] = "idle"]
    /\ lock' = [lock EXCEPT ![dir(s)] = IF @ = s THEN "free" ELSE @]
    /\ store' = [store EXCEPT ![s] = {}] /\ chunks' = [chunks EXCEPT ![s] = {}]
    /\ UNCHANGED <<source, vectors, metadata, attempt, provider, todo, dirty, edits, runs>>

Next ==
    \/ \E f \in Files : Edit(f)
    \/ \E s \in Sessions :
        \/ Start(s) \/ TakeLock(s) \/ LoadVectors(s) \/ loadChunkMetadata(s) \/ collectSourceFiles(s)
        \/ \E f \in Files : indexFile(s, f)
        \/ EmbeddingFails(s) \/ SaveVectors(s) \/ SaveFails(s) \/ saveChunkMetadata(s) \/ Stop(s)

Spec == Init /\ [][Next]_indexVars

-----------------------------------------------------------------------------
\* A chunk a session may find has one vector, which embeds what the chunk holds: also when the
\* vectors and the chunks were saved by different runs, with a crash between the two files.
VectorsAreOfTheirChunks == \A s \in Sessions : pc[s] \in {"collect", "index", "save", "done"} =>
    \A c \in chunks[s] : {e.of : e \in {x \in store[s] : x.id = c.id}} = {c.hash}

\* An index that is ready holds each file that was not edited meanwhile, and no file that is gone.
IndexIsCurrent == \A s \in Sessions : pc[s] = "done" =>
    \A f \in Files \ dirty[s] : Hashes(getChunksForFile(s, f)) = Hashes(ChunkSource(f))

IndexIsSound == VectorsAreOfTheirChunks /\ IndexIsCurrent

\* Not so for a session that finds no model to begin with, and so indexes under the first
\* directory: semantic-index-initializer.ts, that the fallback is isolated "so a transient embedding failure
\* never overwrites the persisted semantic vectors from a previous healthy run".
FailureKeepsVectors ==
    (\E s \in Sessions : pc[s] = "done" /\ provider[s] = "model") => vectors["semantic"].provider = "model"

\* Not so after a crash between the two files: vectors of chunks that nobody knows any more.
NoOrphanVectors == \A s \in Sessions : pc[s] = "done" => Ids(store[s]) \subseteq Ids(chunks[s])
\* Not so for a file whose chunks moved, but did not change.
PlacesAreCurrent == \A s \in Sessions : pc[s] = "done" =>
    \A f \in Files \ dirty[s] : getChunksForFile(s, f) = ChunkSource(f)
=============================================================================
