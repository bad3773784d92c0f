--------------------------- MODULE KnowledgeGraph ---------------------------
(***************************************************************************)
(* The knowledge graph of a run (knowledge-graph.ts): entities and edges   *)
(* in memory with indexes by endpoint, a snapshot on disk, and the         *)
(* searches on it.  A session loads the snapshot of its run and adds what  *)
(* the semantic index has of the target (semantic-index-initializer.ts);   *)
(* the target may be edited, and the session may die, at any time.         *)
(***************************************************************************)
EXTENDS Naturals, FiniteSets, Sequences, SequencesExt

CONSTANTS
    Files,
    Contents,               \* contents of a file: records of deps (files) and symbols
    MaxEdits, MaxCrashes    \* bounds

\* A symbol has a name, the simple name it is called by, and the simple names it calls.
KnowledgeGraphAssumption ==
    /\ \A c \in Contents : c.deps \subseteq Files /\ \A s \in c.symbols : DOMAIN s = {"name", "simple", "calls"}
    /\ MaxEdits \in Nat /\ MaxCrashes \in Nat

VARIABLES
    source,                 \* the content of each file
    entities, edges,        \* of the graph in memory
    outbound, inbound,      \* the edges of each entity that has any
    snapshot,               \* on disk
    pc,                     \* of the session: "closed", "loaded", "populated" or "saved"
    edits, crashes

graphVars == <<source, entities, edges, outbound, inbound, snapshot, pc, edits, crashes>>

File(f) == [type |-> "file", file |-> f]
Symbol(f, s) == [type |-> "function", file |-> f, name |-> s.name]
Chunk(f, s) == [type |-> "chunk", file |-> f, content |-> s]
Edge(type, a, b) == [type |-> type, from |-> a, to |-> b]
Empty == [entities |-> {}, edges |-> {}]

Init ==
    /\ source \in [Files -> Contents]
    /\ entities = {} /\ edges = {} /\ outbound = <<>> /\ inbound = <<>> /\ snapshot = Empty
    /\ pc = "closed" /\ edits = 0 /\ crashes = 0

TypeOK ==
    /\ source \in [Files -> Contents] /\ pc \in {"closed", "loaded", "populated", "saved"}
    /\ DOMAIN outbound \cup DOMAIN inbound \subseteq entities
    /\ snapshot.entities \cup entities \subseteq
          {File(f) : f \in Files} \cup UNION {{Symbol(f, s), Chunk(f, s)} : f \in Files, s \in UNION {c.symbols : c \in Contents}}

-----------------------------------------------------------------------------
\* indexEdge, for the edges that are new, by one of their ends: "from" or "to".
indexEdges(index, new, end) ==
    [e \in DOMAIN index \cup {x[end] : x \in new} |->
        (IF e \in DOMAIN index THEN index[e] ELSE {}) \cup {x \in new : x[end] = e}]

\* addEdge for several edges: it refuses one without its ends, and merges one that is there.
addEdges(all, new) ==
    LET added == {x \in new : x.from \in all /\ x.to \in all} \ edges
    IN  /\ edges' = edges \cup added
        /\ outbound' = indexEdges(outbound, added, "from") /\ inbound' = indexEdges(inbound, added, "to")

SymbolsOf(f) == source[f].symbols

\* resolveDependencyFile and addDependencyEdges.
Dependencies(f) == source[f].deps \ {f}

\* addCallEdges: the one symbol of the same file with that name, or else the one in a file it depends on.
Named(n, fs) == {<<f, s>> \in UNION {{f} \X SymbolsOf(f) : f \in fs} : s.simple = n}
Callee(f, n) ==
    LET same == Named(n, {f})
        imported == Named(n, Dependencies(f))
    IN  IF Cardinality(same) = 1 THEN same ELSE IF Cardinality(imported) = 1 THEN imported ELSE {}

CallEdges(f) ==
    {Edge("calls", Symbol(f, s), Symbol(t[1], t[2])) : <<s, t>> \in
        {<<s, t>> \in SymbolsOf(f) \X UNION {{g} \X SymbolsOf(g) : g \in Files} :
            \E n \in s.calls : t \in Callee(f, n) /\ t # <<f, s>>}}

\* populateIndexKnowledgeGraph: adds, and removes nothing.
populateIndexKnowledgeGraph ==
    /\ pc = "loaded" /\ pc' = "populated"
    /\ LET new(f) == {File(f)} \cup UNION {{Symbol(f, s), Chunk(f, s)} : s \in SymbolsOf(f)}
           parts(f) == UNION {{Edge("contains", File(f), Chunk(f, s)), Edge("contains", File(f), Symbol(f, s)),
                               Edge("embeds", Chunk(f, s), Symbol(f, s))} : s \in SymbolsOf(f)}
           depends(f) == {Edge("depends_on", File(f), File(g)) : g \in Dependencies(f)}
       IN  /\ entities' = entities \cup UNION {new(f) : f \in Files}
           /\ addEdges(entities', UNION {parts(f) \cup depends(f) \cup CallEdges(f) : f \in Files})
    /\ UNCHANGED <<source, snapshot, edits, crashes>>

\* saveSnapshot, one atomic write; when it fails the session goes on.
saveSnapshot ==
    /\ pc = "populated" /\ pc' = "saved"
    /\ \/ snapshot' = [entities |-> entities, edges |-> edges]
       \/ UNCHANGED snapshot
    /\ UNCHANGED <<source, entities, edges, outbound, inbound, edits, crashes>>

\* loadSnapshot: the edges that are restored into an index.
Restored(index) == snapshot.edges
create ==
    /\ pc = "closed" /\ pc' = "loaded"
    /\ entities' = snapshot.entities /\ edges' = snapshot.edges
    /\ outbound' = indexEdges(<<>>, Restored("outbound"), "from") /\ inbound' = indexEdges(<<>>, Restored("inbound"), "to")
    /\ UNCHANGED <<source, snapshot, edits, crashes>>

Edit(f, c) ==
    /\ edits < MaxEdits /\ edits' = edits + 1 /\ c # source[f] /\ source' = [source EXCEPT ![f] = c]
    /\ UNCHANGED <<entities, edges, outbound, inbound, snapshot, pc, crashes>>

Crash ==
    /\ pc # "closed" /\ pc' = "closed" /\ crashes < MaxCrashes /\ crashes' = crashes + 1
    /\ entities' = {} /\ edges' = {} /\ outbound' = <<>> /\ inbound' = <<>>
    /\ UNCHANGED <<source, snapshot, edits>>

Next == populateIndexKnowledgeGraph \/ saveSnapshot \/ create \/ Crash \/ \E f \in Files, c \in Contents : Edit(f, c)
Spec == Init /\ [][Next]_graphVars

-----------------------------------------------------------------------------
\* The searches.

Out(e) == IF e \in DOMAIN outbound THEN outbound[e] ELSE {}
In(e) == IF e \in DOMAIN inbound THEN inbound[e] ELSE {}

TooDeep(depth, maxDepth) == depth > maxDepth

\* findPaths: depth first, with the entities of the path so far marked.
RECURSIVE Paths(_, _, _, _, _)
Paths(current, target, depth, maxDepth, marked) ==
    IF TooDeep(depth, maxDepth) THEN {}
    ELSE IF current = target THEN {<<>>}
    ELSE UNION {{<<x>> \o p : p \in Paths(x.to, target, depth + 1, maxDepth, marked \cup {current})} :
                   x \in {y \in Out(current) : y.to \notin marked \cup {current}}}
findPaths(a, b, maxDepth) == IF a \in entities THEN Paths(a, b, 0, maxDepth, {}) ELSE {}

TakeFirst(queue) == <<Head(queue), Tail(queue)>>

\* traverse: breadth first along edges of the given types, to the given depth.
RECURSIVE Visit(_, _, _, _, _)
Visit(queue, visited, types, outwards, maxDepth) ==
    IF queue = <<>> THEN visited
    ELSE LET e == TakeFirst(queue)[1].entity
             depth == TakeFirst(queue)[1].depth
             rest == TakeFirst(queue)[2]
             found == {IF outwards THEN x.to ELSE x.from :
                          x \in {y \in IF outwards THEN Out(e) ELSE In(e) : y.type \in types}} \ (visited \cup {e})
         IN  IF e \in visited \/ depth > maxDepth THEN Visit(rest, visited, types, outwards, maxDepth)
             ELSE Visit(FoldSet(LAMBDA n, q : Append(q, [entity |-> n, depth |-> depth + 1]), rest, found),
                        visited \cup {e}, types, outwards, maxDepth)
traverse(start, types, outwards, maxDepth) ==
    Visit(<<[entity |-> start, depth |-> 0]>>, {}, types, outwards, maxDepth) \cap entities

-----------------------------------------------------------------------------
\* What is within a number of edges of an entity, by the edges and not by their indexes.
RECURSIVE Within(_, _, _, _)
Within(set, types, outwards, n) ==
    IF n = 0 THEN set
    ELSE Within(set \cup {IF outwards THEN x.to ELSE x.from :
                             x \in {y \in edges : y.type \in types /\ (IF outwards THEN y.from ELSE y.to) \in set}},
                types, outwards, n - 1)

Types == {"contains", "embeds", "depends_on", "calls"}
Depths == 0..3

\* The searches, which use the indexes, find what the edges say: a path exactly if the target is near
\* enough, and all that is near enough in either direction, also in a graph that was restored.
SearchesAreExact == pc \in {"loaded", "populated"} =>
    /\ \A x \in edges : {x.from, x.to} \subseteq entities
    /\ \A n \in Depths, a \in entities :
          /\ \A b \in entities : findPaths(a, b, n) # {} <=> b \in Within({a}, Types, TRUE, n)
          /\ \A types \in {{"calls"}, Types}, outwards \in BOOLEAN :
                traverse(a, types, outwards, n) = Within({a}, types, outwards, n)

=============================================================================
