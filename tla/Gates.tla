-------------------------------- MODULE Gates --------------------------------
(***************************************************************************)
(* The verification gates (gates.ts, contradiction-check.ts,               *)
(* evidence-linker.ts) that a candidate passes before it is reported, and  *)
(* the confidence the report gives it (confidence.ts).                     *)
(*                                                                         *)
(* A graph g has g.entities, by id: file (of the entity), code (whether it *)
(* says where it is), vulnerable and safe (what its edges say of it), and  *)
(* confident, doubtful (its confidence, and that of most of its edges);    *)
(* and g.edges, pairs of ids of each type.  A candidate has cwe, source,   *)
(* sink (ids, or "" for none), ids, related, runs and assumptions.         *)
(***************************************************************************)
EXTENDS Integers, FiniteSets, FiniteSetsExt

CONSTANT Injections     \* the weaknesses that need a data flow

Known(g, id) == id \in DOMAIN g.entities

\* KnowledgeGraph.findPaths: whether there is a path of at most so many edges.
RECURSIVE Reach(_, _, _)
Reach(g, set, n) == IF n = 0 THEN set
                    ELSE Reach(g, set \cup {x[2] : x \in {y \in UNION {g.edges[t] : t \in DOMAIN g.edges} : y[1] \in set}}, n - 1)
findPaths(g, a, b, maxDepth) == Known(g, a) /\ b \in Reach(g, {a}, maxDepth)

\* getEntityEvidence, extractCodeEvidence.
HasCode(g, ids) == \E id \in ids : Known(g, id) /\ g.entities[id].code

\* hasCrossFileConnection: a call from a function of one file to one of the other.
hasCrossFileConnection(g, f1, f2) ==
    \E x \in g.edges["calls"] : g.entities[x[1]].file = f1 /\ g.entities[x[2]].file = f2

-----------------------------------------------------------------------------
\* checkFinding: the contradictions that block, and those that do not.

conflictingStatus(g, ids) == {id \in ids : Known(g, id) /\ g.entities[id].vulnerable /\ g.entities[id].safe}

impossibleFlow(g, source, sink) ==
    /\ Known(g, source) /\ Known(g, sink)
    /\ LET f1 == g.entities[source].file
           f2 == g.entities[sink].file
       IN  /\ f1 # f2 /\ ~findPaths(g, source, sink, 10)
           /\ Known(g, f1) /\ Known(g, f2) /\ ~hasCrossFileConnection(g, f1, f2)

confidenceMismatch(g, ids) == {id \in ids : Known(g, id) /\ g.entities[id].confident /\ g.entities[id].doubtful}

checkFinding(g, c) ==
    LET ids == c.ids \cup c.related
    IN  {[type |-> "conflicting_status", severity |-> "major", of |-> id] : id \in conflictingStatus(g, ids)}
        \cup {[type |-> "impossible_flow", severity |-> "major", of |-> id] :
                id \in {i \in {c.source} : c.source # "" /\ c.sink # "" /\ impossibleFlow(g, c.source, c.sink)}}
        \cup {[type |-> "confidence_mismatch", severity |-> "minor", of |-> id] : id \in confidenceMismatch(g, ids)}

hasBlockingContradictions(g, c) == \E x \in checkFinding(g, c) : x.severity \in {"critical", "major"}

-----------------------------------------------------------------------------
\* The gates, by name.

gateCodeEvidencePresent(g, c) == HasCode(g, c.ids)

\* verifyDataFlowEvidence: with a path its coverage always suffices.
gateDataFlowPresent(g, c) ==
    c.cwe \in Injections =>
        /\ c.source # "" /\ c.sink # ""
        /\ Known(g, c.source) /\ Known(g, c.sink) /\ findPaths(g, c.source, c.sink, 10)

gateAssumptionsFlagged(c) == c.assumptions = {} \/ c.ids # {} \/ c.runs # {}

\* A truncated output passes: it is flagged.
gateTruncationFlagged(c) == TRUE

gateNoContradictions(g, c) == ~hasBlockingContradictions(g, c)

-----------------------------------------------------------------------------
\* calculateConfidence, in thousandths.

MultipleTools(n) == n > 1

\* The sums of the code's binary fractions agree with these except one that is just under a half.
Rounding(f) == IF f.runs >= 3 /\ ~f.code /\ f.flow /\ ~f.contradictions THEN -1 ELSE 0

calculateConfidence(f) ==
    LET sum == Min({100 * f.runs, 300}) + (IF f.code THEN 250 ELSE -200) + (IF f.flow THEN 200 ELSE -100)
               + (IF MultipleTools(f.runs) THEN 150 ELSE IF f.runs <= 1 THEN -100 ELSE 0)
               + (IF f.contradictions THEN -300 ELSE 50) + (IF f.truncation THEN -150 ELSE 0) + Rounding(f)
    IN  Max({0, Min({1000, sum})})

\* verify: which of the gates a policy requires, and what comes of it.
\* A policy has code, flow, assumptions and confidence: whether it requires them.
requiredGates(policy, c) ==
    {"no_contradictions"} \cup {n \in {"code_evidence"} : policy.code}
    \cup {n \in {"data_flow"} : policy.flow /\ c.cwe \in Injections}
    \cup {n \in {"assumptions_flagged"} : policy.assumptions}
    \cup {n \in {"minimum_confidence"} : policy.confidence}

verify(g, policy, c) ==
    LET factors == [runs |-> Cardinality(c.runs), code |-> gateCodeEvidencePresent(g, c), flow |-> gateDataFlowPresent(g, c),
                    contradictions |-> ~gateNoContradictions(g, c), truncation |-> ~gateTruncationFlagged(c)]
        confidence == calculateConfidence(factors)
        passed == {n \in {"code_evidence"} : factors.code} \cup {n \in {"data_flow"} : factors.flow}
                  \cup {n \in {"assumptions_flagged"} : gateAssumptionsFlagged(c)}
                  \cup {n \in {"truncation_flagged"} : gateTruncationFlagged(c)}
                  \cup {n \in {"no_contradictions"} : ~factors.contradictions}
                  \cup {n \in {"minimum_confidence"} : confidence >= 500}
    IN  [canEmit |-> requiredGates(policy, c) \subseteq passed, confidence |-> confidence, passed |-> passed]
=============================================================================
