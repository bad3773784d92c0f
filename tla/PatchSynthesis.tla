--------------------------- MODULE PatchSynthesis ---------------------------
(***************************************************************************)
(* The patch competition (orchestrator-engine.ts): patches that agents     *)
(* propose for the same vulnerability are compared hunk by hunk, merged    *)
(* into one patch, and that one is verified.  A hunk replaces the line at  *)
(* its place by two; the proposals are chosen by the initial state.        *)
(***************************************************************************)
EXTENDS Integers, FiniteSetsExt, Sequences, SequencesExt, Functions

CONSTANTS
    Proposals,   \* numbered in the order the engine is given them
    Places,      \* the lines <<file, line>> a hunk may replace, the files numbered
    Contents,    \* what may stand in a line
    Exports,     \* contents that export an interface bridge
    MaxHunks     \* bound: hunks of a proposal

SynthesisAssumption ==
    /\ Proposals \subseteq Nat /\ IsFiniteSet(Proposals)
    /\ Places \subseteq Nat \X Nat
    /\ Exports \subseteq Contents /\ MaxHunks \in Nat

VARIABLES
    role, confident, hunks,   \* of each proposal: its agent, whether it is confident enough, its hunks
    step,
    conflicts,     \* detectConflicts: pairs of hunks <<proposal, index>>
    synthesis,     \* what synthesizePatches returns
    status         \* of the result

synthesisVars == <<role, confident, hunks, step, conflicts, synthesis, status>>

Roles == <<"security_boundaries", "language_patterns", "tui_state_machine">>
Hunks == [place : Places, removes : Contents]
Before(p, q) == p[1] < q[1] \/ (p[1] = q[1] /\ p[2] < q[2])
InOrder(hs) == \A i, j \in DOMAIN hs : i < j => Before(hs[i].place, hs[j].place)

Nothing == [diff |-> <<>>, contributed |-> {}, merged |-> {}, lost |-> {}, resolved |-> {}, unresolved |-> {}]

Init ==
    /\ role \in [Proposals -> Range(Roles)] /\ confident \in [Proposals -> BOOLEAN]
    /\ hunks \in [Proposals -> {hs \in UNION {[1..n -> Hunks] : n \in 1..MaxHunks} : InOrder(hs)}]
    /\ step = "filter" /\ conflicts = <<>> /\ synthesis = Nothing /\ status = "none"

TypeOK ==
    /\ step \in {"filter", "detect", "synthesize", "verify", "done"}
    /\ status \in {"none", "fully_merged", "partially_merged", "conflicts_remaining", "rejected"}
    /\ synthesis.contributed \cup synthesis.merged \cup synthesis.lost \subseteq Proposals
    /\ (synthesis.resolved \cup synthesis.unresolved) \subseteq Range(conflicts)

-----------------------------------------------------------------------------
Qualified == {p \in Proposals : confident[p]}
All(p) == {<<p, i>> : i \in DOMAIN hunks[p]}
Hunk(h) == hunks[h[1]][h[2]]

\* generateUnifiedDiff: what the patch does at a place; newStart as the hunk of a proposal
\* alone states it, with the line each hunk before it in the file adds.
Entry(h) ==
    [hunk |-> h, place |-> Hunk(h).place,
     newStart |-> Hunk(h).place[2] +
        Cardinality({i \in DOMAIN hunks[h[1]] : i < h[2] /\ hunks[h[1]][i].place[1] = Hunk(h).place[1]})]
Marker(c) == [hunk |-> <<0, 0>>, place |-> Hunk(c[1]).place, newStart |-> Hunk(c[1]).place[2]]

\* evaluate: one proposal that is confident enough is verified as it is.
Filter ==
    /\ step = "filter"
    /\ CASE Qualified = {} -> status' = "rejected" /\ step' = "done" /\ UNCHANGED synthesis
         [] Cardinality(Qualified) = 1 ->
              LET p == CHOOSE q \in Qualified : TRUE
                  broken == \E h \in All(p) : Hunk(h).removes \in Exports
              IN  /\ step' = "done" /\ status' = IF broken THEN "rejected" ELSE "fully_merged"
                  /\ synthesis' = IF broken THEN Nothing
                                  ELSE [Nothing EXCEPT !.contributed = {p},
                                                       !.diff = [i \in DOMAIN hunks[p] |-> Entry(<<p, i>>)]]
         [] OTHER -> step' = "detect" /\ UNCHANGED <<status, synthesis>>
    /\ UNCHANGED <<role, confident, hunks, conflicts>>

-----------------------------------------------------------------------------
\* rangesOverlap: they overlap, or are within three lines of each other.
rangesOverlap(p, q) == p[1] = q[1] /\ (p[2] - q[2]) \in (-3)..3

\* classifyConflict, as far as it decides what is done about the conflict.
SameLineEdit(c) == Hunk(c[1]).removes = Hunk(c[2]).removes

detectConflicts ==
    /\ step = "detect" /\ step' = "synthesize"
    /\ LET pairs == {<<g, h>> \in (UNION {All(p) : p \in Qualified}) \X (UNION {All(p) : p \in Qualified}) :
                        g[1] < h[1] /\ rangesOverlap(Hunk(g).place, Hunk(h).place)}
           Key(c) == <<c[1][1], c[2][1], c[1][2], c[2][2]>>
           First(c, d) == \E i \in 1..4 : Key(c)[i] < Key(d)[i] /\ \A j \in 1..(i - 1) : Key(c)[j] = Key(d)[j]
       IN  conflicts' = SetToSortSeq(pairs, First)
    /\ UNCHANGED <<role, confident, hunks, synthesis, status>>

-----------------------------------------------------------------------------
IsSecurity(p) == role[p] = "security_boundaries"

\* determineResolutionStrategy
Strategy(c) ==
    IF IsSecurity(c[1][1]) # IsSecurity(c[2][1]) THEN "prefer_security"
    ELSE IF SameLineEdit(c) THEN "manual_required" ELSE "merge"

Place(c) == Hunk(c[1]).place[1]
\* The first hunk of a proposal in the file of a conflict, which is the one that is taken.
FirstIn(p, file) == <<p, Min({i \in DOMAIN hunks[p] : hunks[p][i].place[1] = file})>>

\* resolveConflict
resolveConflict(s, c) ==
    LET a == FirstIn(c[1][1], Place(c))
        b == FirstIn(c[2][1], Place(c))
        kept == IF IsSecurity(a[1]) THEN a ELSE b
    IN  CASE Strategy(c) = "merge" ->
               [s EXCEPT !.diff = @ \o <<Entry(a), Entry(b)>>, !.contributed = @ \cup {a[1], b[1]},
                         !.merged = @ \cup {a[1], b[1]}, !.resolved = @ \cup {c}]
          [] Strategy(c) = "prefer_security" ->
               [s EXCEPT !.diff = @ \o <<Entry(kept)>>, !.contributed = @ \cup {kept[1]},
                         !.lost = @ \cup ({a[1], b[1]} \ {kept[1]}), !.resolved = @ \cup {c}]
          [] Strategy(c) = "manual_required" ->
               [s EXCEPT !.diff = @ \o <<Marker(c)>>, !.unresolved = @ \cup {c}]

\* The hunks that have no conflict of their own.
RestByHunk == {h \in UNION {All(p) : p \in Qualified} :
    \A c \in Range(conflicts) : h \notin {c[1], c[2]}}

\* The hunks of a file that are taken besides: those of proposals without a conflict in it.
Rest == {h \in UNION {All(p) : p \in Qualified} :
    \A c \in Range(conflicts) : Place(c) = Hunk(h).place[1] => h[1] \notin {c[1][1], c[2][1]}}

\* recomputeLineNumbers of the hunks of a file in their order; markers add no line.
recomputeLineNumbers(diff) == [i \in DOMAIN diff |->
    [diff[i] EXCEPT !.newStart = @ +
        Cardinality({j \in DOMAIN diff : j < i /\ diff[j].place[1] = diff[i].place[1] /\ diff[j].hunk[1] # 0})]]

\* synthesizePatches: conflicts first, the rest of each file, and the lines of all in order.
synthesizePatches ==
    /\ step = "synthesize" /\ step' = "verify"
    /\ LET resolved == FoldLeft(resolveConflict, Nothing, conflicts)
           others == SetToSeq({Entry(h) : h \in Rest})
           inPlace == SortSeq(resolved.diff \o others, LAMBDA x, y : Before(x.place, y.place))
       IN  synthesis' = [resolved EXCEPT !.diff = recomputeLineNumbers(inPlace),
                                         !.contributed = @ \cup {h[1] : h \in Rest}]
    /\ UNCHANGED <<role, confident, hunks, conflicts, status>>

StatusOf(broken, s) ==
    IF broken THEN "rejected"
    ELSE IF s.unresolved # {} THEN "conflicts_remaining"
    ELSE IF s.resolved # {} THEN "partially_merged" ELSE "fully_merged"

\* verifySynthesizedPatch, which fails for a removed export, and the status of the result.
Verify ==
    /\ step = "verify" /\ step' = "done"
    /\ LET removed == {Hunk(e.hunk).removes : e \in {d \in Range(synthesis.diff) : d.hunk[1] # 0}}
       IN  status' = StatusOf(removed \cap Exports # {}, synthesis)
    /\ synthesis' = IF status' = "rejected" THEN [synthesis EXCEPT !.diff = <<>>] ELSE synthesis
    /\ UNCHANGED <<role, confident, hunks, conflicts>>

Next == Filter \/ detectConflicts \/ synthesizePatches \/ Verify

Spec == Init /\ [][Next]_synthesisVars

-----------------------------------------------------------------------------
\* The buckets of the result
Merged == synthesis.merged
Accepted == synthesis.contributed \ Merged
Rejected == synthesis.lost \ synthesis.contributed
Waiting == UNION {{c[1][1], c[2][1]} : c \in synthesis.unresolved}

\* Every proposal that qualifies is accounted for: in one bucket of the result, or in a conflict
\* somebody has to resolve; and nothing of a rejected one is in the patch.
EveryProposalIsAnswered == step \in {"verify", "done"} /\ Cardinality(Qualified) > 1 =>
    /\ Qualified \subseteq Accepted \cup Merged \cup Rejected \cup Waiting
    /\ Accepted \cap Merged = {} /\ Rejected \cap (Accepted \cup Merged) = {}
    /\ \A e \in Range(synthesis.diff) : e.hunk[1] \notin Rejected

\* A patch that is fully merged has every hunk that was proposed, no two of them near each
\* other, and every one of a proposal alone at the line where it belongs; no patch that is
\* handed out removes an export, or has a conflict in it that its status does not tell of.
MergeIsComplete ==
    /\ status = "fully_merged" =>
        /\ {e.hunk : e \in Range(synthesis.diff)} = UNION {All(p) : p \in Qualified}
        /\ \A i, j \in DOMAIN synthesis.diff : i # j /\ synthesis.diff[i].hunk[1] # synthesis.diff[j].hunk[1] =>
              \/ synthesis.diff[i].place[1] # synthesis.diff[j].place[1]
              \/ (synthesis.diff[i].place[2] - synthesis.diff[j].place[2]) \notin (-3)..3
    /\ \A e \in Range(synthesis.diff) : step = "done" =>
        IF e.hunk[1] = 0 THEN status = "conflicts_remaining" ELSE Hunk(e.hunk).removes \notin Exports

MergesAreSound == EveryProposalIsAnswered /\ MergeIsComplete

\* Not so with a hunk more than three lines from a conflict of its proposal in the same file:
\* patch-synthesizer.ts: "For non-conflicting hunks: merge directly"
NonConflictingHunksAreMerged == step = "verify" => \A h \in RestByHunk :
    \E e \in Range(synthesis.diff) : e.hunk = h

\* Not so for the second hunk of a proposal, whose number has accounted for the first already:
\* patch-synthesizer.ts, of recomputeLineNumbers: "the line numbers must be adjusted to account
\* for earlier insertions/deletions"
LineNumbersAreRight == step = "verify" => \A i \in DOMAIN synthesis.diff :
    synthesis.diff[i].newStart = synthesis.diff[i].place[2] + Cardinality({j \in 1..(i - 1) :
        synthesis.diff[j].place[1] = synthesis.diff[i].place[1] /\ synthesis.diff[j].hunk[1] # 0})
=============================================================================
